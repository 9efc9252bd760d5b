----------------------------- MODULE MCPgStore -----------------------------
(* PgStore for TLC: a chain of two facts for the graph; two backends for   *)
(* the vectors, on one store or on two, and two patches of the same two    *)
(* documents in opposite orders.                                           *)
EXTENDS PgStore, TLC

CONSTANTS a, b, c, knows, d1, d2, x1, x2

ab == [from |-> a, to |-> b, rel |-> knows]
bc == [from |-> b, to |-> c, rel |-> knows]
MCFacts == {ab, bc}
MCRequests == {[fact |-> ab, at |-> 1, supersede |-> FALSE],
               [fact |-> ab, at |-> 0, supersede |-> TRUE],
               [fact |-> bc, at |-> 0, supersede |-> FALSE]}

MCNamed == x1 :> <<d1, d2>> @@ x2 :> <<d2, d1>>
MCBatches == {<<d1, d2>>}

Symmetry == Permutations(Procs) \union Permutations(EdgeIds) \union Permutations(Backends)
            \union Permutations(Stores)
=============================================================================
