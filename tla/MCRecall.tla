------------------------------ MODULE MCRecall ------------------------------
(* Recall for TLC: a retrieve by one tenant from every source, and a        *)
(* search; a key found by three sources, and twice by one, fewer hits than  *)
(* the reranker could score, and more.                                      *)
EXTENDS Recall, TLC

CONSTANTS q1, q2, t1, t2

H(key, src, tenant, score, stable) ==
    [key |-> key, src |-> src, tenant |-> tenant, score |-> score, stable |-> stable]

MCHits == {H("a", "vector", t1, 12, FALSE), H("b", "vector", t2, 15, TRUE),
           H("a", "episodic", t1, 15, FALSE), H("a", "episodic", t1, 15, TRUE),
           H("c", "episodic", t2, 17, FALSE),
           H("a", "atomic", Anyone, 20, TRUE),
           H("b", "obsidian", Anyone, 14, FALSE), H("d", "obsidian", Anyone, 18, FALSE)}

MCAsked ==
    q1 :> [kind |-> "retrieve", sources |-> Sources, tenant |-> t1, id |-> TRUE, topK |-> Unset]
 @@ q2 :> [kind |-> "search", sources |-> {"episodic"}, tenant |-> Anyone, id |-> FALSE, topK |-> 2]

Symmetry == Permutations(Clients) \union Permutations(Dials) \union Permutations(Asks)
=============================================================================
