------------------------------ MODULE PgStore ------------------------------
(***************************************************************************)
(* The two Postgres backends of one database.  They share a pool and no    *)
(* table, and no call of one waits for the other, so the steps of the two  *)
(* commute: every behaviour of both is, for each of them, a behaviour of   *)
(* that one alone.  A behaviour of this module therefore works one side,   *)
(* chosen at the start, and TLC is spared the product of the two.          *)
(***************************************************************************)
EXTENDS PgGraph, PgVector

VARIABLE side   \* the backend that moves

\* Which stores the vector backends serve does not matter to the graph side.
PgInit ==
    /\ GraphInit /\ VectorInit
    /\ side \in {"graph", "vector"}
    /\ side = "graph" => storeOf = CHOOSE f \in [Backends -> Stores] : TRUE

PgNext ==
    \/ side = "graph" /\ GraphNext /\ UNCHANGED <<vectorVars, side>>
    \/ side = "vector" /\ VectorNext /\ UNCHANGED <<graphVars, side>>

PgSpec == PgInit /\ [][PgNext]_<<graphVars, vectorVars, side>>

\* Types of both sides.
PgTypeOK == GraphTypeOK /\ VectorTypeOK
=============================================================================
