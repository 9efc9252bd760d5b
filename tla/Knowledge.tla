----------------------------- MODULE Knowledge -----------------------------
(***************************************************************************)
(* The Markdown files under gks/ with those who write them and those who   *)
(* read them.  The writers do not look at the readers, so their calls are  *)
(* worked in every overlap on their own (side "writers"); beside the       *)
(* re-builder and the layer (side "readers") a few calls in turn give the  *)
(* files the texts, whole and half-written, that readers can meet.         *)
(***************************************************************************)
EXTENDS AtomicLayer

CONSTANT Beside   \* bound: the calls made beside the readers

ASSUME BesideAssumption == Beside \subseteq Ops

VARIABLE side     \* "writers" or "readers"

KnowledgeInit ==
    /\ IssueInit /\ AtomicInit
    /\ side \in {"writers", "readers"}
    /\ side = "readers" => in_turn
    /\ side = "writers" => apart /\ wants = [l \in Lookups |-> CHOOSE i \in Ids : TRUE]

KnowledgeNext ==
    \/ side = "writers" /\ IssueNext /\ UNCHANGED <<atomicVars, side>>
    \/ side = "readers" /\ IssueStep(Beside) /\ UNCHANGED <<atomicVars, side>>
    \/ side = "readers" /\ AtomicNext /\ UNCHANGED <<issueVars, side>>

KnowledgeSpec == KnowledgeInit /\ [][KnowledgeNext]_<<issueVars, atomicVars, side>>

\* Types of the files' writers and readers.
KnowledgeTypeOK == IssueTypeOK /\ AtomicTypeOK
=============================================================================
