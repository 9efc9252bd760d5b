------------------------------ MODULE Workflow ------------------------------
(***************************************************************************)
(* The producers of the inbound queue: the end of a session, the scaffold, *)
(* and whoever proposes directly.  What one does to another goes through   *)
(* the queue, where a direct proposal stands for it; and a session only    *)
(* ever adds to the queue, so it meets no reviewer.  Therefore one of the  *)
(* producers, chosen at the start, moves, the other two beside reviewers.  *)
(***************************************************************************)
EXTENDS SessionLife, Scaffold

VARIABLE producer   \* "session", "scaffold" or "others"

WorkflowInit == Init /\ ScaffoldInit /\ producer \in {"session", "scaffold", "others"}

WorkflowNext ==
    \/ producer = "session" /\ SessionNext /\ UNCHANGED <<scaffoldVars, producer>>
    \/ producer = "others" /\ QueueNext /\ UNCHANGED <<scaffoldVars, producer>>
    \/ producer = "scaffold" /\ ScaffoldNext /\ UNCHANGED <<lifeVars, producer>>

WorkflowSpec == WorkflowInit /\ [][WorkflowNext]_<<vars, scaffoldVars, producer>>

\* No child before its parents: whatever of a scaffold fails, is retried, promoted
\* or raced, a filed artifact has all the earlier ones of its feature filed, and a
\* task file all of them, the blueprint it names among them (scaffoldNewFeature;
\* a session proposes in no order).
ParentsFirst == producer = "scaffold" => FiledInOrder

\* Types of both parts.
WorkflowTypeOK == TypeOK /\ ScaffoldTypeOK
=============================================================================
