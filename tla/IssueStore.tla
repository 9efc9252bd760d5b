----------------------------- MODULE IssueStore -----------------------------
(***************************************************************************)
(* The file-backed stores of src/issue/store.ts and src/hotfix/store.ts:   *)
(* one Markdown file per issue or hotfix, no queue in between.  Each call  *)
(* reads the file, changes what it read and writes it back with writeFile, *)
(* which empties the file first.  Calls may be of one process or several,  *)
(* and a crash may fall between any two steps.                             *)
(*                                                                         *)
(* Of a file's text there are the status, whether it has a closed_at, and  *)
(* the calls whose entries its body or front matter holds; rev counts the  *)
(* writes to a file and stands for its text.                               *)
(***************************************************************************)
EXTENDS Naturals

CONSTANTS
    Ops,        \* bound: calls
    OpKind, OpId, \* per call: the method, and the id (a create's slug) it is for
    OpStatus,   \* per call of setStatus: the new status
    Ids,        \* ids of issues and hotfixes
    IssueIds,
    MaxCrashes, \* bound
    NoFile

Kinds == {"create", "comment", "setStatus", "assign", "close", "open", "resolve"}
Statuses == {"open", "in_progress", "wontfix", "closed", "stable"}

ASSUME OpsAssumption ==
    /\ OpKind \in [Ops -> Kinds] /\ OpId \in [Ops -> Ids] /\ IssueIds \subseteq Ids
    /\ OpStatus \in [Ops -> Statuses] /\ MaxCrashes \in Nat

\* The prefix of an id tells issues and hotfixes apart.
ASSUME OpIdAssumption ==
    \A o \in Ops : OpKind[o] = "open" => OpId[o] \notin IssueIds

Text == [torn : BOOLEAN, status : Statuses, closed_at : BOOLEAN,
         did : SUBSET Ops, rev : Nat]

ASSUME NoFileAssumption == NoFile \notin Text

VARIABLES
    file,       \* per id: its file
    ipc,        \* per call: "idle", "write", "emptied", "done" or "ended"
    target,     \* per call: the id it writes
    writes,     \* per call: the text it is about to write
    in_turn,    \* discipline: calls on issues and hotfixes do not overlap
    crashes,
    cut         \* history: ids whose file a crash left half-written

issueVars == <<file, ipc, target, writes, in_turn, crashes, cut>>

NoText == [torn |-> FALSE, status |-> "open", closed_at |-> FALSE, did |-> {}, rev |-> 0]

IssueTypeOK ==
    /\ file \in [Ids -> Text \union {NoFile}]
    /\ ipc \in [Ops -> {"idle", "write", "emptied", "done", "ended"}]
    /\ target \in [Ops -> Ids] /\ writes \in [Ops -> Text]
    /\ in_turn \in BOOLEAN /\ crashes \in 0 .. MaxCrashes /\ cut \subseteq Ids

IssueInit ==
    /\ file = [i \in Ids |-> NoFile]
    /\ ipc = [o \in Ops |-> "idle"] /\ target = OpId
    /\ writes = [o \in Ops |-> NoText]
    /\ in_turn \in BOOLEAN /\ crashes = 0 /\ cut = {}

-----------------------------------------------------------------------------
Busy == {o \in Ops : ipc[o] \in {"write", "emptied"}}
MayBegin(o) == ipc[o] = "idle" /\ (in_turn => Busy = {})

Exists(i) == file[i] # NoFile
Readable(i) == Exists(i) /\ ~ file[i].torn   \* front matter that parses

Closing(s) == s \in {"closed", "wontfix"}

\* The text after setStatus.  Reopening keeps closed_at.
SetStatus(o, t) ==
    [t EXCEPT !.status = OpStatus[o], !.closed_at = @ \/ Closing(OpStatus[o]),
              !.did = @ \union {o}]

Append1(o, t) == [t EXCEPT !.did = @ \union {o}]   \* comment, assign
Close(o, t) == [t EXCEPT !.status = "closed", !.closed_at = TRUE, !.did = @ \union {o}]
Resolve(o, t) == [t EXCEPT !.closed_at = TRUE, !.did = @ \union {o}]

Changed(o, t) ==
    CASE OpKind[o] = "setStatus" -> SetStatus(o, t)
      [] OpKind[o] \in {"comment", "assign"} -> Append1(o, t)
      [] OpKind[o] = "close" -> Close(o, t)
      [] OpKind[o] = "resolve" -> Resolve(o, t)

\* About to write t as the file of i.
GoWrite(o, i, t) ==
    /\ writes' = [writes EXCEPT ![o] = t] /\ target' = [target EXCEPT ![o] = i]
    /\ ipc' = [ipc EXCEPT ![o] = "write"]
    /\ UNCHANGED <<file, in_turn, crashes, cut>>

End(o, how) ==
    /\ ipc' = [ipc EXCEPT ![o] = how]
    /\ UNCHANGED <<file, target, writes, in_turn, crashes, cut>>

\* Mutant: the name is not looked up first.
CreateUnchecked(o) ==
    /\ OpKind[o] = "create" /\ MayBegin(o)
    /\ GoWrite(o, OpId[o], [NoText EXCEPT !.did = {o}])

\* create: a file of that name, readable or not, makes it take a random
\* suffix, which is taken to be new.
Create(o) ==
    /\ OpKind[o] = "create" /\ MayBegin(o)
    /\ \E i \in IssueIds :
         /\ IF Exists(OpId[o]) THEN i # OpId[o] /\ ~ Exists(i) ELSE i = OpId[o]
         /\ GoWrite(o, i, [NoText EXCEPT !.did = {o}])

\* HotfixStore.open writes whatever is there, under the same seven digits.
Open(o) ==
    /\ OpKind[o] = "open" /\ MayBegin(o)
    /\ GoWrite(o, OpId[o], [NoText EXCEPT !.status = "stable", !.did = {o}])

\* The other calls start from the file; a missing or broken one makes them throw,
\* and a status it already has is no change.
Update(o) ==
    /\ OpKind[o] \notin {"create", "open"} /\ MayBegin(o)
    /\ LET i == OpId[o]
       IN  CASE ~ Readable(i) -> End(o, "ended")
             [] Readable(i) /\ OpKind[o] = "setStatus" /\ file[i].status = OpStatus[o]
                  -> End(o, "ended")
             [] OTHER -> GoWrite(o, i, Changed(o, file[i]))

Rev(i) == IF Exists(i) THEN file[i].rev ELSE 0

\* writeFile empties the file, and then fills it.  The audit line that follows
\* is best effort.
Empty(o) ==
    /\ ipc[o] = "write"
    /\ file' = [file EXCEPT ![target[o]] =
                    [NoText EXCEPT !.torn = TRUE, !.rev = Rev(target[o]) + 1]]
    /\ ipc' = [ipc EXCEPT ![o] = "emptied"]
    /\ UNCHANGED <<target, writes, in_turn, crashes, cut>>

Fill(o) ==
    /\ ipc[o] = "emptied"
    /\ file' = [file EXCEPT ![target[o]] =
                    [writes[o] EXCEPT !.torn = FALSE, !.rev = Rev(target[o])]]
    /\ ipc' = [ipc EXCEPT ![o] = "done"]
    /\ writes' = [writes EXCEPT ![o] = NoText]
    /\ UNCHANGED <<target, in_turn, crashes, cut>>

\* Every call in progress ends with its process.
Crash ==
    /\ crashes < MaxCrashes /\ crashes' = crashes + 1 /\ Busy # {}
    /\ cut' = cut \union {target[o] : o \in {p \in Ops : ipc[p] = "emptied"}}
    /\ ipc' = [o \in Ops |-> IF o \in Busy THEN "ended" ELSE ipc[o]]
    /\ writes' = [o \in Ops |-> NoText]
    /\ UNCHANGED <<file, target, in_turn>>

\* A step of the calls in S.
IssueStep(S) ==
    \/ \E o \in S : Create(o) \/ Open(o) \/ Update(o) \/ Empty(o) \/ Fill(o)
    \/ Crash

IssueNext == IssueStep(Ops)

IssueSpec == IssueInit /\ [][IssueNext]_issueVars

-----------------------------------------------------------------------------
\* What calls on issues were told is done is in the file; while they do not
\* overlap, only a crash in the middle of a write loses it, not a creation under
\* the same title, and no change.  (The header says "a tiny transaction" of each
\* call and "atomic write": overlapping ones lose updates all the same.)
InTurnNothingIsLost ==
    in_turn /\ Busy = {} => \A o \in Ops :
        ipc[o] = "done" /\ target[o] \in IssueIds =>
            o \in file[target[o]].did \/ target[o] \in cut
=============================================================================
