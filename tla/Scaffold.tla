------------------------------ MODULE Scaffold ------------------------------
(***************************************************************************)
(* scaffoldNewFeature of src/scaffold/new-feature.ts: it proposes the      *)
(* artifacts of a feature to the inbound queue, the parents first, and, if *)
(* the repository tracks its own microtasks, writes a file for each, which *)
(* names the blueprint as its parent.  Every proposal and every file is an *)
(* await; a call that fails leaves what it did, a retry does it all again, *)
(* and reviewers are at work meanwhile.                                    *)
(***************************************************************************)
EXTENDS InboundQueue, Sequences

CONSTANTS
    Scaffolders,  \* callers
    Artifacts,    \* the ids of the feature: concept first, blueprint last
    MaxTasks      \* bound: microtasks of the feature

ASSUME ArtifactsAssumption ==
    /\ Artifacts \in Seq(Ids) /\ MaxTasks \in Nat
    /\ \A i, j \in 1 .. Len(Artifacts) : Artifacts[i] = Artifacts[j] => i = j

VARIABLES
    spc,        \* per caller: "idle", "proposing" or "tasks"
    at,         \* per caller: which of them comes next
    draft,      \* per caller: the bodies it was given
    taskFiles,  \* the numbers of the task files on disk
    thrown      \* history: ids of which a reviewer deleted a file

scaffoldVars == <<spc, at, draft, taskFiles, thrown>>

ScaffoldTypeOK ==
    /\ spc \in [Scaffolders -> {"idle", "proposing", "tasks"}]
    /\ at \in [Scaffolders -> 0 .. Len(Artifacts) + MaxTasks + 1]
    /\ draft \in [Scaffolders -> Bodies \union {Absent}]
    /\ taskFiles \subseteq 1 .. MaxTasks /\ thrown \subseteq Ids

ScaffoldInit ==
    /\ spc = [f \in Scaffolders |-> "idle"] /\ at = [f \in Scaffolders |-> 0]
    /\ draft = [f \in Scaffolders |-> Absent]
    /\ taskFiles = {} /\ thrown = {}

To(f, stage, n, body) ==
    /\ spc' = [spc EXCEPT ![f] = stage] /\ at' = [at EXCEPT ![f] = n]
    /\ draft' = [draft EXCEPT ![f] = body]

\* A call whose slug is valid; with another it throws before it did anything.
ScaffoldNewFeature(f, body) ==
    /\ spc[f] = "idle"
    /\ To(f, "proposing", 1, body)
    /\ UNCHANGED <<queueVars, taskFiles, thrown>>

ProposeArtifact(f) ==
    /\ spc[f] = "proposing" /\ at[f] <= Len(Artifacts)
    /\ Propose(Artifacts[at[f]], draft[f])
    /\ To(f, "proposing", at[f] + 1, draft[f])
    /\ UNCHANGED <<taskFiles, thrown>>

\* Mutant: the task files do not wait for the proposals.
BeginTasksEarly(f) ==
    /\ spc[f] = "proposing"
    /\ To(f, "tasks", 1, draft[f])
    /\ UNCHANGED <<queueVars, taskFiles, thrown>>

\* There are tasks, all with valid slugs, and the tracker is "local"; another
\* tracker is only named in the result, and a bad slug throws here, after the
\* proposals (EndScaffold).
BeginTasks(f) ==
    /\ spc[f] = "proposing" /\ at[f] > Len(Artifacts)
    /\ To(f, "tasks", 1, draft[f])
    /\ UNCHANGED <<queueVars, taskFiles, thrown>>

\* A file of the same number and slug is overwritten.
WriteTask(f) ==
    /\ spc[f] = "tasks" /\ at[f] <= MaxTasks
    /\ taskFiles' = taskFiles \union {at[f]}
    /\ To(f, "tasks", at[f] + 1, draft[f])
    /\ UNCHANGED <<queueVars, thrown>>

\* The call returns, throws or dies.
EndScaffold(f) ==
    /\ spc[f] # "idle"
    /\ To(f, "idle", 0, Absent)
    /\ UNCHANGED <<queueVars, taskFiles, thrown>>

\* The reviewers' steps, with what they throw away.
ReviewBeside ==
    /\ OrderlyReview
    /\ thrown' = thrown \union {p.id : p \in {q \in inbound : Discard(q)}}
    /\ UNCHANGED <<spc, at, draft, taskFiles>>

ScaffoldNext ==
    \/ \E f \in Scaffolders :
         \/ \E body \in Bodies : ScaffoldNewFeature(f, body)
         \/ ProposeArtifact(f) \/ BeginTasks(f) \/ WriteTask(f) \/ EndScaffold(f)
    \/ ReviewBeside

ScaffoldSpec == QueueInit /\ ScaffoldInit /\ [][ScaffoldNext]_<<queueVars, scaffoldVars>>

-----------------------------------------------------------------------------
\* An id that is under review, has a file in gks/ (be it a torn one), or was
\* thrown away by hand.
Filed(id) == gks[id] # Absent \/ id \in thrown \/ \E p \in inbound : p.id = id

FiledInOrder ==
    /\ \A i, j \in 1 .. Len(Artifacts) : i < j /\ Filed(Artifacts[j]) => Filed(Artifacts[i])
    /\ taskFiles # {} => \A i \in 1 .. Len(Artifacts) : Filed(Artifacts[i])
=============================================================================
