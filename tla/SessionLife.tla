----------------------------- MODULE SessionLife -----------------------------
(***************************************************************************)
(* A session from startSession to endSession (src/memory/session.ts): the  *)
(* trace it appends to, the session.json that holds its status, and the    *)
(* consolidation (reflect in src/memory/api.ts) that turns the trace into  *)
(* one episodic file and any number of proposals for the inbound queue.    *)
(*                                                                         *)
(* endSession awaits between any two of: reading the trace, extracting,    *)
(* each proposal, looking for the episodic file, opening it, writing it,   *)
(* and writing session.json.  Nothing but the files outlives a call that   *)
(* throws or dies, and nothing stops two calls for one session.            *)
(*                                                                         *)
(* A trace is its length; what an extractor proposes for it is any set of  *)
(* ids (the extractor is a parameter, and the three gates drop some).      *)
(***************************************************************************)
EXTENDS InboundQueue

CONSTANTS
    Sessions,
    Enders,       \* callers of endSession
    MaxSteps,     \* bound: steps of a trace
    MinMessages   \* minMessages of shouldConsolidate

ASSUME LifeAssumption == MaxSteps \in Nat /\ MinMessages \in Nat
ASSUME BodiesAssumption == Sessions \X (0 .. MaxSteps) \subseteq Bodies
ASSUME AbsentLife == {Absent, Torn} \intersect (Sessions \union (0 .. MaxSteps)) = {}

VARIABLES
    trace,     \* per session: the steps of its .trace.jsonl
    meta,      \* per session: session.json
    episode,   \* per session: the steps its episodic file covers, Absent or Torn
    epc,       \* per ender: where its endSession awaits
    session,   \* per ender: the session it ends
    seen,      \* per ender: the steps it read
    queue,     \* per ender: ids still to be proposed
    ran,       \* per ender: runConsolidation
    damaged    \* history: sessions whose episode an end emptied and never wrote

lifeVars == <<trace, meta, episode, epc, session, seen, queue, ran, damaged>>
vars == <<queueVars, lifeVars>>

Covered == (0 .. MaxSteps) \union {Absent, Torn}
Whole(s) == episode[s] \in 0 .. MaxSteps
Meta == [status : {"none", "active", "ended"}, consolidated : BOOLEAN, episodic_path : BOOLEAN]
Stages == {"idle", "extracting", "previewing", "proposing", "checking", "opening", "misled",
           "writing", "rewriting", "closing", "naming"}

TypeOK ==
    /\ QueueTypeOK
    /\ trace \in [Sessions -> 0 .. MaxSteps]
    /\ meta \in [Sessions -> Meta]
    /\ episode \in [Sessions -> Covered]
    /\ epc \in [Enders -> Stages]
    /\ session \in [Enders -> Sessions \union {Absent}]
    /\ \A e \in Enders : epc[e] # "idle" => session[e] \in Sessions
    /\ seen \in [Enders -> 0 .. MaxSteps]
    /\ queue \in [Enders -> SUBSET Ids]
    /\ ran \in [Enders -> BOOLEAN]
    /\ damaged \subseteq Sessions

Init ==
    /\ QueueInit
    /\ trace = [s \in Sessions |-> 0]
    /\ meta = [s \in Sessions |->
                  [status |-> "none", consolidated |-> FALSE, episodic_path |-> FALSE]]
    /\ episode = [s \in Sessions |-> Absent]
    /\ epc = [e \in Enders |-> "idle"]
    /\ session = [e \in Enders |-> Absent]
    /\ seen = [e \in Enders |-> 0]
    /\ queue = [e \in Enders |-> {}]
    /\ ran = [e \in Enders |-> FALSE]
    /\ damaged = {}

Stage(e, stage) == epc' = [epc EXCEPT ![e] = stage]

-----------------------------------------------------------------------------
(* The session while it lasts                                              *)

\* startSession writes session.json, over whatever an explicit id had there.
StartSession(s) ==
    /\ meta' = [meta EXCEPT ![s] =
                   [status |-> "active", consolidated |-> FALSE, episodic_path |-> FALSE]]
    /\ UNCHANGED <<queueVars, trace, episode, epc, session, seen, queue, ran, damaged>>

\* appendTrace looks at no status: steps arrive before, during and after the end.
AppendTrace(s) ==
    /\ trace[s] < MaxSteps
    /\ trace' = [trace EXCEPT ![s] = @ + 1]
    /\ UNCHANGED <<queueVars, meta, episode, epc, session, seen, queue, ran, damaged>>

\* Any other code that proposes (retain, the MCP tool, the scaffold).
ProposeDirectly(id, body) ==
    /\ Propose(id, body)
    /\ UNCHANGED lifeVars

-----------------------------------------------------------------------------
(* endSession                                                              *)

\* shouldConsolidate, on the messages read and the session's duration.
Triggered(messages, long) == messages >= MinMessages /\ long

\* Reads the trace and decides whether to consolidate, for a preview
\* (persist: false) or in earnest.
EndSession(e, s, force, long, persist) ==
    /\ epc[e] = "idle"
    /\ meta[s].status # "none"
    /\ session' = [session EXCEPT ![e] = s]
    /\ seen' = [seen EXCEPT ![e] = trace[s]]
    /\ ran' = [ran EXCEPT ![e] = force \/ Triggered(trace[s], long)]
    /\ Stage(e, IF ~ran'[e] THEN "closing" ELSE IF persist THEN "extracting" ELSE "previewing")
    /\ UNCHANGED <<queueVars, trace, meta, episode, queue, damaged>>

\* reflect returns what it extracted and stores nothing.
Preview(e) ==
    /\ epc[e] = "previewing"
    /\ Stage(e, "closing")
    /\ UNCHANGED <<queueVars, trace, meta, episode, session, seen, queue, ran, damaged>>

\* consolidate returns the episode and the proposals that passed its gates.
Extract(e, ids) ==
    /\ epc[e] = "extracting"
    /\ queue' = [queue EXCEPT ![e] = ids]
    /\ Stage(e, "proposing")
    /\ UNCHANGED <<queueVars, trace, meta, episode, session, seen, ran, damaged>>

ProposeNext(e) ==
    /\ epc[e] = "proposing"
    /\ \E id \in queue[e] :
          /\ Propose(id, <<session[e], seen[e]>>)
          /\ queue' = [queue EXCEPT ![e] = @ \ {id}]
    /\ UNCHANGED <<trace, meta, episode, epc, session, seen, ran, damaged>>

AllProposed(e) ==
    /\ epc[e] = "proposing"
    /\ queue[e] = {}
    /\ Stage(e, "checking")
    /\ UNCHANGED <<queueVars, trace, meta, episode, session, seen, queue, ran, damaged>>

\* Mutant: the episodic file is written without a look.
CheckEpisodeNot(e) ==
    /\ epc[e] = "checking"
    /\ Stage(e, "opening")
    /\ UNCHANGED <<queueVars, trace, meta, episode, session, seen, queue, ran, damaged>>

\* writeEpisodic throws if the file exists, be it empty; reflect logs that and
\* goes on.
CheckEpisode(e) ==
    /\ epc[e] = "checking"
    /\ Stage(e, IF episode[session[e]] = Absent THEN "opening" ELSE "closing")
    /\ UNCHANGED <<queueVars, trace, meta, episode, session, seen, queue, ran, damaged>>

\* exists() answers no to any error of readFile, not only to a missing file.
CheckEpisodeMisled(e) ==
    /\ epc[e] = "checking"
    /\ episode[session[e]] # Absent
    /\ Stage(e, "misled")
    /\ UNCHANGED <<queueVars, trace, meta, episode, session, seen, queue, ran, damaged>>

\* writeFile opens the file, which creates or empties it.
OpenEpisode(e) ==
    /\ epc[e] \in {"opening", "misled"}
    /\ episode' = [episode EXCEPT ![session[e]] = Torn]
    /\ Stage(e, IF episode[session[e]] = Absent THEN "writing" ELSE "rewriting")
    /\ UNCHANGED <<queueVars, trace, meta, session, seen, queue, ran, damaged>>

\* It writes, and reflect returns the path.
WriteEpisode(e) ==
    /\ epc[e] \in {"writing", "rewriting"}
    /\ episode' = [episode EXCEPT ![session[e]] = seen[e]]
    /\ damaged' = damaged \ {session[e]}
    /\ Stage(e, "naming")
    /\ UNCHANGED <<queueVars, trace, meta, session, seen, queue, ran>>

\* The call is over before it has written the episode it emptied.
Damages(e) ==
    damaged' = IF epc[e] = "rewriting" THEN damaged \union {session[e]} ELSE damaged

\* Mutant: reflect names the file whether it was written or not.
WriteEpisodeFailsUnseen(e) ==
    /\ epc[e] \in {"checking", "opening", "misled", "writing", "rewriting"}
    /\ Damages(e)
    /\ Stage(e, "naming")
    /\ UNCHANGED <<queueVars, trace, meta, episode, session, seen, queue, ran>>

\* mkdir, the opening or the writing fails: reflect takes that for a file that
\* exists and goes on.
WriteEpisodeFails(e) ==
    /\ epc[e] \in {"checking", "opening", "misled", "writing", "rewriting"}
    /\ Damages(e)
    /\ Stage(e, "closing")
    /\ UNCHANGED <<queueVars, trace, meta, episode, session, seen, queue, ran>>

Leave(e) ==
    /\ Stage(e, "idle")
    /\ session' = [session EXCEPT ![e] = Absent]
    /\ seen' = [seen EXCEPT ![e] = 0]
    /\ queue' = [queue EXCEPT ![e] = {}]
    /\ ran' = [ran EXCEPT ![e] = FALSE]
    /\ UNCHANGED <<queueVars, trace, episode>>

\* session.json is rewritten, and endSession returns: it says consolidated of
\* whatever ran, and names the episode if this call wrote it.
Close(e) ==
    /\ epc[e] \in {"closing", "naming"}
    /\ meta' = [meta EXCEPT ![session[e]] =
                   [status |-> "ended", consolidated |-> ran[e],
                    episodic_path |-> epc[e] = "naming"]]
    /\ Leave(e)
    /\ UNCHANGED damaged

\* endSession throws (trace, extractor, propose, session.json) or dies.
Abort(e) ==
    /\ epc[e] # "idle"
    /\ Damages(e)
    /\ Leave(e)
    /\ UNCHANGED meta

EndStep(e) ==
    \/ \E ids \in SUBSET Ids : Extract(e, ids)
    \/ Preview(e) \/ ProposeNext(e) \/ AllProposed(e)
    \/ CheckEpisode(e) \/ CheckEpisodeMisled(e) \/ OpenEpisode(e)
    \/ WriteEpisode(e) \/ WriteEpisodeFails(e)
    \/ Close(e) \/ Abort(e)

Activity ==
    \/ \E s \in Sessions : StartSession(s) \/ AppendTrace(s)
    \/ \E e \in Enders : EndStep(e)

Next ==
    \/ Activity
    \/ \E e \in Enders, s \in Sessions, force, long, persist \in BOOLEAN :
          EndSession(e, s, force, long, persist)
    \/ \E id \in Ids, body \in Bodies : ProposeDirectly(id, body)
    \/ Review /\ UNCHANGED lifeVars

Spec == Init /\ [][Next]_vars

\* The discipline the code leaves to its callers: one endSession at a time for
\* a session, and an orderly review.
Ending(s) == {e \in Enders : epc[e] # "idle" /\ session[e] = s}

SessionNext ==
    \/ Activity
    \/ \E e \in Enders, s \in Sessions, force, long, persist \in BOOLEAN :
          Ending(s) = {} /\ EndSession(e, s, force, long, persist)

QueueNext ==
    \/ \E id \in Ids, body \in Bodies : ProposeDirectly(id, body)
    \/ OrderlyReview /\ UNCHANGED lifeVars

OrderlyNext == SessionNext \/ QueueNext

OrderlySpec == Init /\ [][OrderlyNext]_vars

-----------------------------------------------------------------------------
(* Properties                                                              *)

\* episodic.ts:66, "no silent overwrite": an episode, once written, is opened
\* again only by an end that could not read it; not by a retry after a crash, a
\* second end or a reopened session.
EpisodeIsFinal ==
    [][\A s \in Sessions :
          \/ ~Whole(s)
          \/ episode'[s] = episode[s]
          \/ \E e \in Enders : session[e] = s /\ epc[e] = "misled" /\ OpenEpisode(e)]_vars

\* The episode that a session.json names is there and whole, whatever of later
\* ends was previewed, refused, failed or died; unless one of them could not read
\* it, emptied it and never wrote it.  (`consolidated` promises no such thing.)
NamedEpisodeIsWhole ==
    \A s \in Sessions : meta[s].episodic_path =>
        \/ Whole(s)
        \/ s \in damaged
        \/ \E e \in Enders : session[e] = s /\ epc[e] = "rewriting"
=============================================================================
