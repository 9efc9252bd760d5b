---------------------------- MODULE InboundQueue ----------------------------
(***************************************************************************)
(* The review queue of src/memory/inbound.ts.  propose() drops a file per  *)
(* proposal into the inbound directory; promote() moves the proposal of an *)
(* id to its canonical place under gks/ in five awaited steps: read, check *)
(* the destination, open it (which empties it), write it, remove the       *)
(* source.  Several reviewers may promote at once, each in a process of    *)
(* its own, and die between steps.                                         *)
(*                                                                         *)
(* An id stands for its whole destination gks/<type>/<id>.md, a body for   *)
(* what promote() preserves of the file.                                   *)
(***************************************************************************)
EXTENDS Naturals, FiniteSets

CONSTANTS
    Promoters,
    Ids,       \* proposed_id
    Reviews,   \* bound: review ids, which make file names unique
    Bodies,
    Absent,    \* no file; null
    Torn       \* a file that is empty, or mixed of two texts

Proposal == [id : Ids, review : Reviews, body : Bodies]

ASSUME AbsentAssumption ==
    Absent \notin Bodies /\ Absent \notin Proposal /\ Torn \notin Bodies /\ Torn # Absent

VARIABLES
    inbound,    \* the files of the inbound directory
    gks,        \* per id: the body at its canonical place, Absent or Torn
    ppc,        \* per promoter: where its promote awaits
    candidate,  \* per promoter: the file it promotes
    forced,     \* per promoter: opts.force
    approved,   \* history, per id: what left the queue for gks/ last, or Absent
    torn        \* history: ids whose file a promoter emptied and never wrote

queueVars == <<inbound, gks, ppc, candidate, forced, approved, torn>>
Promotion == {"idle", "read", "checked", "writing", "rewriting", "removing"}

QueueTypeOK ==
    /\ inbound \in SUBSET Proposal
    /\ gks \in [Ids -> Bodies \union {Absent, Torn}]
    /\ ppc \in [Promoters -> Promotion]
    /\ candidate \in [Promoters -> Proposal \union {Absent}]
    /\ \A q \in Promoters : ppc[q] # "idle" => candidate[q] \in Proposal
    /\ forced \in [Promoters -> BOOLEAN]
    /\ approved \in [Ids -> Bodies \union {Absent}]
    /\ torn \subseteq Ids

QueueInit ==
    /\ inbound = {}
    /\ gks = [id \in Ids |-> Absent]
    /\ ppc = [q \in Promoters |-> "idle"]
    /\ candidate = [q \in Promoters |-> Absent]
    /\ forced = [q \in Promoters |-> FALSE]
    /\ approved = [id \in Ids |-> Absent]
    /\ torn = {}

InFlight(id) == {q \in Promoters : ppc[q] # "idle" /\ candidate[q].id = id}

\* propose: a file of its own, under a name nobody has used.
Propose(id, body) ==
    /\ \E review \in Reviews :
          /\ \A f \in inbound : f.review # review
          /\ \A q \in Promoters : ppc[q] # "idle" => candidate[q].review # review
          /\ inbound' = inbound \union {[id |-> id, review |-> review, body |-> body]}
    /\ UNCHANGED <<gks, ppc, candidate, forced, approved, torn>>

\* Mutant: of several candidates the first is taken.
ReadCandidateFirst(q, id, force) ==
    /\ ppc[q] = "idle"
    /\ \E f \in inbound : f.id = id /\ candidate' = [candidate EXCEPT ![q] = f]
    /\ ppc' = [ppc EXCEPT ![q] = "read"]
    /\ forced' = [forced EXCEPT ![q] = force]
    /\ UNCHANGED <<inbound, gks, approved, torn>>

\* readById: promote throws unless exactly one file has the id.
ReadCandidate(q, id, force) ==
    /\ ppc[q] = "idle"
    /\ \E f \in inbound :
          /\ {g \in inbound : g.id = id} = {f}
          /\ candidate' = [candidate EXCEPT ![q] = f]
    /\ ppc' = [ppc EXCEPT ![q] = "read"]
    /\ forced' = [forced EXCEPT ![q] = force]
    /\ UNCHANGED <<inbound, gks, approved, torn>>

\* promote returns, throws or dies: only the files remain.
Done(q) ==
    /\ ppc' = [ppc EXCEPT ![q] = "idle"]
    /\ candidate' = [candidate EXCEPT ![q] = Absent]
    /\ forced' = [forced EXCEPT ![q] = FALSE]

\* Mutant: the destination is written whether it exists or not.
CheckDestAlways(q) ==
    /\ ppc[q] = "read"
    /\ ppc' = [ppc EXCEPT ![q] = "checked"]
    /\ UNCHANGED <<inbound, gks, candidate, forced, approved, torn>>

\* An existing destination, empty or not, is refused unless forced.
CheckDest(q) ==
    /\ ppc[q] = "read"
    /\ gks[candidate[q].id] = Absent \/ forced[q]
    /\ ppc' = [ppc EXCEPT ![q] = "checked"]
    /\ UNCHANGED <<inbound, gks, candidate, forced, approved, torn>>

\* writeFile opens the destination, which creates or empties it.
OpenDest(q) ==
    /\ ppc[q] = "checked"
    /\ LET id == candidate[q].id IN
         /\ gks' = [gks EXCEPT ![id] = Torn]
         /\ ppc' = [ppc EXCEPT ![q] = IF gks[id] = Absent THEN "writing" ELSE "rewriting"]
         /\ approved' = [approved EXCEPT ![id] = IF forced[q] THEN Absent ELSE @]
    /\ UNCHANGED <<inbound, candidate, forced, torn>>

\* It writes; over another promoter's text, the longer of the two shows.
WriteDest(q) ==
    /\ ppc[q] \in {"writing", "rewriting"}
    /\ LET id == candidate[q].id
           body == candidate[q].body
       IN  /\ \E text \in {body} \union {t \in {Torn} : gks[id] \notin {Torn, body}} :
                 gks' = [gks EXCEPT ![id] = text]
           /\ torn' = torn \ {id}
    /\ ppc' = [ppc EXCEPT ![q] = "removing"]
    /\ UNCHANGED <<inbound, candidate, forced, approved>>

\* Mutant: the source goes before the destination is written.
RemoveSourceEarly(q) ==
    /\ ppc[q] \in {"writing", "rewriting", "removing"}
    /\ inbound' = inbound \ {candidate[q]}
    /\ approved' = IF candidate[q] \in inbound
                   THEN [approved EXCEPT ![candidate[q].id] = candidate[q].body]
                   ELSE approved
    /\ Done(q)
    /\ UNCHANGED <<gks, torn>>

\* rm throws if another promoter was faster; promote is over either way.
RemoveSource(q) ==
    /\ ppc[q] = "removing"
    /\ inbound' = inbound \ {candidate[q]}
    /\ approved' = IF candidate[q] \in inbound
                   THEN [approved EXCEPT ![candidate[q].id] = candidate[q].body]
                   ELSE approved
    /\ Done(q)
    /\ UNCHANGED <<gks, torn>>

\* promote refuses (CheckDest), a file operation throws, or the process dies.
Abandon(q) ==
    /\ ppc[q] # "idle"
    /\ torn' = IF ppc[q] = "rewriting" THEN torn \union {candidate[q].id} ELSE torn
    /\ Done(q)
    /\ UNCHANGED <<inbound, gks, approved>>

\* A reviewer deletes a file by hand, as readById asks for with duplicates.
Discard(f) ==
    /\ f \in inbound
    /\ inbound' = inbound \ {f}
    /\ UNCHANGED <<gks, ppc, candidate, forced, approved, torn>>

Promote(q) ==
    CheckDest(q) \/ OpenDest(q) \/ WriteDest(q) \/ RemoveSource(q) \/ Abandon(q)

Review ==
    \/ \E q \in Promoters, id \in Ids, force \in BOOLEAN : ReadCandidate(q, id, force)
    \/ \E q \in Promoters : Promote(q)
    \/ \E f \in inbound : Discard(f)

\* The discipline that makes promotion safe: ordinary promotions of an id may
\* race, but a forced one and a deletion by hand need the id for themselves.
OrderlyReview ==
    \/ \E q \in Promoters, id \in Ids, force \in BOOLEAN :
          /\ \A r \in InFlight(id) : ~forced[r] /\ ~force
          /\ ReadCandidate(q, id, force)
    \/ \E q \in Promoters : Promote(q)
    \/ \E f \in inbound : InFlight(f.id) = {} /\ Discard(f)

-----------------------------------------------------------------------------
(* Properties                                                              *)

\* inbound.ts:135, an existing gks/ file is refused unless forced.  The look and
\* the write are two awaits, so racing promoters do open a finished file again;
\* but what they then write is the very text it held: nothing else ever takes
\* the place of an approved text, unless it is forced.
ApprovedIsFinal ==
    [][\A id \in Ids :
          \/ gks[id] \notin Bodies
          \/ gks'[id] = gks[id]
          \/ \E q \in Promoters :
                /\ OpenDest(q) /\ candidate[q].id = id
                /\ forced[q] \/ candidate[q].body = gks[id]]_queueVars

\* The text is in gks/, or is just being written there again by a racer, or a
\* promoter emptied the finished file and died.
Kept(id, body) ==
    \/ gks[id] = body
    \/ id \in torn
    \/ \E q \in Promoters :
          ppc[q] = "rewriting" /\ candidate[q].id = id /\ candidate[q].body = body

\* What a promotion takes from the queue is kept.  Races, refusals and deaths at
\* any await lose it in one way only (`torn`): a second promoter, past its check
\* before the first one wrote, empties the finished file and dies.
NoProposalLost == \A id \in Ids : approved[id] # Absent => Kept(id, approved[id])
=============================================================================
