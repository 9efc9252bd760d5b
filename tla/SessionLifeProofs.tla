-------------------------- MODULE SessionLifeProofs --------------------------
(***************************************************************************)
(* Proofs about SessionLife and the InboundQueue it contains: the queue's  *)
(* promises under an orderly review, those of episodes when a session is   *)
(* ended by one caller at a time, and the order in which a scaffold files  *)
(* its artifacts.  A workflow with any producer is an orderly use of the   *)
(* queue, so all of it holds there too.                                    *)
(***************************************************************************)
EXTENDS Workflow, TLAPS

-----------------------------------------------------------------------------
(* The queue by itself                                                     *)

\* What the queue sees of any step: a review step or a proposal.
QueueStep == OrderlyReview \/ \E id \in Ids, body \in Bodies : Propose(id, body)

\* Type correctness of the queue, for any review.
LEMMA QueueType ==
    ASSUME QueueTypeOK,
           Review \/ \E id \in Ids, body \in Bodies : Propose(id, body)
    PROVE  QueueTypeOK'
<1>1. CASE \E id \in Ids, body \in Bodies : Propose(id, body)
  <2>1. PICK id \in Ids, body \in Bodies, review \in Reviews :
            /\ inbound' = inbound \union {[id |-> id, review |-> review, body |-> body]}
            /\ UNCHANGED <<gks, ppc, candidate, forced, approved, torn>>
    BY <1>1 DEF Propose
  <2>2. [id |-> id, review |-> review, body |-> body] \in Proposal
    BY DEF Proposal
  <2> QED BY <2>1, <2>2 DEF QueueTypeOK
<1>2. CASE Review
  <2>1. ASSUME NEW q \in Promoters, NEW id \in Ids, NEW force \in BOOLEAN,
               ReadCandidate(q, id, force)
        PROVE  QueueTypeOK'
    <3>1. PICK f \in inbound : candidate' = [candidate EXCEPT ![q] = f]
      BY <2>1 DEF ReadCandidate
    <3> QED BY <2>1, <3>1 DEF ReadCandidate, QueueTypeOK, Promotion
  <2>2. ASSUME NEW q \in Promoters, CheckDest(q) PROVE QueueTypeOK'
    BY <2>2 DEF CheckDest, QueueTypeOK, Promotion
  <2>3. ASSUME NEW q \in Promoters, ppc[q] # "idle"
        PROVE  candidate[q] \in Proposal /\ candidate[q].id \in Ids /\ candidate[q].body \in Bodies
    BY <2>3 DEF QueueTypeOK, Proposal
  <2>4. ASSUME NEW q \in Promoters, OpenDest(q) PROVE QueueTypeOK'
    BY <2>3, <2>4 DEF OpenDest, QueueTypeOK, Promotion
  <2>5. ASSUME NEW q \in Promoters, WriteDest(q) PROVE QueueTypeOK'
    <3>1. PICK text \in {candidate[q].body, Torn} :
              gks' = [gks EXCEPT ![candidate[q].id] = text]
      BY <2>5 DEF WriteDest
    <3>2. gks' \in [Ids -> Bodies \union {Absent, Torn}]
      BY <2>3, <2>5, <3>1 DEF WriteDest, QueueTypeOK
    <3> QED BY <2>5, <3>2 DEF WriteDest, QueueTypeOK, Promotion
  <2>6. ASSUME NEW q \in Promoters, RemoveSource(q) PROVE QueueTypeOK'
    <3>1. approved' \in [Ids -> Bodies \union {Absent}]
      BY <2>3, <2>6 DEF RemoveSource, QueueTypeOK
    <3> QED BY <2>6, <3>1 DEF RemoveSource, Done, QueueTypeOK, Promotion
  <2>7. ASSUME NEW q \in Promoters, Abandon(q) PROVE QueueTypeOK'
    <3>1. torn' \subseteq Ids
      BY <2>3, <2>7 DEF Abandon, QueueTypeOK
    <3> QED BY <2>7, <3>1 DEF Abandon, Done, QueueTypeOK, Promotion
  <2>8. ASSUME NEW f \in inbound, Discard(f) PROVE QueueTypeOK'
    BY <2>8 DEF Discard, QueueTypeOK
  <2> QED BY <1>2, <2>1, <2>2, <2>4, <2>5, <2>6, <2>7, <2>8 DEF Review, Promote
<1> QED BY <1>1, <1>2

\* An orderly review is a review.
LEMMA OrderlyIsReview == ASSUME OrderlyReview PROVE Review
BY DEF OrderlyReview, Review

Flying(q) == ppc[q] # "idle"
PastCheck(q) == ppc[q] \in {"checked", "writing", "rewriting", "removing"}
Place(q) == gks[candidate[q].id]
SameId(q, r) == Flying(q) /\ Flying(r) /\ candidate[q].id = candidate[r].id

\* A forced promotion has its id to itself.
ForcedAlone ==
    \A q, r \in Promoters : SameId(q, r) /\ forced[q] => q = r

\* While nothing is at the destination, what promoters of an id hold is one
\* file, and it is still in the queue.
OneCandidate ==
    \A q, r \in Promoters :
        SameId(q, r) /\ Place(q) = Absent => candidate[q] = candidate[r] /\ candidate[q] \in inbound

\* Promoters of an id that are past their check hold one file.
OneText ==
    \A q, r \in Promoters :
        SameId(q, r) /\ PastCheck(q) /\ PastCheck(r) => candidate[q] = candidate[r]

\* Past its check an unforced promoter finds at the destination nothing, a torn
\* file or what it is about to write itself; past its opening, no nothing.
OwnOrNothing ==
    \A q \in Promoters :
        /\ ppc[q] = "checked" /\ ~forced[q] => Place(q) \in {Absent, Torn, candidate[q].body}
        /\ ppc[q] \in {"writing", "rewriting"} => Place(q) \in {Torn, candidate[q].body}
        /\ ppc[q] = "removing" => Place(q) # Absent

\* What a promoter has written is kept, and what left the queue.
WrittenIsKept ==
    \A q \in Promoters, id \in Ids, body \in Bodies :
        ppc[q] = "removing" /\ candidate[q].id = id /\ candidate[q].body = body => Kept(id, body)

ApprovedIsKept ==
    \A id \in Ids, body \in Bodies : approved[id] = body => Kept(id, body)

\* What is approved has a file, and whoever may still write there writes the same.
ApprovedText ==
    \A id \in Ids : approved[id] # Absent =>
        /\ gks[id] # Absent
        /\ \A q \in Promoters :
              PastCheck(q) /\ candidate[q].id = id =>
                  candidate[q].body = approved[id] \/ (ppc[q] = "checked" /\ forced[q])

QueueInv ==
    /\ ForcedAlone /\ OneCandidate /\ OneText /\ OwnOrNothing /\ ApprovedText
    /\ WrittenIsKept /\ ApprovedIsKept

\* The body of a file in flight is a text.
LEMMA BodyIsPresent ==
    ASSUME QueueTypeOK, NEW q \in Promoters, Flying(q)
    PROVE  /\ candidate[q] \in Proposal
           /\ candidate[q].id \in Ids
           /\ candidate[q].body \in Bodies
           /\ candidate[q].body # Absent /\ candidate[q].body # Torn
<1>1. candidate[q] \in Proposal
  BY DEF QueueTypeOK, Flying
<1> QED BY <1>1, AbsentAssumption DEF Proposal

\* An orderly read puts a promoter beside others that hold the same or wait for
\* their refusal.
LEMMA ReadStep ==
    ASSUME QueueTypeOK, QueueInv,
           NEW q \in Promoters, NEW id \in Ids, NEW force \in BOOLEAN,
           \A r \in InFlight(id) : ~forced[r] /\ ~force,
           ReadCandidate(q, id, force)
    PROVE  QueueInv'
<1>1. PICK f \in inbound : /\ {g \in inbound : g.id = id} = {f}
                           /\ candidate' = [candidate EXCEPT ![q] = f]
  BY DEF ReadCandidate
<1>2. f.id = id
  BY <1>1
<1>3. /\ ppc[q] = "idle" /\ ppc' = [ppc EXCEPT ![q] = "read"]
      /\ forced' = [forced EXCEPT ![q] = force]
      /\ UNCHANGED <<inbound, gks, approved, torn>>
  BY DEF ReadCandidate
<1>4. ASSUME NEW r \in Promoters, r # q
      PROVE  /\ ppc'[r] = ppc[r] /\ candidate'[r] = candidate[r] /\ forced'[r] = forced[r]
  BY <1>1, <1>3, <1>4 DEF QueueTypeOK
<1>5. ppc'[q] = "read" /\ candidate'[q] = f /\ forced'[q] = force
  BY <1>1, <1>3 DEF QueueTypeOK
<1>6. ASSUME NEW r \in Promoters, r # q, Flying(r), candidate[r].id = id
      PROVE  ~forced[r] /\ ~force
  BY <1>6 DEF InFlight, Flying
<1>7. \A r \in Promoters : PastCheck(r)' => r # q /\ PastCheck(r)
  BY <1>4, <1>5 DEF PastCheck
<1>8. ASSUME NEW i \in Ids, NEW b \in Bodies, Kept(i, b) PROVE Kept(i, b)'
  <2>1. ASSUME NEW r \in Promoters, ppc[r] = "rewriting"
        PROVE  ppc'[r] = "rewriting" /\ candidate'[r] = candidate[r]
    BY <2>1, <1>3, <1>4
  <2> QED BY <1>3, <1>8, <2>1 DEF Kept
<1>9. ForcedAlone'
  <2> SUFFICES ASSUME NEW r \in Promoters, NEW t \in Promoters,
                      SameId(r, t)', forced'[r]
               PROVE  r = t
    BY DEF ForcedAlone
  <2>1. CASE r # q /\ t # q
    BY <2>1, <1>4 DEF QueueInv, ForcedAlone, SameId, Flying
  <2>2. CASE r = q /\ t # q
    BY <2>2, <1>2, <1>4, <1>5, <1>6 DEF SameId, Flying
  <2>3. CASE r # q /\ t = q
    BY <2>3, <1>2, <1>4, <1>5, <1>6 DEF SameId, Flying
  <2> QED BY <2>1, <2>2, <2>3
<1>10. OneCandidate'
  <2>1. ASSUME NEW r \in Promoters, r # q, Flying(r), candidate[r].id = id, gks[id] = Absent
        PROVE  candidate[r] = f
    <3>1. candidate[r] \in inbound
      BY <2>1 DEF QueueInv, OneCandidate, SameId, Place
    <3> QED BY <2>1, <3>1, <1>1
  <2> SUFFICES ASSUME NEW r \in Promoters, NEW t \in Promoters,
                      SameId(r, t)', Place(r)' = Absent
               PROVE  candidate'[r] = candidate'[t] /\ candidate'[r] \in inbound'
    BY DEF OneCandidate
  <2>2. CASE r # q /\ t # q
    BY <2>2, <1>3, <1>4 DEF QueueInv, OneCandidate, SameId, Flying, Place
  <2>3. CASE r = q /\ t # q
    BY <2>1, <2>3, <1>2, <1>3, <1>4, <1>5 DEF SameId, Flying, Place
  <2>4. CASE r # q /\ t = q
    BY <2>1, <2>4, <1>2, <1>3, <1>4, <1>5 DEF SameId, Flying, Place
  <2>5. CASE r = q /\ t = q
    BY <2>5, <1>3, <1>5
  <2> QED BY <2>2, <2>3, <2>4, <2>5
<1>11. OneText'
  BY <1>4, <1>7 DEF QueueInv, OneText, SameId, Flying
<1>12. OwnOrNothing'
  <2> SUFFICES ASSUME NEW r \in Promoters, r # q
               PROVE  /\ ppc'[r] = "checked" /\ ~forced'[r] =>
                           Place(r)' \in {Absent, Torn, candidate'[r].body}
                      /\ ppc'[r] \in {"writing", "rewriting"} => Place(r)' \in {Torn, candidate'[r].body}
                      /\ ppc'[r] = "removing" => Place(r)' # Absent
    BY <1>4, <1>5 DEF OwnOrNothing
  <2> QED BY <1>3, <1>4 DEF QueueInv, OwnOrNothing, Place
<1>13. ApprovedText'
  BY <1>3, <1>4, <1>7 DEF QueueInv, ApprovedText
<1>14. WrittenIsKept' /\ ApprovedIsKept'
  BY <1>3, <1>4, <1>5, <1>8 DEF QueueInv, WrittenIsKept, ApprovedIsKept
<1> QED BY <1>9, <1>10, <1>11, <1>12, <1>13, <1>14 DEF QueueInv

\* A promoter that passes its check finds nothing, or has forced its way.
LEMMA CheckStep ==
    ASSUME QueueTypeOK, QueueInv, NEW q \in Promoters, CheckDest(q)
    PROVE  QueueInv'
<1>1. /\ ppc[q] = "read" /\ ppc' = [ppc EXCEPT ![q] = "checked"]
      /\ Place(q) = Absent \/ forced[q]
      /\ UNCHANGED <<inbound, gks, candidate, forced, approved, torn>>
  BY DEF CheckDest, Place
<1>2. /\ ppc'[q] = "checked" /\ \A r \in Promoters \ {q} : ppc'[r] = ppc[r]
      /\ Flying(q) /\ candidate[q].id \in Ids
  BY <1>1, BodyIsPresent DEF Flying, QueueTypeOK
<1>3. \A r \in Promoters : Flying(r)' <=> Flying(r)
  BY <1>1, <1>2 DEF Flying
<1>4. ForcedAlone' /\ OneCandidate'
  BY <1>1, <1>3 DEF QueueInv, ForcedAlone, OneCandidate, SameId, Place
<1>5. ASSUME NEW i \in Ids, NEW b \in Bodies, Kept(i, b) PROVE Kept(i, b)'
  <2>1. ASSUME NEW r \in Promoters, ppc[r] = "rewriting" PROVE ppc'[r] = "rewriting"
    BY <2>1, <1>1, <1>2
  <2> QED BY <1>1, <1>5, <2>1 DEF Kept
<1>6. OneText'
  <2> SUFFICES ASSUME NEW r \in Promoters, NEW t \in Promoters, SameId(r, t),
                      PastCheck(r)', PastCheck(t)'
               PROVE  candidate[r] = candidate[t]
    BY <1>1, <1>3 DEF OneText, SameId
  <2>1. CASE r # q /\ t # q
    BY <2>1, <1>2 DEF QueueInv, OneText, PastCheck
  <2>2. CASE (r = q \/ t = q) /\ Place(q) = Absent
    BY <2>2 DEF QueueInv, OneCandidate, SameId, Place
  <2>3. CASE (r = q \/ t = q) /\ forced[q]
    BY <2>3 DEF QueueInv, ForcedAlone, SameId
  <2> QED BY <1>1, <2>1, <2>2, <2>3
<1>7. OwnOrNothing'
  <2> SUFFICES ASSUME NEW r \in Promoters
               PROVE  /\ ppc'[r] = "checked" /\ ~forced[r] => Place(r) \in {Absent, Torn, candidate[r].body}
                      /\ ppc'[r] \in {"writing", "rewriting"} => Place(r) \in {Torn, candidate[r].body}
                      /\ ppc'[r] = "removing" => Place(r) # Absent
    BY <1>1 DEF OwnOrNothing, Place
  <2>1. CASE r = q
    BY <2>1, <1>1, <1>2
  <2>2. CASE r # q
    BY <2>2, <1>2 DEF QueueInv, OwnOrNothing
  <2> QED BY <2>1, <2>2
<1>8. ApprovedText'
  <2> SUFFICES ASSUME NEW id \in Ids, approved[id] # Absent
               PROVE  /\ gks[id] # Absent
                      /\ \A r \in Promoters :
                            PastCheck(r)' /\ candidate[r].id = id =>
                              candidate[r].body = approved[id] \/ (ppc'[r] = "checked" /\ forced[r])
    BY <1>1 DEF ApprovedText
  <2>1. gks[id] # Absent
    BY DEF QueueInv, ApprovedText
  <2>2. ASSUME NEW r \in Promoters, r # q, PastCheck(r)', candidate[r].id = id
        PROVE  candidate[r].body = approved[id] \/ (ppc'[r] = "checked" /\ forced[r])
    BY <2>2, <1>2 DEF QueueInv, ApprovedText, PastCheck
  <2>3. ASSUME candidate[q].id = id PROVE forced[q]
    BY <2>1, <2>3, <1>1 DEF Place
  <2> QED BY <2>1, <2>2, <2>3, <1>2
<1>9. WrittenIsKept' /\ ApprovedIsKept'
  BY <1>1, <1>2, <1>5 DEF QueueInv, WrittenIsKept, ApprovedIsKept
<1> QED BY <1>4, <1>6, <1>7, <1>8, <1>9 DEF QueueInv

\* Opening the destination empties a text that the same promoter now owes.
LEMMA OpenStep ==
    ASSUME QueueTypeOK, QueueInv, NEW q \in Promoters, OpenDest(q)
    PROVE  QueueInv'
<1> DEFINE id == candidate[q].id  body == candidate[q].body
<1>1. /\ ppc[q] = "checked"
      /\ ppc' = [ppc EXCEPT ![q] = IF gks[id] = Absent THEN "writing" ELSE "rewriting"]
      /\ gks' = [gks EXCEPT ![id] = Torn]
      /\ approved' = [approved EXCEPT ![id] = IF forced[q] THEN Absent ELSE @]
      /\ UNCHANGED <<inbound, candidate, forced, torn>>
  BY DEF OpenDest
<1>2. Flying(q) /\ PastCheck(q) /\ id \in Ids /\ body # Absent /\ body # Torn
  BY <1>1, BodyIsPresent DEF Flying, PastCheck
<1>3. /\ ppc'[q] = IF gks[id] = Absent THEN "writing" ELSE "rewriting"
      /\ \A r \in Promoters \ {q} : ppc'[r] = ppc[r]
      /\ \A i \in Ids : gks'[i] = IF i = id THEN Torn ELSE gks[i]
      /\ \A i \in Ids : approved'[i] = IF i = id /\ forced[q] THEN Absent ELSE approved[i]
  BY <1>1, <1>2 DEF QueueTypeOK
<1>4. \A r \in Promoters : /\ Flying(r)' <=> Flying(r)
                           /\ PastCheck(r)' <=> PastCheck(r)
  BY <1>1, <1>2, <1>3 DEF Flying, PastCheck
<1>5. ASSUME NEW r \in Promoters, Flying(r) PROVE candidate[r].id \in Ids
  BY <1>5, BodyIsPresent
<1>6. ForcedAlone' /\ OneText'
  BY <1>1, <1>4 DEF QueueInv, ForcedAlone, OneText, SameId
<1>7. OneCandidate'
  <2> SUFFICES ASSUME NEW r \in Promoters, NEW t \in Promoters,
                      SameId(r, t), Place(r)' = Absent
               PROVE  candidate[r] = candidate[t] /\ candidate[r] \in inbound
    BY <1>1, <1>4 DEF OneCandidate, SameId
  <2>1. candidate[r].id \in Ids
    BY <1>5 DEF SameId
  <2>2. Place(r) = Absent
    BY <2>1, <1>1, <1>3, AbsentAssumption DEF Place
  <2> QED BY <2>2 DEF QueueInv, OneCandidate
<1>8. ASSUME NEW i \in Ids, NEW b \in Bodies, Kept(i, b), i = id => gks[id] # Absent /\ body = b
      PROVE  Kept(i, b)'
  <2>1. CASE i = id
    BY <2>1, <1>1, <1>3, <1>8 DEF Kept
  <2>2. CASE i # id
    <3>1. ASSUME NEW r \in Promoters, ppc[r] = "rewriting" PROVE ppc'[r] = "rewriting"
      BY <3>1, <1>1, <1>3
    <3> QED BY <2>2, <3>1, <1>1, <1>3, <1>8 DEF Kept
  <2> QED BY <2>1, <2>2
<1>9. OwnOrNothing'
  <2> SUFFICES ASSUME NEW r \in Promoters, Flying(r)
               PROVE  /\ ppc'[r] = "checked" /\ ~forced[r] => Place(r)' \in {Absent, Torn, candidate[r].body}
                      /\ ppc'[r] \in {"writing", "rewriting"} => Place(r)' \in {Torn, candidate[r].body}
                      /\ ppc'[r] = "removing" => Place(r)' # Absent
    BY <1>1, <1>4 DEF OwnOrNothing, Flying
  <2>1. candidate[r].id \in Ids /\ Place(r)' = IF candidate[r].id = id THEN Torn ELSE Place(r)
    BY <1>1, <1>3, <1>5 DEF Place
  <2>2. CASE r = q
    BY <2>1, <2>2, <1>3
  <2>3. CASE r # q
    <3>1. ppc'[r] = ppc[r]
      BY <2>3, <1>3
    <3> QED BY <3>1, <2>1, AbsentAssumption DEF QueueInv, OwnOrNothing
  <2> QED BY <2>2, <2>3
<1>10. ApprovedText'
  <2> SUFFICES ASSUME NEW i \in Ids, approved'[i] # Absent
               PROVE  /\ gks'[i] # Absent
                      /\ \A r \in Promoters :
                            PastCheck(r) /\ candidate[r].id = i =>
                              candidate[r].body = approved'[i] \/ (ppc'[r] = "checked" /\ forced[r])
    BY <1>1, <1>4 DEF ApprovedText
  <2>1. approved'[i] = approved[i] /\ (i = id => ~forced[q])
    BY <1>3
  <2>2. gks'[i] # Absent
    BY <2>1, <1>3, AbsentAssumption DEF QueueInv, ApprovedText
  <2>3. ASSUME NEW r \in Promoters, PastCheck(r), candidate[r].id = i
        PROVE  candidate[r].body = approved[i] \/ (ppc'[r] = "checked" /\ forced[r])
    <3>1. candidate[r].body = approved[i] \/ (ppc[r] = "checked" /\ forced[r])
      BY <2>1, <2>3 DEF QueueInv, ApprovedText
    <3>2. CASE r = q
      BY <3>1, <3>2, <2>1, <2>3
    <3>3. CASE r # q
      BY <3>1, <3>3, <1>3
    <3> QED BY <3>2, <3>3
  <2> QED BY <2>1, <2>2, <2>3
<1>11. WrittenIsKept'
  <2> SUFFICES ASSUME NEW r \in Promoters, NEW i \in Ids, NEW b \in Bodies,
                      ppc'[r] = "removing", candidate[r].id = i, candidate[r].body = b
               PROVE  Kept(i, b)'
    BY <1>1 DEF WrittenIsKept
  <2>1. r # q /\ ppc[r] = "removing"
    BY <1>3
  <2>2. Kept(i, b) /\ Place(r) # Absent
    BY <2>1 DEF QueueInv, WrittenIsKept, OwnOrNothing
  <2>3. ASSUME i = id PROVE gks[id] # Absent /\ body = b
    BY <2>1, <2>2, <2>3, <1>2 DEF QueueInv, OneText, SameId, PastCheck, Flying, Place
  <2> QED BY <2>2, <2>3, <1>8
<1>12. ApprovedIsKept'
  <2> SUFFICES ASSUME NEW i \in Ids, NEW b \in Bodies, approved'[i] = b
               PROVE  Kept(i, b)'
    BY DEF ApprovedIsKept
  <2>1. approved[i] = b /\ approved[i] # Absent /\ (i = id => ~forced[q])
    BY <1>3, AbsentAssumption
  <2>2. Kept(i, b)
    BY <2>1 DEF QueueInv, ApprovedIsKept
  <2>3. ASSUME i = id PROVE gks[id] # Absent /\ body = b
    BY <2>1, <2>3, <1>2 DEF QueueInv, ApprovedText
  <2> QED BY <2>2, <2>3, <1>8
<1> QED BY <1>6, <1>7, <1>9, <1>10, <1>11, <1>12 DEF QueueInv

\* The write puts there what everybody past the check holds.
LEMMA WriteStep ==
    ASSUME QueueTypeOK, QueueInv, NEW q \in Promoters, WriteDest(q)
    PROVE  QueueInv'
<1> DEFINE id == candidate[q].id  body == candidate[q].body
<1>1. /\ ppc[q] \in {"writing", "rewriting"}
      /\ ppc' = [ppc EXCEPT ![q] = "removing"]
      /\ torn' = torn \ {id}
      /\ UNCHANGED <<inbound, candidate, forced, approved>>
  BY DEF WriteDest
<1>2. Flying(q) /\ PastCheck(q) /\ id \in Ids /\ body # Absent /\ body # Torn
  BY <1>1, BodyIsPresent DEF Flying, PastCheck
<1>3. gks' = [gks EXCEPT ![id] = body]
  <2>1. gks[id] \in {Torn, body}
    BY <1>1 DEF QueueInv, OwnOrNothing, Place
  <2> QED BY <2>1 DEF WriteDest
<1>4. /\ ppc'[q] = "removing" /\ \A r \in Promoters \ {q} : ppc'[r] = ppc[r]
      /\ \A i \in Ids : gks'[i] = IF i = id THEN body ELSE gks[i]
  BY <1>1, <1>2, <1>3 DEF QueueTypeOK
<1>5. \A r \in Promoters : /\ Flying(r)' <=> Flying(r)
                           /\ PastCheck(r)' <=> PastCheck(r)
  BY <1>1, <1>2, <1>4 DEF Flying, PastCheck
<1>6. ASSUME NEW r \in Promoters, Flying(r)
      PROVE  candidate[r].id \in Ids /\ Place(r)' = IF candidate[r].id = id THEN body ELSE Place(r)
  BY <1>1, <1>4, <1>6, BodyIsPresent DEF Place
<1>7. ForcedAlone' /\ OneText'
  BY <1>1, <1>5 DEF QueueInv, ForcedAlone, OneText, SameId
<1>8. OneCandidate'
  <2> SUFFICES ASSUME NEW r \in Promoters, NEW t \in Promoters,
                      SameId(r, t), Place(r)' = Absent
               PROVE  candidate[r] = candidate[t] /\ candidate[r] \in inbound
    BY <1>1, <1>5 DEF OneCandidate, SameId
  <2>1. Place(r) = Absent
    BY <1>2, <1>6 DEF SameId
  <2> QED BY <2>1 DEF QueueInv, OneCandidate
<1>9. ASSUME NEW i \in Ids, NEW b \in Bodies, Kept(i, b), i = id => body = b
      PROVE  Kept(i, b)'
  <2>1. CASE i = id
    BY <2>1, <1>4, <1>9 DEF Kept
  <2>2. CASE i # id
    <3>1. ASSUME NEW r \in Promoters, ppc[r] = "rewriting", candidate[r].id = i
          PROVE  ppc'[r] = "rewriting"
      BY <2>2, <3>1, <1>4
    <3> QED BY <2>2, <3>1, <1>1, <1>4, <1>9 DEF Kept
  <2> QED BY <2>1, <2>2
<1>10. ASSUME NEW r \in Promoters, PastCheck(r), candidate[r].id = id
       PROVE  candidate[r].body = body
  BY <1>2, <1>10 DEF QueueInv, OneText, SameId, PastCheck, Flying
<1>11. OwnOrNothing'
  <2> SUFFICES ASSUME NEW r \in Promoters, Flying(r)
               PROVE  /\ ppc'[r] = "checked" /\ ~forced[r] => Place(r)' \in {Absent, Torn, candidate[r].body}
                      /\ ppc'[r] \in {"writing", "rewriting"} => Place(r)' \in {Torn, candidate[r].body}
                      /\ ppc'[r] = "removing" => Place(r)' # Absent
    BY <1>1, <1>5 DEF OwnOrNothing, Flying
  <2>1. CASE candidate[r].id = id
    <3>1. ASSUME PastCheck(r) PROVE Place(r)' = candidate[r].body
      BY <2>1, <3>1, <1>6, <1>10
    <3>2. ppc'[r] \in {"checked", "writing", "rewriting", "removing"} => PastCheck(r)
      BY <1>5 DEF PastCheck
    <3>3. candidate[r].body # Absent
      BY BodyIsPresent
    <3> QED BY <3>1, <3>2, <3>3
  <2>2. CASE candidate[r].id # id
    <3>1. ppc'[r] = ppc[r] /\ Place(r)' = Place(r) /\ candidate[r].id \in Ids
      BY <2>2, <1>4, <1>6
    <3> QED BY <2>2, <3>1 DEF QueueInv, OwnOrNothing
  <2> QED BY <2>1, <2>2
<1>12. ApprovedText'
  <2> SUFFICES ASSUME NEW i \in Ids, approved[i] # Absent
               PROVE  /\ gks'[i] # Absent
                      /\ \A r \in Promoters :
                            PastCheck(r) /\ candidate[r].id = i =>
                              candidate[r].body = approved[i] \/ (ppc'[r] = "checked" /\ forced[r])
    BY <1>1, <1>5 DEF ApprovedText
  <2>1. gks'[i] # Absent
    BY <1>2, <1>4 DEF QueueInv, ApprovedText
  <2>2. ASSUME NEW r \in Promoters, PastCheck(r), candidate[r].id = i
        PROVE  candidate[r].body = approved[i] \/ (ppc'[r] = "checked" /\ forced[r])
    <3>1. candidate[r].body = approved[i] \/ (ppc[r] = "checked" /\ forced[r])
      BY <1>1, <2>2 DEF QueueInv, ApprovedText
    <3>2. CASE r = q
      BY <3>1, <3>2, <1>1
    <3>3. CASE r # q
      BY <3>1, <3>3, <1>4
    <3> QED BY <3>2, <3>3
  <2> QED BY <2>1, <2>2
<1>13. WrittenIsKept'
  <2> SUFFICES ASSUME NEW r \in Promoters, NEW i \in Ids, NEW b \in Bodies,
                      ppc'[r] = "removing", candidate[r].id = i, candidate[r].body = b
               PROVE  Kept(i, b)'
    BY <1>1 DEF WrittenIsKept
  <2>1. CASE i = id
    <3>1. PastCheck(r)
      BY <1>5 DEF PastCheck
    <3> QED BY <2>1, <3>1, <1>4, <1>10 DEF Kept
  <2>2. CASE i # id
    <3>1. ppc[r] = "removing"
      BY <2>2, <1>4
    <3> QED BY <2>2, <3>1, <1>9 DEF QueueInv, WrittenIsKept
  <2> QED BY <2>1, <2>2
<1>14. ApprovedIsKept'
  <2> SUFFICES ASSUME NEW i \in Ids, NEW b \in Bodies, approved[i] = b
               PROVE  Kept(i, b)'
    BY <1>1 DEF ApprovedIsKept
  <2>1. Kept(i, b)
    BY DEF QueueInv, ApprovedIsKept
  <2>2. ASSUME i = id PROVE body = b
    BY <2>2, <1>1, <1>2, AbsentAssumption DEF QueueInv, ApprovedText
  <2> QED BY <2>1, <2>2, <1>9
<1> QED BY <1>7, <1>8, <1>11, <1>12, <1>13, <1>14 DEF QueueInv

\* A promoter that is over took its own file at most, and leaves what it owed
\* to `torn`.
LEMMA OverStep ==
    ASSUME QueueTypeOK, QueueInv, NEW q \in Promoters, RemoveSource(q) \/ Abandon(q)
    PROVE  QueueInv'
<1> DEFINE id == candidate[q].id  body == candidate[q].body
<1>1. /\ Flying(q) /\ ppc' = [ppc EXCEPT ![q] = "idle"]
      /\ \A r \in Promoters \ {q} :
            ppc'[r] = ppc[r] /\ candidate'[r] = candidate[r] /\ forced'[r] = forced[r]
      /\ UNCHANGED gks
  BY DEF RemoveSource, Abandon, Done, QueueTypeOK, Flying
<1>2. /\ torn \subseteq torn' /\ (ppc[q] = "rewriting" => id \in torn')
      /\ inbound' = inbound \/ (ppc[q] = "removing" /\ inbound' = inbound \ {candidate[q]})
  BY DEF RemoveSource, Abandon
<1>3. id \in Ids /\ body # Absent
  BY <1>1, BodyIsPresent
<1>4. approved' = approved \/ (ppc[q] = "removing" /\ approved' = [approved EXCEPT ![id] = body])
  BY DEF RemoveSource, Abandon
<1>5. ~Flying(q)' /\ ~PastCheck(q)' /\ ppc'[q] = "idle"
  BY <1>1 DEF Flying, PastCheck, QueueTypeOK
<1>6. ASSUME NEW i \in Ids, NEW b \in Bodies, Kept(i, b) PROVE Kept(i, b)'
  <2>1. ASSUME NEW r \in Promoters, r # q, ppc[r] = "rewriting"
        PROVE  ppc'[r] = "rewriting" /\ candidate'[r] = candidate[r]
    BY <2>1, <1>1
  <2> QED BY <2>1, <1>1, <1>2, <1>6 DEF Kept
<1>7. ForcedAlone'
  BY <1>1, <1>5 DEF QueueInv, ForcedAlone, SameId, Flying
<1>8. OneText'
  BY <1>1, <1>5 DEF QueueInv, OneText, SameId, Flying, PastCheck
<1>9. OneCandidate'
  <2> SUFFICES ASSUME NEW r \in Promoters \ {q}, NEW t \in Promoters \ {q},
                      SameId(r, t), Place(r) = Absent
               PROVE  candidate[r] = candidate[t] /\ candidate[r] \in inbound'
    BY <1>1, <1>5 DEF OneCandidate, SameId, Flying, Place
  <2>1. candidate[r] = candidate[t] /\ candidate[r] \in inbound
    BY DEF QueueInv, OneCandidate
  <2>2. ASSUME ppc[q] = "removing" PROVE candidate[r] # candidate[q]
    <3>1. Place(q) # Absent
      BY <2>2 DEF QueueInv, OwnOrNothing
    <3> QED BY <3>1 DEF Place
  <2> QED BY <2>1, <2>2, <1>2
<1>10. OwnOrNothing'
  <2> SUFFICES ASSUME NEW r \in Promoters \ {q}
               PROVE  /\ ppc[r] = "checked" /\ ~forced[r] => Place(r) \in {Absent, Torn, candidate[r].body}
                      /\ ppc[r] \in {"writing", "rewriting"} => Place(r) \in {Torn, candidate[r].body}
                      /\ ppc[r] = "removing" => Place(r) # Absent
    BY <1>1, <1>5 DEF OwnOrNothing, Place
  <2> QED BY DEF QueueInv, OwnOrNothing
<1>11. ApprovedText'
  <2> SUFFICES ASSUME NEW i \in Ids, approved'[i] # Absent
               PROVE  /\ gks[i] # Absent
                      /\ \A r \in Promoters \ {q} :
                            PastCheck(r) /\ candidate[r].id = i =>
                              candidate[r].body = approved'[i] \/ (ppc[r] = "checked" /\ forced[r])
    BY <1>1, <1>5 DEF ApprovedText, PastCheck
  <2>1. CASE approved'[i] = approved[i]
    BY <2>1 DEF QueueInv, ApprovedText
  <2>2. CASE approved'[i] # approved[i]
    <3>1. i = id /\ approved'[i] = body /\ ppc[q] = "removing"
      BY <2>2, <1>3, <1>4 DEF QueueTypeOK
    <3>2. gks[id] # Absent
      BY <3>1 DEF QueueInv, OwnOrNothing, Place
    <3>3. ASSUME NEW r \in Promoters \ {q}, PastCheck(r), candidate[r].id = i
          PROVE  candidate[r].body = body
      BY <3>1, <3>3 DEF QueueInv, OneText, SameId, PastCheck, Flying
    <3> QED BY <3>1, <3>2, <3>3
  <2> QED BY <2>1, <2>2
<1>12. WrittenIsKept'
  BY <1>1, <1>5, <1>6 DEF QueueInv, WrittenIsKept
<1>13. ApprovedIsKept'
  <2> SUFFICES ASSUME NEW i \in Ids, NEW b \in Bodies, approved'[i] = b
               PROVE  Kept(i, b)
    BY <1>6 DEF ApprovedIsKept
  <2>1. CASE approved[i] = b
    BY <2>1 DEF QueueInv, ApprovedIsKept
  <2>2. CASE approved[i] # b
    <3>1. i = id /\ b = body /\ ppc[q] = "removing"
      BY <2>2, <1>3, <1>4 DEF QueueTypeOK
    <3> QED BY <3>1 DEF QueueInv, WrittenIsKept
  <2> QED BY <2>1, <2>2
<1> QED BY <1>7, <1>8, <1>9, <1>10, <1>11, <1>12, <1>13 DEF QueueInv

LEMMA QueueInvStep ==
    ASSUME QueueTypeOK, QueueInv, QueueStep
    PROVE  QueueInv'
<1>1. CASE \E id \in Ids, body \in Bodies : Propose(id, body)
  <2>1. inbound \subseteq inbound' /\ UNCHANGED <<gks, ppc, candidate, forced, approved, torn>>
    BY <1>1 DEF Propose
  <2> QED
    BY <2>1 DEF QueueInv, ForcedAlone, OneCandidate, OneText, OwnOrNothing, ApprovedText,
                WrittenIsKept, ApprovedIsKept, Kept, SameId, Flying, PastCheck, Place
<1>2. ASSUME NEW f \in inbound, InFlight(f.id) = {}, Discard(f) PROVE QueueInv'
  <2>1. inbound' = inbound \ {f} /\ UNCHANGED <<gks, ppc, candidate, forced, approved, torn>>
    BY <1>2 DEF Discard
  <2>2. \A r \in Promoters : Flying(r) => candidate[r] # f
    BY <1>2 DEF InFlight, Flying
  <2>3. (ForcedAlone /\ OneText /\ OwnOrNothing /\ ApprovedText /\ WrittenIsKept /\ ApprovedIsKept)'
    BY <2>1 DEF QueueInv, ForcedAlone, OneText, OwnOrNothing, ApprovedText, WrittenIsKept,
                ApprovedIsKept, Kept, SameId, Flying, PastCheck, Place
  <2>4. OneCandidate'
    BY <2>1, <2>2 DEF QueueInv, OneCandidate, SameId, Flying, Place
  <2> QED BY <2>3, <2>4 DEF QueueInv
<1> QED
  BY <1>1, <1>2, ReadStep, CheckStep, OpenStep, WriteStep, OverStep
  DEF QueueStep, OrderlyReview, Promote

\* Only an opening changes a text, and it is forced or owes the same text.
LEMMA QueueActions ==
    ASSUME QueueTypeOK, QueueInv, QueueStep, NEW id \in Ids, gks[id] \in Bodies
    PROVE  \/ gks'[id] = gks[id]
           \/ \E q \in Promoters :
                 /\ OpenDest(q) /\ candidate[q].id = id
                 /\ forced[q] \/ candidate[q].body = gks[id]
<1>0. gks[id] # Absent /\ gks[id] # Torn
  BY AbsentAssumption
<1>1. ASSUME NEW q \in Promoters, WriteDest(q) PROVE gks'[id] = gks[id]
  <2>1. gks[candidate[q].id] \in {Torn, candidate[q].body}
    BY <1>1 DEF WriteDest, QueueInv, OwnOrNothing, Place
  <2>2. gks' = [gks EXCEPT ![candidate[q].id] = candidate[q].body]
    BY <1>1, <2>1 DEF WriteDest
  <2> QED BY <1>0, <2>1, <2>2 DEF QueueTypeOK
<1>2. ASSUME NEW q \in Promoters, OpenDest(q), gks'[id] # gks[id]
      PROVE  candidate[q].id = id /\ (forced[q] \/ candidate[q].body = gks[id])
  <2>1. candidate[q].id = id
    BY <1>2 DEF OpenDest, QueueTypeOK
  <2>2. ppc[q] = "checked"
    BY <1>2 DEF OpenDest
  <2>3. ASSUME ~forced[q] PROVE Place(q) \in {Absent, Torn, candidate[q].body}
    BY <2>2, <2>3 DEF QueueInv, OwnOrNothing
  <2> QED BY <1>0, <2>1, <2>3 DEF Place
<1>3. CASE \/ \E i \in Ids, body \in Bodies : Propose(i, body)
           \/ \E q \in Promoters, i \in Ids, force \in BOOLEAN : ReadCandidate(q, i, force)
           \/ \E q \in Promoters : CheckDest(q) \/ RemoveSource(q) \/ Abandon(q)
           \/ \E f \in inbound : Discard(f)
  BY <1>3 DEF Propose, ReadCandidate, CheckDest, RemoveSource, Abandon, Discard
<1> QED BY <1>1, <1>2, <1>3 DEF QueueStep, OrderlyReview, Promote

-----------------------------------------------------------------------------
(* Type correctness, and what the queue sees of a session                  *)

LEMMA TypeInit == ASSUME Init PROVE TypeOK
BY LifeAssumption
DEF Init, QueueInit, TypeOK, QueueTypeOK, Covered, Stages, Meta, Promotion

\* A consolidation proposes bodies that the queue knows.
LEMMA ProposalBody ==
    ASSUME TypeOK, NEW e \in Enders, epc[e] # "idle"
    PROVE  <<session[e], seen[e]>> \in Bodies
BY BodiesAssumption DEF TypeOK

LEMMA ActivityQueue ==
    ASSUME TypeOK, Activity
    PROVE  UNCHANGED queueVars \/ \E id \in Ids, body \in Bodies : Propose(id, body)
<1>1. ASSUME NEW e \in Enders, ProposeNext(e)
      PROVE  \E id \in Ids, body \in Bodies : Propose(id, body)
  <2>1. PICK id \in queue[e] : Propose(id, <<session[e], seen[e]>>)
    BY <1>1 DEF ProposeNext
  <2>2. id \in Ids
    BY DEF TypeOK
  <2>3. <<session[e], seen[e]>> \in Bodies
    BY <1>1, ProposalBody DEF ProposeNext
  <2> QED BY <2>1, <2>2, <2>3
<1>2. ASSUME NEW s \in Sessions, StartSession(s) \/ AppendTrace(s)
      PROVE  UNCHANGED queueVars
  BY <1>2 DEF StartSession, AppendTrace
<1>3. ASSUME NEW e \in Enders,
             \/ \E ids \in SUBSET Ids : Extract(e, ids)
             \/ Preview(e) \/ AllProposed(e) \/ CheckEpisode(e) \/ CheckEpisodeMisled(e)
             \/ OpenEpisode(e) \/ WriteEpisode(e) \/ WriteEpisodeFails(e)
             \/ Close(e) \/ Abort(e)
      PROVE  UNCHANGED queueVars
  BY <1>3 DEF Extract, Preview, AllProposed, CheckEpisode, CheckEpisodeMisled, OpenEpisode,
              WriteEpisode, WriteEpisodeFails, Close, Abort, Leave
<1> QED BY <1>1, <1>2, <1>3 DEF Activity, EndStep

\* What a step does to the queue is a step of the queue.
LEMMA QueueView ==
    ASSUME TypeOK, [OrderlyNext]_vars
    PROVE  UNCHANGED queueVars \/ QueueStep
<1>1. CASE UNCHANGED vars
  BY <1>1 DEF vars
<1>2. CASE Activity
  BY <1>2, ActivityQueue DEF QueueStep
<1>3. ASSUME NEW e \in Enders, NEW s \in Sessions, NEW force \in BOOLEAN, NEW long \in BOOLEAN,
             NEW persist \in BOOLEAN, EndSession(e, s, force, long, persist)
      PROVE  UNCHANGED queueVars
  BY <1>3 DEF EndSession
<1>4. CASE QueueNext
  BY <1>4 DEF QueueNext, ProposeDirectly, QueueStep
<1> QED BY <1>1, <1>2, <1>3, <1>4 DEF OrderlyNext, SessionNext

\* An orderly step is a step.
LEMMA OrderlyIsNext == ASSUME [OrderlyNext]_vars PROVE [Next]_vars
BY OrderlyIsReview DEF OrderlyNext, SessionNext, QueueNext, Next

LEMMA TypeStep ==
    ASSUME TypeOK, [Next]_vars
    PROVE  TypeOK'
<1> USE DEF TypeOK
<1>1. CASE UNCHANGED vars
  <2>1. UNCHANGED queueVars /\ UNCHANGED lifeVars
    BY <1>1 DEF vars
  <2> QED BY <2>1 DEF queueVars, lifeVars, QueueTypeOK
<1>2. QueueTypeOK'
  <2>1. UNCHANGED queueVars \/ Review \/ \E id \in Ids, body \in Bodies : Propose(id, body)
    <3>1. ASSUME NEW e \in Enders, NEW s \in Sessions, NEW force \in BOOLEAN,
                 NEW long \in BOOLEAN, NEW persist \in BOOLEAN,
                 EndSession(e, s, force, long, persist)
          PROVE  UNCHANGED queueVars
      BY <3>1 DEF EndSession
    <3>2. CASE Activity
      BY <3>2, ActivityQueue
    <3>3. CASE UNCHANGED vars
      BY <3>3 DEF vars
    <3>4. CASE \E id \in Ids, body \in Bodies : ProposeDirectly(id, body)
      BY <3>4 DEF ProposeDirectly
    <3> QED BY <3>1, <3>2, <3>3, <3>4 DEF Next
  <2>2. CASE UNCHANGED queueVars
    BY <2>2 DEF queueVars, QueueTypeOK
  <2> QED BY <2>1, <2>2, QueueType
<1>3. ASSUME NEW s \in Sessions, StartSession(s) PROVE TypeOK'
  <2>1. meta' \in [Sessions -> Meta]
    BY <1>3 DEF StartSession, Meta
  <2> QED BY <1>2, <1>3, <2>1 DEF StartSession
<1>4. ASSUME NEW s \in Sessions, AppendTrace(s) PROVE TypeOK'
  BY <1>2, <1>4, LifeAssumption DEF AppendTrace
<1>5. ASSUME UNCHANGED lifeVars PROVE TypeOK'
  BY <1>2, <1>5 DEF lifeVars
<1>6. ASSUME NEW e \in Enders, NEW s \in Sessions, NEW force \in BOOLEAN, NEW long \in BOOLEAN,
             NEW persist \in BOOLEAN, EndSession(e, s, force, long, persist)
      PROVE  TypeOK'
  <2>1. (force \/ Triggered(trace[s], long)) \in BOOLEAN
    BY DEF Triggered
  <2>2. /\ epc' \in [Enders -> Stages]
        /\ session' = [session EXCEPT ![e] = s]
        /\ seen' = [seen EXCEPT ![e] = trace[s]]
        /\ ran' \in [Enders -> BOOLEAN]
        /\ UNCHANGED <<trace, meta, episode, queue, damaged>>
    BY <1>6, <2>1 DEF EndSession, Stage, Stages
  <2>3. \A d \in Enders \ {e} : epc'[d] = epc[d]
    BY <1>6 DEF EndSession, Stage
  <2> QED BY <1>2, <2>2, <2>3
<1>7. ASSUME NEW e \in Enders, NEW ids \in SUBSET Ids, Extract(e, ids) PROVE TypeOK'
  BY <1>2, <1>7 DEF Extract, Stage, Stages
<1>8. ASSUME NEW e \in Enders, ProposeNext(e) PROVE TypeOK'
  <2>1. PICK id \in queue[e] : queue' = [queue EXCEPT ![e] = @ \ {id}]
    BY <1>8 DEF ProposeNext
  <2> QED BY <1>2, <1>8, <2>1 DEF ProposeNext
<1>9. ASSUME NEW e \in Enders,
             Preview(e) \/ AllProposed(e) \/ CheckEpisode(e) \/ CheckEpisodeMisled(e)
      PROVE  TypeOK'
  BY <1>2, <1>9 DEF Preview, AllProposed, CheckEpisode, CheckEpisodeMisled, Stage, Stages
<1>10. ASSUME NEW e \in Enders, OpenEpisode(e) \/ WriteEpisode(e) PROVE TypeOK'
  <2>1. episode' \in [Sessions -> Covered] /\ damaged' \subseteq Sessions
    BY <1>10 DEF OpenEpisode, WriteEpisode, Covered
  <2> QED BY <1>2, <1>10, <2>1 DEF OpenEpisode, WriteEpisode, Stage, Stages
<1>11. ASSUME NEW e \in Enders, epc[e] # "idle", Damages(e) PROVE damaged' \subseteq Sessions
  BY <1>11 DEF Damages
<1>12. ASSUME NEW e \in Enders, WriteEpisodeFails(e) PROVE TypeOK'
  <2>1. damaged' \subseteq Sessions
    BY <1>11, <1>12 DEF WriteEpisodeFails
  <2> QED BY <1>2, <1>12, <2>1 DEF WriteEpisodeFails, Stage, Stages
<1>13. ASSUME NEW e \in Enders, Close(e) \/ Abort(e) PROVE TypeOK'
  <2>1. Leave(e)
    BY <1>13 DEF Close, Abort
  <2>2. meta' \in [Sessions -> Meta]
    <3>1. CASE Abort(e)
      BY <3>1 DEF Abort
    <3>2. CASE Close(e)
      <4>1. ran[e] \in BOOLEAN /\ (epc[e] = "naming") \in BOOLEAN
        OBVIOUS
      <4>2. [status |-> "ended", consolidated |-> ran[e],
             episodic_path |-> epc[e] = "naming"] \in Meta
        BY <4>1 DEF Meta
      <4> QED BY <3>2, <4>2 DEF Close
    <3> QED BY <1>13, <3>1, <3>2
  <2>3. damaged' \subseteq Sessions
    BY <1>11, <1>13 DEF Close, Abort
  <2> QED BY <1>2, <2>1, <2>2, <2>3, LifeAssumption DEF Leave, Stage, Stages
<1>14. ASSUME NEW id \in Ids, NEW body \in Bodies, ProposeDirectly(id, body) PROVE TypeOK'
  BY <1>5, <1>14 DEF ProposeDirectly
<1> QED
  BY <1>1, <1>3, <1>4, <1>5, <1>6, <1>7, <1>8, <1>9, <1>10, <1>12, <1>13, <1>14
  DEF Next, Activity, EndStep

\* Type correctness of sessions and queue, under any interleaving of callers.
THEOREM SessionTypeOK == Spec => []TypeOK
<1>1. Init => TypeOK
  BY TypeInit
<1>2. TypeOK /\ [Next]_vars => TypeOK'
  BY TypeStep
<1> QED BY <1>1, <1>2, PTL DEF Spec

LEMMA OrderlyTypeOK == OrderlySpec => []TypeOK
<1>1. Init => TypeOK
  BY TypeInit
<1>2. TypeOK /\ [OrderlyNext]_vars => TypeOK'
  BY TypeStep, OrderlyIsNext
<1> QED BY <1>1, <1>2, PTL DEF OrderlySpec

-----------------------------------------------------------------------------
(* The queue's promises                                                    *)

LEMMA OrderlyQueueInv == OrderlySpec => []QueueInv
<1>1. Init => QueueInv
  BY AbsentAssumption
  DEF Init, QueueInit, QueueInv, ForcedAlone, OneCandidate, OneText, OwnOrNothing, ApprovedText,
      WrittenIsKept, ApprovedIsKept, SameId, Flying, PastCheck
<1>2. TypeOK /\ QueueInv /\ [OrderlyNext]_vars => QueueInv'
  <2> SUFFICES ASSUME TypeOK, QueueInv, [OrderlyNext]_vars PROVE QueueInv'
    OBVIOUS
  <2>1. QueueTypeOK
    BY DEF TypeOK
  <2>2. CASE UNCHANGED queueVars
    BY <2>2 DEF queueVars, QueueInv, ForcedAlone, OneCandidate, OneText, OwnOrNothing,
                ApprovedText, WrittenIsKept, ApprovedIsKept, Kept, SameId, Flying, PastCheck, Place
  <2> QED BY <2>1, <2>2, QueueView, QueueInvStep
<1> QED BY <1>1, <1>2, OrderlyTypeOK, PTL DEF OrderlySpec

\* An approved text is opened again only by force or by a promoter that owes the
\* same text, however promotions race and wherever they die (inbound.ts:135).
THEOREM SessionApprovedIsFinal == OrderlySpec => ApprovedIsFinal
<1>1. TypeOK /\ QueueInv /\ [OrderlyNext]_vars =>
        [\A id \in Ids :
            \/ gks[id] \notin Bodies
            \/ gks'[id] = gks[id]
            \/ \E q \in Promoters :
                  /\ OpenDest(q) /\ candidate[q].id = id
                  /\ forced[q] \/ candidate[q].body = gks[id]]_queueVars
  BY QueueView, QueueActions DEF TypeOK
<1> QED BY <1>1, OrderlyTypeOK, OrderlyQueueInv, PTL DEF OrderlySpec, ApprovedIsFinal

\* What a promotion takes from the queue is in gks/ or being written there again,
\* unless a racing promoter emptied the file and died (inbound.ts:184-185).
THEOREM SessionNoProposalLost == OrderlySpec => []NoProposalLost
<1>1. TypeOK /\ QueueInv => NoProposalLost
  <2> SUFFICES ASSUME TypeOK, QueueInv, NEW id \in Ids, approved[id] # Absent
               PROVE  Kept(id, approved[id])
    BY DEF NoProposalLost
  <2>1. approved[id] \in Bodies
    BY DEF TypeOK, QueueTypeOK
  <2> QED BY <2>1 DEF QueueInv, ApprovedIsKept
<1> QED BY <1>1, OrderlyTypeOK, OrderlyQueueInv, PTL

-----------------------------------------------------------------------------
(* Episodes                                                                *)

\* One endSession at a time for a session.
OneEnder ==
    \A d, e \in Enders :
        epc[d] # "idle" /\ epc[e] # "idle" /\ session[d] = session[e] => d = e

\* What an ender finds at its episode's place, by where it is.
EpisodeReady ==
    \A e \in Enders :
        /\ epc[e] = "opening" => episode[session[e]] = Absent
        /\ epc[e] \in {"writing", "rewriting"} => episode[session[e]] = Torn
        /\ epc[e] = "misled" => episode[session[e]] # Absent
        /\ epc[e] = "naming" => Whole(session[e])

EpisodeInv == OneEnder /\ EpisodeReady /\ NamedEpisodeIsWhole

\* A step that leaves the enders, the episodes and the statuses alone.
LEMMA EpisodeStutter ==
    ASSUME EpisodeInv, UNCHANGED <<epc, session, episode, meta, damaged>>
    PROVE  EpisodeInv'
BY DEF EpisodeInv, OneEnder, EpisodeReady, NamedEpisodeIsWhole, Whole

\* An ender that goes on, or leaves, and opens and writes nothing; what it owed
\* is `damaged`.
LEMMA EpisodeMove ==
    ASSUME TypeOK, EpisodeInv,
           NEW e \in Enders, NEW stage \in Stages, epc[e] # "idle",
           Stage(e, stage),
           \A d \in Enders \ {e} : session'[d] = session[d],
           stage # "idle" => session'[e] = session[e],
           UNCHANGED <<episode, meta>>, damaged \subseteq damaged',
           epc[e] = "rewriting" => session[e] \in damaged',
           stage \notin {"writing", "rewriting", "naming"},
           stage = "opening" => episode[session[e]] = Absent,
           stage = "misled" => episode[session[e]] # Absent
    PROVE  EpisodeInv'
<1>1. /\ epc'[e] = stage
      /\ \A d \in Enders \ {e} : epc'[d] = epc[d]
  BY DEF Stage, TypeOK
<1>2. OneEnder'
  BY <1>1 DEF EpisodeInv, OneEnder
<1>3. EpisodeReady'
  BY <1>1 DEF EpisodeInv, EpisodeReady, Whole
<1>4. NamedEpisodeIsWhole'
  BY <1>1 DEF EpisodeInv, NamedEpisodeIsWhole, Whole
<1> QED BY <1>2, <1>3, <1>4 DEF EpisodeInv

LEMMA EpisodeInvStep ==
    ASSUME TypeOK, EpisodeInv, [OrderlyNext]_vars
    PROVE  EpisodeInv'
<1>1. CASE UNCHANGED lifeVars
  BY <1>1, EpisodeStutter DEF lifeVars
<1>2. ASSUME NEW s \in Sessions, StartSession(s) PROVE EpisodeInv'
  <2>1. \A t \in Sessions : meta'[t].episodic_path => meta[t].episodic_path
    BY <1>2 DEF StartSession, TypeOK
  <2> QED BY <1>2, <2>1 DEF StartSession, EpisodeInv, OneEnder, EpisodeReady, NamedEpisodeIsWhole, Whole
<1>3. ASSUME NEW s \in Sessions, AppendTrace(s) PROVE EpisodeInv'
  BY <1>3, EpisodeStutter DEF AppendTrace
<1>4. ASSUME NEW e \in Enders, NEW s \in Sessions, NEW force \in BOOLEAN, NEW long \in BOOLEAN,
             NEW persist \in BOOLEAN, Ending(s) = {}, EndSession(e, s, force, long, persist)
      PROVE  EpisodeInv'
  <2>1. /\ epc[e] = "idle" /\ session'[e] = s
        /\ epc'[e] \in {"closing", "extracting", "previewing"}
        /\ \A d \in Enders \ {e} : epc'[d] = epc[d] /\ session'[d] = session[d]
        /\ UNCHANGED <<episode, meta, damaged>>
    BY <1>4 DEF EndSession, Stage, TypeOK
  <2>2. \A d \in Enders : epc[d] # "idle" => session[d] # s
    BY <1>4 DEF Ending
  <2>3. OneEnder'
    BY <2>1, <2>2 DEF EpisodeInv, OneEnder
  <2>4. EpisodeReady'
    BY <2>1 DEF EpisodeInv, EpisodeReady, Whole
  <2>5. NamedEpisodeIsWhole'
    BY <2>1 DEF EpisodeInv, NamedEpisodeIsWhole, Whole
  <2> QED BY <2>3, <2>4, <2>5 DEF EpisodeInv
<1>5. ASSUME NEW e \in Enders, NEW ids \in SUBSET Ids, Extract(e, ids) PROVE EpisodeInv'
  BY <1>5, EpisodeMove DEF Extract, Stages
<1>6. ASSUME NEW e \in Enders, ProposeNext(e) PROVE EpisodeInv'
  BY <1>6, EpisodeStutter DEF ProposeNext
<1>7. ASSUME NEW e \in Enders, Preview(e) PROVE EpisodeInv'
  BY <1>7, EpisodeMove DEF Preview, Stages
<1>8. ASSUME NEW e \in Enders, AllProposed(e) PROVE EpisodeInv'
  BY <1>8, EpisodeMove DEF AllProposed, Stages
<1>9. ASSUME NEW e \in Enders, CheckEpisode(e) PROVE EpisodeInv'
  <2>1. CASE episode[session[e]] = Absent
    <3>1. Stage(e, "opening")
      BY <1>9, <2>1 DEF CheckEpisode
    <3> QED BY <1>9, <2>1, <3>1, EpisodeMove DEF CheckEpisode, Stages
  <2>2. CASE episode[session[e]] # Absent
    <3>1. Stage(e, "closing")
      BY <1>9, <2>2 DEF CheckEpisode
    <3> QED BY <1>9, <3>1, EpisodeMove DEF CheckEpisode, Stages
  <2> QED BY <2>1, <2>2
<1>10. ASSUME NEW e \in Enders, CheckEpisodeMisled(e) PROVE EpisodeInv'
  BY <1>10, EpisodeMove DEF CheckEpisodeMisled, Stages
<1>11. ASSUME NEW e \in Enders, OpenEpisode(e) PROVE EpisodeInv'
  <2>1. /\ epc[e] \in {"opening", "misled"} /\ session[e] \in Sessions
        /\ epc'[e] = IF episode[session[e]] = Absent THEN "writing" ELSE "rewriting"
        /\ \A d \in Enders \ {e} : epc'[d] = epc[d]
        /\ UNCHANGED <<session, meta, damaged>>
        /\ \A s \in Sessions : episode'[s] = IF s = session[e] THEN Torn ELSE episode[s]
    BY <1>11 DEF OpenEpisode, Stage, TypeOK
  <2>2. ASSUME NEW d \in Enders \ {e}, epc[d] # "idle"
        PROVE  session[d] \in Sessions /\ session[d] # session[e]
    BY <2>1, <2>2 DEF EpisodeInv, OneEnder, TypeOK
  <2>3. OneEnder'
    BY <2>1 DEF EpisodeInv, OneEnder
  <2>4. EpisodeReady'
    BY <2>1, <2>2 DEF EpisodeInv, EpisodeReady, Whole
  <2>5. NamedEpisodeIsWhole'
    <3> SUFFICES ASSUME NEW s \in Sessions, meta[s].episodic_path
                 PROVE  \/ Whole(s)' \/ s \in damaged
                        \/ \E d \in Enders : session[d] = s /\ epc'[d] = "rewriting"
      BY <2>1 DEF NamedEpisodeIsWhole
    <3>1. \/ Whole(s) \/ s \in damaged
          \/ \E d \in Enders : session[d] = s /\ epc[d] = "rewriting"
      BY DEF EpisodeInv, NamedEpisodeIsWhole
    <3>2. CASE s # session[e]
      BY <3>1, <3>2, <2>1 DEF Whole
    <3>3. CASE s = session[e] /\ episode[s] # Absent
      BY <3>3, <2>1
    <3>4. CASE s = session[e] /\ episode[s] = Absent
      <4>1. ~Whole(s)
        BY <3>4, AbsentLife DEF Whole
      <4>2. ~\E d \in Enders : session[d] = s /\ epc[d] = "rewriting"
        BY <3>4, <2>1, <2>2
      <4> QED BY <3>1, <4>1, <4>2
    <3> QED BY <3>2, <3>3, <3>4
  <2> QED BY <2>3, <2>4, <2>5 DEF EpisodeInv
<1>12. ASSUME NEW e \in Enders, WriteEpisode(e) PROVE EpisodeInv'
  <2>1. /\ epc[e] \in {"writing", "rewriting"} /\ session[e] \in Sessions
        /\ epc'[e] = "naming" /\ seen[e] \in 0 .. MaxSteps
        /\ \A d \in Enders \ {e} : epc'[d] = epc[d]
        /\ UNCHANGED <<session, meta>> /\ damaged' = damaged \ {session[e]}
        /\ \A s \in Sessions : episode'[s] = IF s = session[e] THEN seen[e] ELSE episode[s]
    BY <1>12 DEF WriteEpisode, Stage, TypeOK
  <2>2. ASSUME NEW d \in Enders \ {e}, epc[d] # "idle"
        PROVE  session[d] \in Sessions /\ session[d] # session[e]
    BY <2>1, <2>2 DEF EpisodeInv, OneEnder, TypeOK
  <2>3. OneEnder'
    BY <2>1 DEF EpisodeInv, OneEnder
  <2>4. EpisodeReady'
    BY <2>1, <2>2 DEF EpisodeInv, EpisodeReady, Whole
  <2>5. NamedEpisodeIsWhole'
    <3> SUFFICES ASSUME NEW s \in Sessions, meta[s].episodic_path
                 PROVE  \/ Whole(s)' \/ s \in damaged'
                        \/ \E d \in Enders : session[d] = s /\ epc'[d] = "rewriting"
      BY <2>1 DEF NamedEpisodeIsWhole
    <3>1. CASE s = session[e]
      BY <3>1, <2>1 DEF Whole
    <3>2. CASE s # session[e]
      BY <3>2, <2>1 DEF EpisodeInv, NamedEpisodeIsWhole, Whole
    <3> QED BY <3>1, <3>2
  <2> QED BY <2>3, <2>4, <2>5 DEF EpisodeInv
<1>13. ASSUME NEW e \in Enders, WriteEpisodeFails(e) PROVE EpisodeInv'
  <2>1. damaged \subseteq damaged' /\ (epc[e] = "rewriting" => session[e] \in damaged')
    BY <1>13 DEF WriteEpisodeFails, Damages
  <2> QED BY <1>13, <2>1, EpisodeMove DEF WriteEpisodeFails, Stages
<1>14. ASSUME NEW e \in Enders, Close(e) PROVE EpisodeInv'
  <2>1. /\ epc[e] \in {"closing", "naming"} /\ session[e] \in Sessions /\ epc'[e] = "idle"
        /\ \A d \in Enders \ {e} : epc'[d] = epc[d] /\ session'[d] = session[d]
        /\ UNCHANGED <<episode, damaged>>
    BY <1>14 DEF Close, Leave, Stage, TypeOK
  <2>2. \A s \in Sessions :
            meta'[s].episodic_path = IF s = session[e] THEN epc[e] = "naming" ELSE meta[s].episodic_path
    BY <1>14, <2>1 DEF Close, TypeOK
  <2>3. OneEnder'
    BY <2>1 DEF EpisodeInv, OneEnder
  <2>4. EpisodeReady'
    BY <2>1 DEF EpisodeInv, EpisodeReady, Whole
  <2>5. NamedEpisodeIsWhole'
    <3> SUFFICES ASSUME NEW s \in Sessions, meta'[s].episodic_path
                 PROVE  \/ Whole(s) \/ s \in damaged
                        \/ \E d \in Enders : session'[d] = s /\ epc'[d] = "rewriting"
      BY <2>1 DEF NamedEpisodeIsWhole, Whole
    <3>1. CASE s = session[e]
      BY <3>1, <2>2 DEF EpisodeInv, EpisodeReady
    <3>2. CASE s # session[e]
      <4>1. \/ Whole(s) \/ s \in damaged
            \/ \E d \in Enders : session[d] = s /\ epc[d] = "rewriting"
        BY <3>2, <2>2 DEF EpisodeInv, NamedEpisodeIsWhole
      <4> QED BY <4>1, <2>1
    <3> QED BY <3>1, <3>2
  <2> QED BY <2>3, <2>4, <2>5 DEF EpisodeInv
<1>15. ASSUME NEW e \in Enders, Abort(e) PROVE EpisodeInv'
  <2>1. damaged \subseteq damaged' /\ (epc[e] = "rewriting" => session[e] \in damaged')
    BY <1>15 DEF Abort, Damages
  <2>2. /\ Stage(e, "idle") /\ UNCHANGED <<episode, meta>> /\ epc[e] # "idle"
        /\ \A d \in Enders \ {e} : session'[d] = session[d]
    BY <1>15 DEF Abort, Leave, TypeOK
  <2> QED BY <2>1, <2>2, EpisodeMove DEF Stages
<1>16. CASE QueueNext
  BY <1>1, <1>16 DEF QueueNext, ProposeDirectly
<1>17. CASE UNCHANGED vars
  BY <1>1, <1>17 DEF vars
<1> QED
  BY <1>2, <1>3, <1>4, <1>5, <1>6, <1>7, <1>8, <1>9, <1>10, <1>11, <1>12, <1>13, <1>14,
     <1>15, <1>16, <1>17
  DEF OrderlyNext, SessionNext, Activity, EndStep

LEMMA OrderlyEpisodeInv == OrderlySpec => []EpisodeInv
<1>1. Init => EpisodeInv
  BY DEF Init, EpisodeInv, OneEnder, EpisodeReady, NamedEpisodeIsWhole
<1>2. TypeOK /\ EpisodeInv /\ [OrderlyNext]_vars => EpisodeInv'
  BY EpisodeInvStep
<1> QED BY <1>1, <1>2, OrderlyTypeOK, PTL DEF OrderlySpec

\* The episode that a session.json names is whole, except where a later end could
\* not read it, emptied it and died (session.ts:212-232).
THEOREM SessionNamedEpisode == OrderlySpec => []NamedEpisodeIsWhole
<1>1. EpisodeInv => NamedEpisodeIsWhole
  BY DEF EpisodeInv
<1> QED BY <1>1, OrderlyEpisodeInv, PTL

\* A whole episode is opened again only by an end that could not read it, however
\* often its session is ended, retried after a crash or reopened (episodic.ts:66).
THEOREM SessionEpisodeIsFinal == OrderlySpec => EpisodeIsFinal
<1>1. TypeOK /\ EpisodeInv /\ [OrderlyNext]_vars =>
        [\A s \in Sessions :
            \/ ~Whole(s)
            \/ episode'[s] = episode[s]
            \/ \E e \in Enders : session[e] = s /\ epc[e] = "misled" /\ OpenEpisode(e)]_vars
  <2> SUFFICES ASSUME TypeOK, EpisodeInv, [OrderlyNext]_vars, NEW s \in Sessions, Whole(s),
                      ~\E e \in Enders : session[e] = s /\ epc[e] = "misled" /\ OpenEpisode(e)
               PROVE  episode'[s] = episode[s]
    OBVIOUS
  <2>0. episode[s] # Absent /\ episode[s] # Torn
    BY AbsentLife DEF Whole
  <2>1. ASSUME NEW e \in Enders, WriteEpisode(e) PROVE episode'[s] = episode[s]
    <3>1. episode[session[e]] = Torn
      BY <2>1 DEF WriteEpisode, EpisodeInv, EpisodeReady
    <3> QED BY <2>0, <2>1, <3>1 DEF WriteEpisode, TypeOK
  <2>2. ASSUME NEW e \in Enders, OpenEpisode(e) PROVE episode'[s] = episode[s]
    <3>1. epc[e] = "misled" \/ episode[session[e]] = Absent
      BY <2>2 DEF OpenEpisode, EpisodeInv, EpisodeReady
    <3>2. session[e] # s
      BY <2>0, <2>2, <3>1
    <3> QED BY <2>2, <3>2 DEF OpenEpisode, TypeOK
  <2>3. CASE ~\E e \in Enders : WriteEpisode(e) \/ OpenEpisode(e)
    <3>1. ASSUME NEW e \in Enders, EndStep(e) PROVE UNCHANGED episode
      BY <2>3, <3>1 DEF EndStep, Extract, Preview, ProposeNext, AllProposed, CheckEpisode,
                        CheckEpisodeMisled, WriteEpisodeFails, Close, Abort, Leave
    <3>2. CASE Activity
      BY <3>1, <3>2 DEF Activity, StartSession, AppendTrace
    <3>3. CASE QueueNext \/ UNCHANGED vars
      BY <3>3 DEF QueueNext, ProposeDirectly, lifeVars, vars
    <3>4. ASSUME NEW e \in Enders, NEW t \in Sessions, NEW force \in BOOLEAN, NEW long \in BOOLEAN,
                 NEW persist \in BOOLEAN, EndSession(e, t, force, long, persist)
          PROVE  UNCHANGED episode
      BY <3>4 DEF EndSession
    <3> QED BY <3>2, <3>3, <3>4 DEF OrderlyNext, SessionNext
  <2> QED BY <2>1, <2>2, <2>3
<1> QED BY <1>1, OrderlyTypeOK, OrderlyEpisodeInv, PTL DEF OrderlySpec, EpisodeIsFinal

-----------------------------------------------------------------------------
(* The scaffold                                                            *)

\* What is being promoted is filed, and once opened its destination exists.
CandidateFiled ==
    \A q \in Promoters : ppc[q] # "idle" =>
        /\ Filed(candidate[q].id)
        /\ ppc[q] \in {"writing", "rewriting", "removing"} => gks[candidate[q].id] # Absent

\* A caller has filed what lies behind it, and all before the first task file.
FiledBehind ==
    \A f \in Scaffolders :
        /\ spc[f] = "proposing" =>
             \A i \in 1 .. Len(Artifacts) : i < at[f] => Filed(Artifacts[i])
        /\ spc[f] = "tasks" => \A i \in 1 .. Len(Artifacts) : Filed(Artifacts[i])

CallerTypes ==
    /\ spc \in [Scaffolders -> {"idle", "proposing", "tasks"}]
    /\ at \in [Scaffolders -> Nat] /\ draft \in [Scaffolders -> Bodies \union {Absent}]
    /\ \A f \in Scaffolders : spc[f] # "idle" => draft[f] \in Bodies /\ at[f] > 0

ScaffoldInv ==
    QueueTypeOK /\ CallerTypes /\ CandidateFiled /\ FiledBehind /\ FiledInOrder

\* A proposal files its id, and touches no other.
LEMMA ProposeFiles ==
    ASSUME NEW id, NEW body, Propose(id, body), UNCHANGED thrown
    PROVE  \A k : Filed(k)' <=> Filed(k) \/ k = id
<1>1. \E new : new.id = id /\ inbound' = inbound \union {new}
  <2>1. PICK review : inbound' = inbound \union {[id |-> id, review |-> review, body |-> body]}
    BY DEF Propose
  <2>2. [id |-> id, review |-> review, body |-> body].id = id
    OBVIOUS
  <2> QED BY <2>1, <2>2
<1>2. gks' = gks
  BY DEF Propose
<1>3. \A k : (\E p \in inbound' : p.id = k) <=> (\E p \in inbound : p.id = k) \/ k = id
  BY <1>1
<1> QED BY <1>2, <1>3 DEF Filed

\* A review step files nothing and unfiles nothing.
LEMMA ReviewFiles ==
    ASSUME QueueTypeOK, CandidateFiled, ReviewBeside
    PROVE  (\A k \in Ids : Filed(k)' <=> Filed(k)) /\ CandidateFiled'
<1>1. \A p \in inbound : p.id \in Ids /\ p.body \in Bodies
  BY DEF QueueTypeOK, Proposal
<1>2. \A q \in Promoters : ppc[q] # "idle" => candidate[q].id \in Ids /\ candidate[q].body \in Bodies
  BY DEF QueueTypeOK, Proposal
<1>3. thrown \subseteq thrown'
  BY DEF ReviewBeside
<1>4. ASSUME NEW q \in Promoters, NEW id \in Ids, NEW force \in BOOLEAN,
             ReadCandidate(q, id, force), thrown' = thrown
      PROVE  (\A k \in Ids : Filed(k)' <=> Filed(k)) /\ CandidateFiled'
  <2>1. PICK f \in inbound : candidate' = [candidate EXCEPT ![q] = f]
    BY <1>4 DEF ReadCandidate
  <2>2. /\ ppc' = [ppc EXCEPT ![q] = "read"] /\ UNCHANGED <<inbound, gks>>
    BY <1>4 DEF ReadCandidate
  <2>3. Filed(f.id)
    BY DEF Filed
  <2>4. \A k : Filed(k)' <=> Filed(k)
    BY <1>4, <2>2 DEF Filed
  <2> QED BY <2>1, <2>2, <2>3, <2>4 DEF CandidateFiled, QueueTypeOK
<1>5. ASSUME NEW q \in Promoters, CheckDest(q), thrown' = thrown
      PROVE  (\A k \in Ids : Filed(k)' <=> Filed(k)) /\ CandidateFiled'
  <2>1. \A k : Filed(k)' <=> Filed(k)
    BY <1>5 DEF CheckDest, Filed
  <2> QED BY <1>5, <2>1 DEF CheckDest, CandidateFiled, QueueTypeOK
<1>6. ASSUME NEW q \in Promoters, OpenDest(q) \/ WriteDest(q), thrown' = thrown
      PROVE  (\A k \in Ids : Filed(k)' <=> Filed(k)) /\ CandidateFiled'
  <2>1. /\ candidate[q].id \in Ids /\ Filed(candidate[q].id) /\ ppc[q] # "idle"
        /\ UNCHANGED <<inbound, candidate>>
    BY <1>2, <1>6 DEF OpenDest, WriteDest, CandidateFiled
  <2>2. PICK text \in {candidate[q].body, Torn} :
            gks' = [gks EXCEPT ![candidate[q].id] = text]
    BY <1>6 DEF OpenDest, WriteDest
  <2>3. text # Absent
    BY <1>2, <2>1, AbsentAssumption
  <2>4. \A k \in Ids : gks'[k] = IF k = candidate[q].id THEN text ELSE gks[k]
    BY <2>2 DEF QueueTypeOK
  <2>5. \A k \in Ids : Filed(k)' <=> Filed(k)
    BY <1>6, <2>1, <2>3, <2>4 DEF Filed
  <2>6. \A r \in Promoters : r = q \/ ppc'[r] = ppc[r]
    BY <1>6 DEF OpenDest, WriteDest, QueueTypeOK
  <2>7. \A r \in Promoters : ppc'[r] # "idle" => ppc[r] # "idle"
    BY <2>1, <2>6
  <2> QED BY <1>2, <2>1, <2>3, <2>4, <2>5, <2>6, <2>7 DEF CandidateFiled
<1>7. ASSUME NEW q \in Promoters, RemoveSource(q) \/ Abandon(q), thrown' = thrown
      PROVE  (\A k \in Ids : Filed(k)' <=> Filed(k)) /\ CandidateFiled'
  <2>1. /\ ppc' = [ppc EXCEPT ![q] = "idle"] /\ candidate' = [candidate EXCEPT ![q] = Absent]
        /\ UNCHANGED gks
    BY <1>7 DEF RemoveSource, Abandon, Done
  <2>2. \/ inbound' = inbound
        \/ inbound' = inbound \ {candidate[q]} /\ gks[candidate[q].id] # Absent
    BY <1>7 DEF RemoveSource, Abandon, CandidateFiled
  <2>3. \A k \in Ids : Filed(k)' <=> Filed(k)
    BY <1>7, <2>1, <2>2 DEF Filed
  <2> QED BY <1>2, <2>1, <2>3 DEF CandidateFiled, QueueTypeOK
<1>8. ASSUME NEW f \in inbound, Discard(f)
      PROVE  (\A k \in Ids : Filed(k)' <=> Filed(k)) /\ CandidateFiled'
  <2>1. inbound' = inbound \ {f} /\ UNCHANGED <<gks, ppc, candidate>>
    BY <1>8 DEF Discard
  <2>2. f.id \in thrown'
    BY <1>8 DEF ReviewBeside
  <2>3. \A k \in thrown' : Filed(k)
    BY DEF ReviewBeside, Filed
  <2>4. \A k \in Ids : Filed(k)' <=> Filed(k)
    BY <1>3, <2>1, <2>2, <2>3 DEF Filed
  <2> QED BY <1>2, <2>1, <2>4 DEF CandidateFiled
<1>9. (\E f \in inbound : Discard(f)) \/ thrown' = thrown
  BY DEF ReviewBeside
<1> QED BY <1>4, <1>5, <1>6, <1>7, <1>8, <1>9 DEF ReviewBeside, OrderlyReview, Promote

LEMMA ScaffoldInvStep ==
    ASSUME ScaffoldInv, ScaffoldNext
    PROVE  ScaffoldInv'
<1> USE DEF ScaffoldInv
<1>1. ASSUME NEW f \in Scaffolders, ProposeArtifact(f)
      PROVE  ScaffoldInv'
  <2> DEFINE n == at[f]  id == Artifacts[n]
  <2>1. /\ spc[f] = "proposing" /\ n <= Len(Artifacts) /\ Propose(id, draft[f])
        /\ spc' = [spc EXCEPT ![f] = "proposing"] /\ at' = [at EXCEPT ![f] = n + 1]
        /\ draft' = [draft EXCEPT ![f] = draft[f]]
        /\ UNCHANGED <<taskFiles, thrown>>
    BY <1>1 DEF ProposeArtifact, To
  <2>2. \A k : Filed(k)' <=> Filed(k) \/ k = id
    BY <2>1, ProposeFiles
  <2>3. CallerTypes'
    BY <2>1 DEF CallerTypes
  <2>4. CandidateFiled'
    BY <2>1, <2>2 DEF Propose, CandidateFiled
  <2>5. n \in Nat /\ Len(Artifacts) \in Nat
    BY ArtifactsAssumption DEF CallerTypes
  <2>6. FiledBehind'
    BY <2>1, <2>2, <2>5 DEF FiledBehind, CallerTypes
  <2>7. FiledInOrder'
    <3>1. \A i, j \in 1 .. Len(Artifacts) :
              i < j /\ Filed(Artifacts[j])' => Filed(Artifacts[i])'
      <4>1. SUFFICES ASSUME NEW i \in 1 .. Len(Artifacts), NEW j \in 1 .. Len(Artifacts),
                            i < j, Filed(Artifacts[j])'
                     PROVE  Filed(Artifacts[i])'
        OBVIOUS
      <4>2. CASE Filed(Artifacts[j])
        BY <2>2, <4>1, <4>2 DEF FiledInOrder
      <4>3. CASE Artifacts[j] = id /\ n \in 1 .. Len(Artifacts)
        BY <2>1, <2>2, <4>1, <4>3, ArtifactsAssumption DEF FiledBehind
      <4>4. n \in 1 .. Len(Artifacts)
        BY <2>1, <2>5 DEF CallerTypes
      <4> QED BY <2>2, <4>1, <4>2, <4>3, <4>4
    <3> QED BY <2>1, <2>2, <3>1 DEF FiledInOrder
  <2>8. QueueTypeOK'
    <3>1. id \in Ids /\ draft[f] \in Bodies
      BY <2>1, <2>5, ArtifactsAssumption DEF CallerTypes
    <3> QED BY <2>1, <3>1, QueueType
  <2> QED BY <2>3, <2>4, <2>6, <2>7, <2>8
<1>2. ASSUME NEW f \in Scaffolders,
             \/ \E body \in Bodies : ScaffoldNewFeature(f, body)
             \/ BeginTasks(f) \/ WriteTask(f) \/ EndScaffold(f)
      PROVE  ScaffoldInv'
  <2>1. UNCHANGED <<queueVars, thrown>>
    BY <1>2 DEF ScaffoldNewFeature, BeginTasks, WriteTask, EndScaffold
  <2>2. \A k : Filed(k)' <=> Filed(k)
    BY <2>1 DEF Filed, queueVars
  <2>3. QueueTypeOK' /\ CandidateFiled'
    BY <2>1, <2>2 DEF queueVars, QueueTypeOK, CandidateFiled
  <2>4. CallerTypes' /\ FiledBehind'
    <3>0. Len(Artifacts) \in Nat
      BY ArtifactsAssumption
    <3>1. CASE \E body \in Bodies : ScaffoldNewFeature(f, body)
      BY <2>2, <3>0, <3>1 DEF ScaffoldNewFeature, To, CallerTypes, FiledBehind
    <3>2. CASE BeginTasks(f)
      BY <2>2, <3>0, <3>2 DEF BeginTasks, To, CallerTypes, FiledBehind
    <3>3. CASE WriteTask(f)
      BY <2>2, <3>0, <3>3 DEF WriteTask, To, CallerTypes, FiledBehind
    <3>4. CASE EndScaffold(f)
      BY <2>2, <3>0, <3>4 DEF EndScaffold, To, CallerTypes, FiledBehind
    <3> QED BY <1>2, <3>1, <3>2, <3>3, <3>4
  <2>5. taskFiles' # {} => \A i \in 1 .. Len(Artifacts) : Filed(Artifacts[i])
    BY <1>2 DEF ScaffoldNewFeature, BeginTasks, WriteTask, EndScaffold, FiledBehind, FiledInOrder
  <2>6. FiledInOrder'
    BY <2>2, <2>5 DEF FiledInOrder
  <2> QED BY <2>3, <2>4, <2>6
<1>3. CASE ReviewBeside
  <2>1. (\A k \in Ids : Filed(k)' <=> Filed(k)) /\ CandidateFiled'
    BY <1>3, ReviewFiles
  <2>2. UNCHANGED <<spc, at, draft, taskFiles>>
    BY <1>3 DEF ReviewBeside
  <2>3. \A i \in 1 .. Len(Artifacts) : Artifacts[i] \in Ids
    BY ArtifactsAssumption
  <2>4. QueueTypeOK'
    BY <1>3, QueueType, OrderlyIsReview DEF ReviewBeside
  <2> QED BY <2>1, <2>2, <2>3, <2>4 DEF CallerTypes, FiledBehind, FiledInOrder
<1> QED BY <1>1, <1>2, <1>3 DEF ScaffoldNext

\* No child is filed before its parents, by any number of scaffolds, retries and
\* reviewers (scaffoldNewFeature).
THEOREM ScaffoldParentsFirst == WorkflowSpec => []ParentsFirst
<1> DEFINE Inv == producer = "scaffold" => ScaffoldInv
<1>1. WorkflowInit => Inv
  <2> SUFFICES ASSUME WorkflowInit PROVE ScaffoldInv
    OBVIOUS
  <2> USE DEF WorkflowInit, Init, ScaffoldInit
  <2>1. QueueTypeOK
    BY DEF QueueInit, QueueTypeOK, Promotion
  <2>2. CallerTypes
    BY DEF CallerTypes
  <2>3. CandidateFiled /\ FiledBehind
    BY DEF QueueInit, CandidateFiled, FiledBehind
  <2>4. \A i \in 1 .. Len(Artifacts) : ~ Filed(Artifacts[i])
    BY ArtifactsAssumption DEF QueueInit, Filed
  <2>5. FiledInOrder
    BY <2>4 DEF FiledInOrder
  <2> QED BY <2>1, <2>2, <2>3, <2>5 DEF ScaffoldInv
<1>2. ASSUME Inv, [WorkflowNext]_<<vars, scaffoldVars, producer>>
      PROVE  Inv'
  <2>1. CASE producer = "scaffold" /\ ScaffoldNext /\ UNCHANGED producer
    BY <1>2, <2>1, ScaffoldInvStep
  <2>2. CASE UNCHANGED producer /\ producer # "scaffold"
    BY <2>2
  <2>3. CASE UNCHANGED <<vars, scaffoldVars, producer>>
    BY <1>2, <2>3 DEF vars, queueVars, scaffoldVars, ScaffoldInv, QueueTypeOK, CallerTypes,
                      CandidateFiled, FiledBehind, FiledInOrder, Filed
  <2> QED BY <1>2, <2>1, <2>2, <2>3 DEF WorkflowNext
<1>3. Inv => ParentsFirst
  BY DEF ScaffoldInv, ParentsFirst
<1> QED BY <1>1, <1>2, <1>3, PTL DEF WorkflowSpec

-----------------------------------------------------------------------------
(* Both producers                                                          *)

\* A caller goes to a stage, with what that stage needs.
LEMMA ToTypes ==
    ASSUME ScaffoldTypeOK, CallerTypes,
           NEW f \in Scaffolders, NEW stage \in {"idle", "proposing", "tasks"},
           NEW n \in 0 .. Len(Artifacts) + MaxTasks + 1,
           NEW body \in Bodies \union {Absent}, To(f, stage, n, body),
           stage # "idle" => body \in Bodies /\ n > 0,
           taskFiles' \subseteq 1 .. MaxTasks, thrown' = thrown
    PROVE  ScaffoldTypeOK' /\ CallerTypes'
<1>1. n \in Nat
  BY ArtifactsAssumption
<1>2. ScaffoldTypeOK'
  BY DEF To, ScaffoldTypeOK
<1>3. CallerTypes'
  BY <1>1 DEF To, CallerTypes
<1> QED BY <1>2, <1>3

LEMMA CallerStep ==
    ASSUME QueueTypeOK, ScaffoldTypeOK, CallerTypes, ScaffoldNext
    PROVE  ScaffoldTypeOK' /\ CallerTypes'
<1>0. Len(Artifacts) \in Nat /\ MaxTasks \in Nat
  BY ArtifactsAssumption
<1>1. taskFiles \subseteq 1 .. MaxTasks
  BY DEF ScaffoldTypeOK
<1>2. /\ 0 \in 0 .. Len(Artifacts) + MaxTasks + 1
      /\ 1 \in 0 .. Len(Artifacts) + MaxTasks + 1 /\ 1 > 0
  BY <1>0
<1>3. ASSUME NEW f \in Scaffolders, NEW body \in Bodies, ScaffoldNewFeature(f, body)
      PROVE  ScaffoldTypeOK' /\ CallerTypes'
  <2>1. To(f, "proposing", 1, body) /\ UNCHANGED <<taskFiles, thrown>>
    BY <1>3 DEF ScaffoldNewFeature
  <2> QED BY <1>1, <1>2, <2>1, ToTypes
<1>4. ASSUME NEW f \in Scaffolders, ProposeArtifact(f) \/ BeginTasks(f) \/ WriteTask(f)
      PROVE  ScaffoldTypeOK' /\ CallerTypes'
  <2>1. draft[f] \in Bodies /\ at[f] \in Nat /\ at[f] > 0
    BY <1>4 DEF ProposeArtifact, BeginTasks, WriteTask, CallerTypes
  <2>2. CASE ProposeArtifact(f)
    <3>1. /\ To(f, "proposing", at[f] + 1, draft[f]) /\ UNCHANGED <<taskFiles, thrown>>
          /\ at[f] <= Len(Artifacts)
      BY <2>2 DEF ProposeArtifact
    <3>2. at[f] + 1 \in 0 .. Len(Artifacts) + MaxTasks + 1 /\ at[f] + 1 > 0
      BY <1>0, <2>1, <3>1
    <3> QED BY <1>1, <2>1, <3>1, <3>2, ToTypes
  <2>3. CASE BeginTasks(f)
    <3>1. To(f, "tasks", 1, draft[f]) /\ UNCHANGED <<taskFiles, thrown>>
      BY <2>3 DEF BeginTasks
    <3> QED BY <1>1, <1>2, <2>1, <3>1, ToTypes
  <2>4. CASE WriteTask(f)
    <3>1. /\ To(f, "tasks", at[f] + 1, draft[f]) /\ thrown' = thrown
          /\ at[f] <= MaxTasks /\ taskFiles' = taskFiles \union {at[f]}
      BY <2>4 DEF WriteTask
    <3>2. at[f] + 1 \in 0 .. Len(Artifacts) + MaxTasks + 1 /\ at[f] + 1 > 0
      BY <1>0, <2>1, <3>1
    <3>3. taskFiles' \subseteq 1 .. MaxTasks
      <4>1. at[f] \in 1 .. MaxTasks
        BY <1>0, <2>1, <3>1
      <4> QED BY <1>1, <3>1, <4>1
    <3> QED BY <2>1, <3>1, <3>2, <3>3, ToTypes
  <2> QED BY <1>4, <2>2, <2>3, <2>4
<1>5. ASSUME NEW f \in Scaffolders, EndScaffold(f)
      PROVE  ScaffoldTypeOK' /\ CallerTypes'
  <2>1. To(f, "idle", 0, Absent) /\ UNCHANGED <<taskFiles, thrown>>
    BY <1>5 DEF EndScaffold
  <2> QED BY <1>1, <1>2, <2>1, ToTypes
<1>6. CASE ReviewBeside
  <2>1. \A p \in inbound : p.id \in Ids
    BY DEF QueueTypeOK, Proposal
  <2> QED BY <1>6, <2>1 DEF ReviewBeside, ScaffoldTypeOK, CallerTypes
<1> QED BY <1>3, <1>4, <1>5, <1>6 DEF ScaffoldNext

\* What a scaffold does to the queue is what the session's side leaves open: a
\* direct proposal, a review, or nothing.
LEMMA ScaffoldView ==
    ASSUME CallerTypes, ScaffoldNext, UNCHANGED lifeVars
    PROVE  [OrderlyNext]_vars
<1>1. ASSUME NEW f \in Scaffolders, ProposeArtifact(f) PROVE OrderlyNext
  <2>1. /\ at[f] \in 1 .. Len(Artifacts) /\ draft[f] \in Bodies
        /\ Propose(Artifacts[at[f]], draft[f])
    BY <1>1, ArtifactsAssumption DEF ProposeArtifact, CallerTypes
  <2>2. Artifacts[at[f]] \in Ids
    BY <2>1, ArtifactsAssumption
  <2> QED BY <2>1, <2>2 DEF ProposeDirectly, QueueNext, OrderlyNext
<1>2. ASSUME NEW f \in Scaffolders,
             \/ \E body \in Bodies : ScaffoldNewFeature(f, body)
             \/ BeginTasks(f) \/ WriteTask(f) \/ EndScaffold(f)
      PROVE  UNCHANGED vars
  BY <1>2 DEF ScaffoldNewFeature, BeginTasks, WriteTask, EndScaffold, vars
<1>3. CASE ReviewBeside
  BY <1>3 DEF ReviewBeside, QueueNext, OrderlyNext
<1> QED BY <1>1, <1>2, <1>3 DEF ScaffoldNext

WorkflowInv == WorkflowTypeOK /\ CallerTypes

LEMMA WorkflowStep ==
    ASSUME WorkflowInv, [WorkflowNext]_<<vars, scaffoldVars, producer>>
    PROVE  WorkflowInv' /\ [OrderlyNext]_vars
<1>1. TypeOK /\ QueueTypeOK /\ ScaffoldTypeOK /\ CallerTypes
  BY DEF WorkflowInv, WorkflowTypeOK, TypeOK
<1>2. CASE UNCHANGED scaffoldVars /\ [OrderlyNext]_vars
  <2>1. TypeOK'
    BY <1>1, <1>2, OrderlyIsNext, TypeStep
  <2>2. ScaffoldTypeOK' /\ CallerTypes'
    BY <1>1, <1>2 DEF scaffoldVars, ScaffoldTypeOK, CallerTypes
  <2> QED BY <1>2, <2>1, <2>2 DEF WorkflowInv, WorkflowTypeOK
<1>3. CASE ScaffoldNext /\ UNCHANGED lifeVars
  <2>1. [OrderlyNext]_vars
    BY <1>1, <1>3, ScaffoldView
  <2>2. TypeOK'
    BY <1>1, <2>1, OrderlyIsNext, TypeStep
  <2>3. ScaffoldTypeOK' /\ CallerTypes'
    BY <1>1, <1>3, CallerStep
  <2> QED BY <2>1, <2>2, <2>3 DEF WorkflowInv, WorkflowTypeOK
<1> QED BY <1>2, <1>3 DEF WorkflowNext, OrderlyNext

LEMMA WorkflowInvariant == WorkflowSpec => []WorkflowInv
<1>1. WorkflowInit => WorkflowInv
  <2> SUFFICES ASSUME WorkflowInit PROVE WorkflowInv
    OBVIOUS
  <2>1. TypeOK
    BY TypeInit DEF WorkflowInit
  <2>2. ScaffoldTypeOK /\ CallerTypes
    <3>1. 0 \in 0 .. Len(Artifacts) + MaxTasks + 1
      BY ArtifactsAssumption
    <3> QED BY <3>1 DEF WorkflowInit, ScaffoldInit, ScaffoldTypeOK, CallerTypes
  <2> QED BY <2>1, <2>2 DEF WorkflowInv, WorkflowTypeOK
<1>2. WorkflowInv /\ [WorkflowNext]_<<vars, scaffoldVars, producer>> => WorkflowInv'
  BY WorkflowStep
<1> QED BY <1>1, <1>2, PTL DEF WorkflowSpec

\* Type correctness of sessions, queue and scaffold.
THEOREM WorkflowTypes == WorkflowSpec => []WorkflowTypeOK
<1>1. WorkflowInv => WorkflowTypeOK
  BY DEF WorkflowInv
<1> QED BY <1>1, WorkflowInvariant, PTL

\* Whichever producer is at work, a workflow is an orderly use of the queue, so
\* all that is proved of sessions and reviewers holds beside a scaffold too.
THEOREM WorkflowIsOrderly == WorkflowSpec => OrderlySpec
<1>1. WorkflowInit => Init
  BY DEF WorkflowInit
<1>2. WorkflowInv /\ [WorkflowNext]_<<vars, scaffoldVars, producer>> => [OrderlyNext]_vars
  BY WorkflowStep
<1> QED BY <1>1, <1>2, WorkflowInvariant, PTL DEF WorkflowSpec, OrderlySpec

\* What the queue promises its reviewers and a session its readers, whichever
\* producer is at work.
THEOREM WorkflowKeepsPromises ==
    WorkflowSpec => /\ ApprovedIsFinal /\ []NoProposalLost
                    /\ []NamedEpisodeIsWhole /\ EpisodeIsFinal
BY WorkflowIsOrderly, SessionApprovedIsFinal, SessionNoProposalLost,
   SessionNamedEpisode, SessionEpisodeIsFinal
=============================================================================
