--------------------------- MODULE RecordProofs ---------------------------
(***************************************************************************)
(* What is safe about what is written for good. Part 1: the documents of   *)
(* retain and recall, for every number of callers, topics, texts,          *)
(* namespaces and documents. Part 2: the files of issues and hotfixes and  *)
(* the index over them, for every number of calls, ids, lookups and        *)
(* rebuilds.                                                               *)
(***************************************************************************)
EXTENDS Retain, Knowledge, SequenceTheorems, FiniteSetTheorems, TLAPS

-----------------------------------------------------------------------------
(* The two ways docs changes                                               *)

\* Appending a document: its position, and the documents before it.
LEMMA AppendDocs ==
    ASSUME NEW ds \in Seq(Doc), NEW d \in Doc
    PROVE  /\ Append(ds, d) \in Seq(Doc)
           /\ Len(Append(ds, d)) = Len(ds) + 1
           /\ DOMAIN Append(ds, d) = DOMAIN ds \union {Len(ds) + 1}
           /\ Append(ds, d)[Len(ds) + 1] = d
           /\ \A i \in DOMAIN ds : Append(ds, d)[i] = ds[i]
BY AppendProperties, LenProperties

\* Superseding documents: nothing but superseded_by changes.
LEMMA SupersededDocs ==
    ASSUME NEW ds \in Seq(Doc), NEW ids, NEW by \in Nat
    PROVE  /\ Superseded(ds, ids, by) \in Seq(Doc)
           /\ Len(Superseded(ds, ids, by)) = Len(ds)
           /\ DOMAIN Superseded(ds, ids, by) = DOMAIN ds
           /\ \A i \in DOMAIN ds :
                 /\ Superseded(ds, ids, by)[i].topic = ds[i].topic
                 /\ Superseded(ds, ids, by)[i].text = ds[i].text
                 /\ Superseded(ds, ids, by)[i].ns = ds[i].ns
                 /\ Superseded(ds, ids, by)[i].supersededBy =
                       IF i \in ids THEN by ELSE ds[i].supersededBy
<1> DEFINE new == Superseded(ds, ids, by)
<1>1. DOMAIN ds = 1 .. Len(ds) /\ Len(ds) \in Nat /\ \A i \in DOMAIN ds : ds[i] \in Doc
  BY LenProperties, ElementOfSeq
<1>2. new \in [1 .. Len(ds) -> Doc]
  BY <1>1 DEF Superseded, Doc
<1>3. new \in Seq(Doc) /\ Len(new) = Len(ds)
  BY <1>1, <1>2, SeqDef, LenProperties
<1> QED
  BY <1>1, <1>2, <1>3 DEF Superseded, Doc

-----------------------------------------------------------------------------
(* The inductive invariant                                                 *)

\* What a retain has found stays as it was, supersession apart.
FoundInScope ==
    \A p \in Procs : pc[p] \in {"adding", "patching", "returning"} =>
        \A i \in found[p] :
            /\ docs[i].topic = req[p].topic
            /\ docs[i].text # req[p].text
            /\ req[p].ns \subseteq docs[i].ns

\* The document a retain added is in the store, after everything it found.
AddedAfterFound ==
    \A p \in Procs : pc[p] \in {"patching", "returning"} =>
        /\ doc[p] \in DOMAIN docs
        /\ docs[doc[p]].topic = req[p].topic
        /\ docs[doc[p]].text = req[p].text
        /\ docs[doc[p]].ns = req[p].ns
        /\ \A i \in found[p] : i < doc[p]

NothingFoundYet == \A p \in Procs : pc[p] \in {"idle", "embedding"} => found[p] = {}

RetainIInv ==
    /\ TypeOK
    /\ SuccessorLater
    /\ SupersededByItsOwn
    /\ FoundInScope
    /\ AddedAfterFound
    /\ NothingFoundYet

LEMMA InitRetainIInv == Init => RetainIInv
<1> SUFFICES ASSUME Init PROVE RetainIInv
  OBVIOUS
<1>1. docs \in Seq(Doc) /\ Len(docs) = 0 /\ DOMAIN docs = {}
  BY EmptySeq, LenProperties DEF Init
<1>2. TypeOK
  BY <1>1, MaxDocsAssumption DEF Init, TypeOK, Places, None
<1>3. SuccessorLater /\ SupersededByItsOwn
  BY <1>1 DEF SuccessorLater, SupersededByItsOwn
<1>4. FoundInScope /\ AddedAfterFound /\ NothingFoundYet
  BY DEF Init, FoundInScope, AddedAfterFound, NothingFoundYet
<1> QED
  BY <1>2, <1>3, <1>4 DEF RetainIInv

\* Facts about docs that every case below starts from.
LEMMA DocsType ==
    ASSUME TypeOK
    PROVE  /\ docs \in Seq(Doc) /\ Len(docs) \in Nat
           /\ DOMAIN docs = 1 .. Len(docs)
           /\ \A i \in DOMAIN docs : docs[i] \in Doc
BY LenProperties, ElementOfSeq DEF TypeOK

\* Steps that leave docs alone cannot disturb what is said of docs only.
LEMMA DocsUnchanged ==
    ASSUME SuccessorLater, SupersededByItsOwn, UNCHANGED docs
    PROVE  SuccessorLater' /\ SupersededByItsOwn'
BY DEF SuccessorLater, SupersededByItsOwn

LEMMA BeginIInv ==
    ASSUME RetainIInv, NEW p \in Procs, NEW r \in Request, Begin(p, r)
    PROVE  RetainIInv'
<1>1. TypeOK'
  BY DEF RetainIInv, TypeOK, Begin, At, Places, Retaining
<1>2. SuccessorLater' /\ SupersededByItsOwn'
  BY DocsUnchanged DEF RetainIInv, Begin
<1>3. FoundInScope' /\ AddedAfterFound' /\ NothingFoundYet'
  BY DEF RetainIInv, TypeOK, Begin, At, FoundInScope, AddedAfterFound, NothingFoundYet
<1> QED
  BY <1>1, <1>2, <1>3 DEF RetainIInv

LEMMA DetectIInv ==
    ASSUME RetainIInv, NEW p \in Procs, DetectConflicts(p)
    PROVE  RetainIInv'
<1>1. PICK hits \in Hits(req[p].topic, req[p].ns) :
        found' = [found EXCEPT ![p] =
                     {i \in hits : Live(docs[i]) /\ docs[i].text # req[p].text}]
  BY DEF DetectConflicts
<1>2. hits \subseteq Matching(req[p].topic, req[p].ns)
  BY <1>1 DEF Hits
<1>3. \A i \in hits : /\ i \in DOMAIN docs
                      /\ docs[i].topic = req[p].topic
                      /\ req[p].ns \subseteq docs[i].ns
  BY <1>2 DEF Matching
<1>4. TypeOK'
  BY <1>1, <1>3 DEF RetainIInv, TypeOK, DetectConflicts, At, Places
<1>5. SuccessorLater' /\ SupersededByItsOwn'
  BY DocsUnchanged DEF RetainIInv, DetectConflicts
<1>6. FoundInScope' /\ AddedAfterFound' /\ NothingFoundYet'
  BY <1>1, <1>3 DEF RetainIInv, TypeOK, DetectConflicts, At, FoundInScope, AddedAfterFound,
                    NothingFoundYet
<1> QED
  BY <1>4, <1>5, <1>6 DEF RetainIInv

LEMMA KeepAllIInv ==
    ASSUME RetainIInv, NEW p \in Procs, KeepAll(p)
    PROVE  RetainIInv'
<1>1. TypeOK'
  BY DEF RetainIInv, TypeOK, KeepAll, At, Places
<1>2. SuccessorLater' /\ SupersededByItsOwn'
  BY DocsUnchanged DEF RetainIInv, KeepAll
<1>3. FoundInScope' /\ AddedAfterFound' /\ NothingFoundYet'
  BY DEF RetainIInv, TypeOK, KeepAll, At, FoundInScope, AddedAfterFound, NothingFoundYet
<1> QED
  BY <1>1, <1>2, <1>3 DEF RetainIInv

LEMMA AddIInv ==
    ASSUME RetainIInv, NEW p \in Procs, Add(p)
    PROVE  RetainIInv'
<1> DEFINE d == [topic |-> req[p].topic, text |-> req[p].text,
                 ns |-> req[p].ns, supersededBy |-> None]
<1>1. req[p] \in Request /\ d \in Doc
  BY DEF RetainIInv, TypeOK, Add, Request, Doc, None
<1>2. /\ docs' \in Seq(Doc)
      /\ Len(docs') = Len(docs) + 1
      /\ DOMAIN docs' = DOMAIN docs \union {Len(docs) + 1}
      /\ docs'[Len(docs) + 1] = d
      /\ \A i \in DOMAIN docs : docs'[i] = docs[i]
  BY <1>1, DocsType, AppendDocs DEF RetainIInv, Add
<1>3. /\ Len(docs) \in Nat /\ DOMAIN docs = 1 .. Len(docs)
      /\ \A i \in DOMAIN docs : docs[i] \in Doc
  BY DocsType DEF RetainIInv
<1>4. TypeOK'
  BY <1>1, <1>2, <1>3, MaxDocsAssumption DEF RetainIInv, TypeOK, Add, At, Places
<1>5. SuccessorLater'
  BY <1>2, <1>3 DEF RetainIInv, SuccessorLater, Live
<1>6. SupersededByItsOwn'
  BY <1>2, <1>3 DEF RetainIInv, SuccessorLater, SupersededByItsOwn, Live
<1>7. FoundInScope'
  <2> SUFFICES ASSUME NEW q \in Procs, pc'[q] \in {"adding", "patching", "returning"},
                      NEW i \in found[q]
               PROVE  /\ docs'[i].topic = req[q].topic
                      /\ docs'[i].text # req[q].text
                      /\ req[q].ns \subseteq docs'[i].ns
    BY DEF FoundInScope, Add
  <2>1. pc[q] \in {"adding", "patching", "returning"}
    BY DEF RetainIInv, TypeOK, Add, At
  <2>2. i \in DOMAIN docs /\ docs'[i] = docs[i]
    BY <1>2 DEF RetainIInv, TypeOK
  <2> QED
    BY <2>1, <2>2 DEF RetainIInv, FoundInScope
<1>8. AddedAfterFound'
  BY <1>2, <1>3 DEF RetainIInv, TypeOK, AddedAfterFound, Add, At
<1>9. NothingFoundYet'
  BY DEF RetainIInv, TypeOK, NothingFoundYet, Add, At
<1> QED
  BY <1>4, <1>5, <1>6, <1>7, <1>8, <1>9 DEF RetainIInv

LEMMA PatchIInv ==
    ASSUME RetainIInv, NEW p \in Procs, Patch(p)
    PROVE  RetainIInv'
<1>1. /\ Len(docs) \in Nat /\ DOMAIN docs = 1 .. Len(docs)
      /\ docs \in Seq(Doc) /\ found[p] \subseteq DOMAIN docs
      /\ doc[p] \in DOMAIN docs
  BY DocsType DEF RetainIInv, TypeOK, Patch, AddedAfterFound
<1>2. /\ docs' \in Seq(Doc)
      /\ Len(docs') = Len(docs)
      /\ DOMAIN docs' = DOMAIN docs
      /\ \A i \in DOMAIN docs :
            /\ docs'[i].topic = docs[i].topic
            /\ docs'[i].text = docs[i].text
            /\ docs'[i].ns = docs[i].ns
            /\ docs'[i].supersededBy =
                  IF i \in found[p] THEN doc[p] ELSE docs[i].supersededBy
  BY <1>1, SupersededDocs DEF Patch
<1>3. TypeOK'
  BY <1>2 DEF RetainIInv, TypeOK, Patch, At, Places
<1>4. SuccessorLater'
  BY <1>1, <1>2 DEF RetainIInv, SuccessorLater, AddedAfterFound, Patch, Live
<1>5. SupersededByItsOwn'
  <2>1. ASSUME NEW i \in DOMAIN docs, i \in found[p]
        PROVE  /\ docs[doc[p]].topic = docs[i].topic
               /\ docs[doc[p]].text # docs[i].text
               /\ docs[doc[p]].ns \subseteq docs[i].ns
    BY <2>1 DEF RetainIInv, Patch, FoundInScope, AddedAfterFound
  <2>2. ASSUME NEW i \in DOMAIN docs, ~Live(docs[i])
        PROVE  docs[i].supersededBy \in DOMAIN docs
    BY <1>1, <2>2 DEF RetainIInv, SuccessorLater
  <2>3. ASSUME NEW i \in DOMAIN docs, ~Live(docs'[i])
        PROVE  /\ docs[docs'[i].supersededBy].topic = docs[i].topic
               /\ docs[docs'[i].supersededBy].text # docs[i].text
               /\ docs[docs'[i].supersededBy].ns \subseteq docs[i].ns
               /\ docs'[i].supersededBy \in DOMAIN docs
    <3>1. CASE i \in found[p]
      BY <1>1, <1>2, <2>1, <3>1
    <3>2. CASE i \notin found[p]
      <4>1. docs'[i].supersededBy = docs[i].supersededBy /\ ~Live(docs[i])
        BY <1>2, <2>3, <3>2 DEF Live
      <4> QED
        BY <2>2, <4>1 DEF RetainIInv, SupersededByItsOwn
    <3> QED
      BY <3>1, <3>2
  <2> QED
    BY <1>2, <2>3 DEF SupersededByItsOwn
<1>6. FoundInScope'
  <2> SUFFICES ASSUME NEW q \in Procs, pc'[q] \in {"adding", "patching", "returning"},
                      NEW i \in found[q]
               PROVE  /\ docs'[i].topic = req[q].topic
                      /\ docs'[i].text # req[q].text
                      /\ req[q].ns \subseteq docs'[i].ns
    BY DEF FoundInScope, Patch
  <2>1. pc[q] \in {"adding", "patching", "returning"}
    BY DEF RetainIInv, TypeOK, Patch, At
  <2>2. i \in DOMAIN docs
    BY DEF RetainIInv, TypeOK
  <2> QED
    BY <1>2, <2>1, <2>2 DEF RetainIInv, FoundInScope
<1>7. AddedAfterFound'
  BY <1>2 DEF RetainIInv, TypeOK, AddedAfterFound, Patch, At
<1>8. NothingFoundYet'
  BY DEF RetainIInv, TypeOK, NothingFoundYet, Patch, At
<1> QED
  BY <1>3, <1>4, <1>5, <1>6, <1>7, <1>8 DEF RetainIInv

LEMMA LeaveIInv ==
    ASSUME RetainIInv, NEW p \in Procs, Leave(p), settled' \in SUBSET Request
    PROVE  RetainIInv'
<1>1. TypeOK'
  BY DEF RetainIInv, TypeOK, Leave, Places, None
<1>2. SuccessorLater' /\ SupersededByItsOwn'
  BY DocsUnchanged DEF RetainIInv, Leave
<1>3. FoundInScope' /\ AddedAfterFound' /\ NothingFoundYet'
  BY DEF RetainIInv, TypeOK, Leave, FoundInScope, AddedAfterFound, NothingFoundYet
<1> QED
  BY <1>1, <1>2, <1>3 DEF RetainIInv

LEMMA RecallIInv ==
    ASSUME RetainIInv, NEW p \in Procs, NEW topic \in Topics, NEW ns \in Namespaces,
           Recall(p, topic, ns)
    PROVE  RetainIInv'
<1>1. PICK hits \in Hits(topic, ns) : found' = [found EXCEPT ![p] = hits]
  BY DEF Recall
<1>2. hits \subseteq DOMAIN docs
  BY <1>1 DEF Hits, Matching
<1>3. TypeOK'
  BY <1>1, <1>2 DEF RetainIInv, TypeOK, Recall, At, Places
<1>4. SuccessorLater' /\ SupersededByItsOwn'
  BY DocsUnchanged DEF RetainIInv, Recall
<1>5. FoundInScope' /\ AddedAfterFound' /\ NothingFoundYet'
  BY <1>1 DEF RetainIInv, TypeOK, Recall, At, FoundInScope, AddedAfterFound, NothingFoundYet
<1> QED
  BY <1>3, <1>4, <1>5 DEF RetainIInv

LEMMA StepRetainIInv == RetainIInv /\ [Next]_vars => RetainIInv'
<1> SUFFICES ASSUME RetainIInv, [Next]_vars PROVE RetainIInv'
  OBVIOUS
<1>1. ASSUME NEW p \in Procs, Return(p) \/ Abort(p) \/ Answer(p) PROVE RetainIInv'
  <2>1. Leave(p) /\ settled' \in SUBSET Request
    BY <1>1 DEF Return, Abort, Answer, RetainIInv, TypeOK
  <2> QED
    BY <2>1, LeaveIInv
<1>2. CASE UNCHANGED vars
  BY <1>2 DEF vars, RetainIInv, TypeOK, SuccessorLater, SupersededByItsOwn, FoundInScope,
              AddedAfterFound, NothingFoundYet
<1> QED
  BY <1>1, <1>2, BeginIInv, DetectIInv, KeepAllIInv, AddIInv, PatchIInv, RecallIInv DEF Next

\* The inductive invariant holds of every behaviour.
THEOREM RetainInvariant == Spec => []RetainIInv
BY InitRetainIInv, StepRetainIInv, PTL DEF Spec

\* Every variable keeps its type.
THEOREM RetainTypeOK == Spec => []TypeOK
<1>1. RetainIInv => TypeOK
  BY DEF RetainIInv
<1> QED
  BY <1>1, RetainInvariant, PTL

\* superseded_by never dangles and never closes a circle, under any race, any
\* failed call and any crash.
THEOREM RetainSuccessorLater == Spec => []SuccessorLater
<1>1. RetainIInv => SuccessorLater
  BY DEF RetainIInv
<1> QED
  BY <1>1, RetainInvariant, PTL

\* A document is superseded within its topic and its namespace only.
THEOREM RetainSupersededByItsOwn == Spec => []SupersededByItsOwn
<1>1. RetainIInv => SupersededByItsOwn
  BY DEF RetainIInv
<1> QED
  BY <1>1, RetainInvariant, PTL

LEMMA StepHistoryKept ==
    ASSUME RetainIInv, [Next]_vars
    PROVE  \A i \in DOMAIN docs :
             /\ i \in DOMAIN docs'
             /\ [docs'[i] EXCEPT !.supersededBy = None] = [docs[i] EXCEPT !.supersededBy = None]
             /\ Live(docs'[i]) => Live(docs[i])
<1>1. /\ docs \in Seq(Doc) /\ Len(docs) \in Nat /\ DOMAIN docs = 1 .. Len(docs)
      /\ \A i \in DOMAIN docs : docs[i] \in Doc
  BY DocsType DEF RetainIInv
<1>2. CASE UNCHANGED docs
  BY <1>2
<1>3. ASSUME NEW p \in Procs, Add(p)
      PROVE  \A i \in DOMAIN docs : i \in DOMAIN docs' /\ docs'[i] = docs[i]
  <2> DEFINE d == [topic |-> req[p].topic, text |-> req[p].text,
                   ns |-> req[p].ns, supersededBy |-> None]
  <2>1. d \in Doc
    BY <1>3 DEF RetainIInv, TypeOK, Add, Request, Doc, None
  <2> QED
    BY <1>1, <1>3, <2>1, AppendDocs DEF Add
<1>4. ASSUME NEW p \in Procs, Patch(p), NEW i \in DOMAIN docs
      PROVE  /\ i \in DOMAIN docs'
             /\ [docs'[i] EXCEPT !.supersededBy = None] = [docs[i] EXCEPT !.supersededBy = None]
             /\ Live(docs'[i]) => Live(docs[i])
  <2>1. doc[p] \in DOMAIN docs
    BY <1>4 DEF RetainIInv, AddedAfterFound, Patch
  <2>2. docs' = Superseded(docs, found[p], doc[p])
    BY <1>4 DEF Patch
  <2>3. docs' \in Seq(Doc) /\ DOMAIN docs' = DOMAIN docs
    BY <1>1, <2>1, <2>2, SupersededDocs
  <2>4. docs'[i] = IF i \in found[p] THEN [docs[i] EXCEPT !.supersededBy = doc[p]] ELSE docs[i]
    BY <1>4, <2>2 DEF Superseded
  <2>5. docs[i] \in Doc
    BY <1>1, <1>4
  <2>6. [docs'[i] EXCEPT !.supersededBy = None] = [docs[i] EXCEPT !.supersededBy = None]
    BY <2>4, <2>5 DEF Doc
  <2>7. Live(docs'[i]) => Live(docs[i])
    BY <1>1, <2>1, <2>4, <2>5 DEF Live, None, Doc
  <2> QED
    BY <1>4, <2>3, <2>6, <2>7
<1> QED
  BY <1>2, <1>3, <1>4 DEF Next, vars, Begin, DetectConflicts, KeepAll, Return, Abort, Answer,
                          Leave, Recall

\* No document is ever removed, altered or made valid again.
THEOREM RetainHistoryKept == Spec => HistoryKept
BY RetainInvariant, StepHistoryKept, PTL DEF Spec, HistoryKept

-----------------------------------------------------------------------------
(* LastRetainWins                                                          *)

\* The documents that contradict r, those in f aside, leave room in its scope
\* for k others.
Few(r, f, k) ==
    LET c == Contradicting(r) \ f
    IN c # {} => Cardinality(c) + k <= Cardinality(Matching(r.topic, r.ns))

\* A retain that runs alone is the only one under way.
SoloAlone ==
    \A p \in Procs : solo[p] =>
        Retaining(p) /\ \A q \in Procs \ {p} : ~Retaining(q)

\* What a lone retain has found is all that contradicts it, but for what TopK
\* others crowded out of its search, ...
SoloFound ==
    \A p \in Procs : solo[p] =>
        /\ pc[p] = "adding" => Few(req[p], found[p], TopK)
        /\ pc[p] = "patching" => Few(req[p], found[p], TopK + 1)

\* ... and when it is about to return, the rest is invalidated.
SoloDone ==
    \A p \in Procs : solo[p] /\ pc[p] = "returning" => Few(req[p], {}, TopK + 1)

WInv == SoloAlone /\ SoloFound /\ SoloDone /\ LastRetainWins

\* LastRetainWins is the last form of the same statement.
LEMMA FewLast == LastRetainWins <=> \A r \in settled : Few(r, {}, TopK + 1)
<1>1. \A r : Contradicting(r) \ {} = Contradicting(r)
  OBVIOUS
<1> QED
  BY <1>1 DEF LastRetainWins, Few

LEMMA FewLastNext ==
    (\A r \in settled' : Few(r, {}, TopK + 1)') => LastRetainWins'
<1>1. \A r : Contradicting(r)' \ {} = Contradicting(r)'
  OBVIOUS
<1> QED
  BY <1>1 DEF LastRetainWins, Few

\* The scope of a retain is finite.
LEMMA ScopeFinite ==
    ASSUME TypeOK, NEW r
    PROVE  /\ Matching(r.topic, r.ns) \subseteq DOMAIN docs
           /\ Contradicting(r) \subseteq Matching(r.topic, r.ns)
           /\ IsFiniteSet(Matching(r.topic, r.ns)) /\ IsFiniteSet(Contradicting(r))
           /\ Cardinality(Matching(r.topic, r.ns)) \in Nat
           /\ Cardinality(Contradicting(r)) \in Nat
<1>1. IsFiniteSet(DOMAIN docs)
  BY DocsType, FS_Interval
<1>2. Matching(r.topic, r.ns) \subseteq DOMAIN docs
  BY DEF Matching
<1>3. Contradicting(r) \subseteq Matching(r.topic, r.ns)
  BY DEF Contradicting
<1> QED
  BY <1>1, <1>2, <1>3, FS_Subset, FS_CardinalityType

\* Fewer that contradict, in a scope as large.
LEMMA FewerStill ==
    ASSUME TypeOK, NEW r, NEW f, NEW f2, NEW k \in Nat, Few(r, f, k),
           Matching(r.topic, r.ns)' = Matching(r.topic, r.ns),
           (Contradicting(r)' \ f2) \subseteq Contradicting(r) \ f
    PROVE  LET c == Contradicting(r)' \ f2
           IN c # {} => Cardinality(c) + k <= Cardinality(Matching(r.topic, r.ns)')
<1> DEFINE c == Contradicting(r) \ f  c2 == Contradicting(r)' \ f2
<1>1. IsFiniteSet(c) /\ Cardinality(Matching(r.topic, r.ns)) \in Nat
  BY ScopeFinite, FS_Subset
<1>2. Cardinality(c2) <= Cardinality(c) /\ Cardinality(c) \in Nat /\ Cardinality(c2) \in Nat
  BY <1>1, FS_Subset, FS_CardinalityType
<1>3. c2 # {} => c # {}
  OBVIOUS
<1>4. c # {} => Cardinality(c) + k <= Cardinality(Matching(r.topic, r.ns))
  BY DEF Few
<1>5. c2 # {} => Cardinality(c2) + k <= Cardinality(Matching(r.topic, r.ns))
  BY <1>1, <1>2, <1>3, <1>4
<1> QED
  BY <1>5

\* A search leaves out nothing, or returns TopK of its scope.
LEMMA SearchSees ==
    ASSUME TypeOK, NEW r, NEW h \in Hits(r.topic, r.ns)
    PROVE  Few(r, h \intersect Contradicting(r), TopK)
<1> DEFINE m == Matching(r.topic, r.ns)  c == Contradicting(r) \ (h \intersect Contradicting(r))
<1>1. IsFiniteSet(m) /\ Contradicting(r) \subseteq m /\ Cardinality(m) \in Nat /\ TopK \in Nat
  BY ScopeFinite, TopKAssumption
<1>2. CASE h = m
  BY <1>1, <1>2 DEF Few
<1>3. CASE h \in SUBSET m /\ Cardinality(h) = TopK
  <2>1. Cardinality(m \ h) = Cardinality(m) - Cardinality(m \intersect h) /\ m \intersect h = h
        /\ IsFiniteSet(m \ h)
    BY <1>1, <1>3, FS_Difference
  <2>2. c \subseteq m \ h
    BY <1>1
  <2>3. Cardinality(c) <= Cardinality(m \ h) /\ Cardinality(c) \in Nat
        /\ Cardinality(m \ h) \in Nat
    BY <2>1, <2>2, FS_Subset, FS_CardinalityType
  <2>4. Cardinality(m \ h) = Cardinality(m) - TopK
    BY <1>3, <2>1
  <2>5. Cardinality(c) + TopK <= Cardinality(m)
    <3> DEFINE x == Cardinality(c)  y == Cardinality(m \ h)  z == Cardinality(m)
    <3>1. x \in Nat /\ y \in Nat /\ z \in Nat /\ TopK \in Nat /\ x <= y /\ y = z - TopK
      BY <1>1, <2>3, <2>4
    <3> HIDE DEF x, y, z
    <3>2. x + TopK <= z
      BY <3>1
    <3> QED
      BY <3>2 DEF x, z
  <2> QED
    BY <2>5 DEF Few
<1> QED
  BY <1>2, <1>3 DEF Hits

\* A step that leaves the documents alone.
LEMMA FewKept ==
    ASSUME UNCHANGED docs
    PROVE  \A r : /\ Contradicting(r)' = Contradicting(r)
                   /\ Matching(r.topic, r.ns)' = Matching(r.topic, r.ns)
BY DEF Contradicting, Matching

LEMMA InitWInv == Init => WInv
BY DEF Init, WInv, SoloAlone, SoloFound, SoloDone, LastRetainWins

LEMMA BeginWInv ==
    ASSUME RetainIInv, WInv, NEW p \in Procs, NEW r \in Request, Begin(p, r)
    PROVE  WInv'
<1>1. SoloAlone'
  BY DEF RetainIInv, TypeOK, WInv, SoloAlone, Begin, At, Retaining
<1>2. SoloFound' /\ SoloDone'
  BY DEF RetainIInv, TypeOK, WInv, SoloFound, SoloDone, Begin, At
<1>3. LastRetainWins'
  BY DEF WInv, LastRetainWins, Contradicting, Matching, Begin
<1> QED
  BY <1>1, <1>2, <1>3 DEF WInv

LEMMA DetectWInv ==
    ASSUME RetainIInv, WInv, NEW p \in Procs, DetectConflicts(p)
    PROVE  WInv'
<1>1. PICK hits \in Hits(req[p].topic, req[p].ns) :
         found' = [found EXCEPT ![p] =
                     {i \in hits : Live(docs[i]) /\ docs[i].text # req[p].text}]
  BY DEF DetectConflicts
<1>2. hits \subseteq Matching(req[p].topic, req[p].ns)
  BY DEF Hits
<1>3. found'[p] = hits \intersect Contradicting(req[p])
  BY <1>1, <1>2 DEF RetainIInv, TypeOK, Contradicting
<1>4. Few(req[p], found'[p], TopK)
  BY <1>3, SearchSees DEF RetainIInv
<1>5. SoloAlone'
  BY DEF RetainIInv, TypeOK, WInv, SoloAlone, DetectConflicts, At, Retaining
<1>6. SoloFound'
  <2>1. \A q \in Procs \ {p} : found'[q] = found[q] /\ pc'[q] = pc[q]
    BY <1>1 DEF RetainIInv, TypeOK, DetectConflicts, At
  <2>2. pc'[p] = "adding" /\ docs' = docs /\ req' = req /\ solo' = solo
    BY DEF RetainIInv, TypeOK, DetectConflicts, At
  <2>3. Few(req[p], found[p], TopK)'
    BY <1>4, <2>2, FewKept DEF Few
  <2>4. ASSUME NEW q \in Procs \ {p}, solo[q]
        PROVE  /\ pc[q] = "adding" => Few(req[q], found[q], TopK)'
               /\ pc[q] = "patching" => Few(req[q], found[q], TopK + 1)'
    BY <2>1, <2>2, <2>4, FewKept DEF WInv, SoloFound, Few
  <2> QED
    BY <2>1, <2>2, <2>3, <2>4 DEF SoloFound
<1>7. SoloDone'
  <2> SUFFICES ASSUME NEW q \in Procs, solo[q], pc'[q] = "returning"
               PROVE  Few(req[q], {}, TopK + 1)'
    BY DEF SoloDone, DetectConflicts
  <2>1. pc[q] = "returning" /\ Few(req[q], {}, TopK + 1)
    BY DEF RetainIInv, TypeOK, WInv, SoloDone, DetectConflicts, At
  <2> QED
    BY <2>1, FewKept DEF DetectConflicts, Few
<1>8. LastRetainWins'
  BY FewKept DEF WInv, LastRetainWins, DetectConflicts
<1> QED
  BY <1>5, <1>6, <1>7, <1>8 DEF WInv

LEMMA KeepAllWInv ==
    ASSUME RetainIInv, WInv, NEW p \in Procs, KeepAll(p)
    PROVE  WInv'
BY DEF RetainIInv, TypeOK, WInv, SoloAlone, SoloFound, SoloDone, LastRetainWins, Few,
       Contradicting, Matching, Retaining, KeepAll, At

LEMMA AddWInv ==
    ASSUME RetainIInv, WInv, NEW p \in Procs, Add(p)
    PROVE  WInv'
<1> DEFINE d == [topic |-> req[p].topic, text |-> req[p].text,
                 ns |-> req[p].ns, supersededBy |-> None]
           new == Len(docs) + 1
<1>1. d \in Doc
  BY DEF RetainIInv, TypeOK, Add, Request, Doc, None
<1>2. /\ DOMAIN docs' = DOMAIN docs \union {new}
      /\ docs'[new] = d
      /\ \A i \in DOMAIN docs : docs'[i] = docs[i]
      /\ new \notin DOMAIN docs
  BY <1>1, DocsType, AppendDocs DEF RetainIInv, Add
<1>3. SoloAlone'
  BY DEF RetainIInv, TypeOK, WInv, SoloAlone, Add, At, Retaining
<1>4. SoloFound'
  <2> SUFFICES ASSUME NEW q \in Procs, solo[q]
               PROVE  /\ pc'[q] = "adding" => Few(req[q], found[q], TopK)'
                      /\ pc'[q] = "patching" => Few(req[q], found[q], TopK + 1)'
    BY DEF SoloFound, Add
  <2>1. q = p /\ pc[q] = "adding" /\ pc'[q] = "patching"
    BY DEF RetainIInv, TypeOK, WInv, SoloAlone, Retaining, Add, At
  <2> DEFINE r == req[p]  m == Matching(r.topic, r.ns)  c == Contradicting(r) \ found[p]
  <2>2. Matching(r.topic, r.ns)' = m \union {new}
    BY <1>2 DEF Matching, Add
  <2>3. Contradicting(r)' = Contradicting(r)
    BY <1>2, <2>2 DEF Contradicting, Matching, Add
  <2>4. IsFiniteSet(m) /\ IsFiniteSet(c) /\ Cardinality(m) \in Nat /\ Cardinality(c) \in Nat
        /\ new \notin m
    BY <1>2, ScopeFinite, FS_Subset, FS_CardinalityType DEF RetainIInv
  <2>5. Cardinality(m \union {new}) = Cardinality(m) + 1
    BY <2>4, FS_AddElement
  <2>6. c # {} => Cardinality(c) + TopK <= Cardinality(m)
    BY <2>1 DEF WInv, SoloFound, Few
  <2>7. c # {} => Cardinality(c) + (TopK + 1) <= Cardinality(m \union {new})
    BY <2>4, <2>5, <2>6, TopKAssumption
  <2>8. Few(r, found[p], TopK + 1)'
    BY <2>2, <2>3, <2>7 DEF Few, Add
  <2> QED
    BY <2>1, <2>8
<1>5. SoloDone'
  BY DEF RetainIInv, TypeOK, WInv, SoloAlone, SoloDone, Retaining, Add, At
<1>6. LastRetainWins'
  <2> SUFFICES ASSUME NEW r \in settled, r.topic # req[p].topic
               PROVE  (Contradicting(r) # {} =>
                         Cardinality(Contradicting(r)) + (TopK + 1)
                            <= Cardinality(Matching(r.topic, r.ns)))'
    BY DEF LastRetainWins, Add
  <2>1. Matching(r.topic, r.ns)' = Matching(r.topic, r.ns)
    BY <1>2 DEF Matching
  <2>2. Contradicting(r)' = Contradicting(r)
    BY <1>2, <2>1 DEF Contradicting, Matching
  <2> QED
    BY <2>1, <2>2 DEF WInv, LastRetainWins
<1> QED
  BY <1>3, <1>4, <1>5, <1>6 DEF WInv

LEMMA PatchWInv ==
    ASSUME RetainIInv, WInv, NEW p \in Procs, Patch(p)
    PROVE  WInv'
<1>1. /\ doc[p] \in DOMAIN docs /\ DOMAIN docs = 1 .. Len(docs) /\ Len(docs) \in Nat
      /\ docs \in Seq(Doc)
  BY DocsType DEF RetainIInv, AddedAfterFound, Patch
<1>2. /\ DOMAIN docs' = DOMAIN docs
      /\ \A i \in DOMAIN docs :
            /\ docs'[i].topic = docs[i].topic
            /\ docs'[i].text = docs[i].text
            /\ docs'[i].ns = docs[i].ns
            /\ docs'[i].supersededBy =
                  IF i \in found[p] THEN doc[p] ELSE docs[i].supersededBy
  BY <1>1, SupersededDocs DEF Patch
<1>3. \A i \in DOMAIN docs : Live(docs'[i]) => Live(docs[i]) /\ i \notin found[p]
  BY <1>1, <1>2 DEF Live, None
<1>4. ASSUME NEW r
      PROVE  /\ Matching(r.topic, r.ns)' = Matching(r.topic, r.ns)
             /\ Contradicting(r)' \subseteq Contradicting(r) \ found[p]
  <2>1. Matching(r.topic, r.ns)' = Matching(r.topic, r.ns)
        /\ Matching(r.topic, r.ns) \subseteq DOMAIN docs
    BY <1>2 DEF Matching
  <2> QED
    BY <1>2, <1>3, <2>1 DEF Contradicting
<1>5. SoloAlone'
  BY DEF RetainIInv, TypeOK, WInv, SoloAlone, Patch, At, Retaining
<1>6. SoloFound'
  <2> SUFFICES ASSUME NEW q \in Procs, solo[q], pc'[q] \in {"adding", "patching"}
               PROVE  FALSE
    BY DEF SoloFound, Patch
  <2> QED
    BY DEF RetainIInv, TypeOK, WInv, SoloAlone, Retaining, Patch, At
<1>7. SoloDone'
  <2> SUFFICES ASSUME NEW q \in Procs, solo[q], pc'[q] = "returning"
               PROVE  Few(req[q], {}, TopK + 1)'
    BY DEF SoloDone, Patch
  <2>1. q = p /\ Few(req[p], found[p], TopK + 1)
    BY DEF RetainIInv, TypeOK, WInv, SoloAlone, SoloFound, Retaining, Patch, At
  <2>3. PICK r : r = req[p]
    OBVIOUS
  <2>4. /\ Few(r, found[p], TopK + 1) /\ TopK + 1 \in Nat
        /\ Matching(r.topic, r.ns)' = Matching(r.topic, r.ns)
        /\ (Contradicting(r)' \ {}) \subseteq Contradicting(r) \ found[p]
    BY <1>4, <2>1, <2>3, TopKAssumption
  <2>5. Few(r, {}, TopK + 1)'
    BY <2>4, FewerStill DEF RetainIInv, Few
  <2>6. r = req'[q]
    BY <2>1, <2>3 DEF Patch
  <2> QED
    BY <2>5, <2>6 DEF Few, Contradicting, Matching
<1>8. LastRetainWins'
  <2> SUFFICES ASSUME NEW r \in settled
               PROVE  Few(r, {}, TopK + 1)'
    BY FewLastNext DEF Patch
  <2>1. Few(r, {}, TopK + 1)
    BY FewLast DEF WInv
  <2>2. (Contradicting(r)' \ {}) \subseteq Contradicting(r) \ {}
    BY <1>4
  <2>3. TopK + 1 \in Nat /\ Matching(r.topic, r.ns)' = Matching(r.topic, r.ns)
    BY <1>4, TopKAssumption
  <2>4. LET c == Contradicting(r)' \ {}
        IN c # {} => Cardinality(c) + (TopK + 1) <= Cardinality(Matching(r.topic, r.ns)')
    BY <2>1, <2>2, <2>3, FewerStill DEF RetainIInv
  <2> QED
    BY <2>4 DEF Few
<1> QED
  BY <1>5, <1>6, <1>7, <1>8 DEF WInv

LEMMA LeaveWInv ==
    ASSUME RetainIInv, WInv, NEW p \in Procs, Return(p) \/ Abort(p) \/ Answer(p)
    PROVE  WInv'
<1>1. Leave(p)
  BY DEF Return, Abort, Answer
<1>2. /\ docs' = docs /\ ~solo'[p]
      /\ \A q \in Procs \ {p} : pc'[q] = pc[q] /\ req'[q] = req[q] /\ found'[q] = found[q]
                                /\ solo'[q] = solo[q]
  BY <1>1 DEF Leave, RetainIInv, TypeOK
<1>3. \A r : Contradicting(r)' = Contradicting(r)
             /\ Matching(r.topic, r.ns)' = Matching(r.topic, r.ns)
  BY <1>2 DEF Contradicting, Matching
<1>4. SoloAlone'
  BY <1>1 DEF RetainIInv, TypeOK, WInv, SoloAlone, Retaining, Leave
<1>5. SoloFound' /\ SoloDone'
  BY <1>2, <1>3 DEF WInv, SoloFound, SoloDone, Few
<1>6. ASSUME NEW r \in settled' PROVE r \in settled \/ (solo[p] /\ pc[p] = "returning" /\ r = req[p])
  BY <1>6 DEF Return, Abort, Answer
<1>7. LastRetainWins'
  <2>1. \A r \in settled' : Few(r, {}, TopK + 1)
    BY <1>6, FewLast DEF WInv, SoloDone
  <2>2. ASSUME NEW r \in settled' PROVE Few(r, {}, TopK + 1)'
    BY <1>3, <2>1 DEF Few
  <2> QED
    BY <2>2, FewLastNext
<1> QED
  BY <1>4, <1>5, <1>7 DEF WInv

LEMMA RecallWInv ==
    ASSUME RetainIInv, WInv, NEW p \in Procs, NEW topic \in Topics, NEW ns \in Namespaces,
           Recall(p, topic, ns)
    PROVE  WInv'
<1>1. pc' = [pc EXCEPT ![p] = "recalled"] /\ UNCHANGED <<docs, req, solo, settled>>
  BY DEF Recall, At
<1>2. \A q \in Procs \ {p} : found'[q] = found[q] /\ pc'[q] = pc[q]
  BY DEF Recall, At, RetainIInv, TypeOK
<1>3. SoloAlone'
  BY <1>1 DEF RetainIInv, TypeOK, WInv, SoloAlone, Retaining, Recall
<1>4. SoloFound' /\ SoloDone'
  <2>1. pc'[p] = "recalled"
    BY <1>1 DEF RetainIInv, TypeOK
  <2> SUFFICES ASSUME NEW q \in Procs \ {p}, solo[q]
               PROVE  /\ pc[q] = "adding" => Few(req[q], found[q], TopK)'
                      /\ pc[q] = "patching" => Few(req[q], found[q], TopK + 1)'
                      /\ pc[q] = "returning" => Few(req[q], {}, TopK + 1)'
    BY <1>1, <1>2, <2>1 DEF SoloFound, SoloDone
  <2> QED
    BY <1>1, <1>2, FewKept DEF WInv, SoloFound, SoloDone, Few
<1>5. LastRetainWins'
  BY <1>1, FewKept DEF WInv, LastRetainWins
<1> QED
  BY <1>3, <1>4, <1>5 DEF WInv

LEMMA StepWInv == RetainIInv /\ WInv /\ [Next]_vars => WInv'
<1> SUFFICES ASSUME RetainIInv, WInv, [Next]_vars PROVE WInv'
  OBVIOUS
<1>1. CASE UNCHANGED vars
  <2>1. SoloAlone' /\ SoloFound' /\ SoloDone'
    BY <1>1, FewKept DEF vars, WInv, SoloAlone, SoloFound, SoloDone, Few, Retaining
  <2>2. LastRetainWins'
    BY <1>1, FewKept DEF vars, WInv, LastRetainWins
  <2> QED
    BY <2>1, <2>2 DEF WInv
<1> QED
  BY <1>1, BeginWInv, DetectWInv, KeepAllWInv, AddWInv, PatchWInv, LeaveWInv, RecallWInv DEF Next

\* A retain that ran alone has the last word on its topic, whatever crashes and
\* races came before, but for what TopK others crowded out of its search.
THEOREM RetainLastWins == Spec => []LastRetainWins
<1>1. WInv => LastRetainWins
  BY DEF WInv
<1> QED
  BY <1>1, InitWInv, StepWInv, RetainInvariant, PTL DEF Spec

-----------------------------------------------------------------------------
(* Part 2.1.  What a call was told is done is in the file, while calls do  *)
(* not overlap.                                                            *)

Underway == \A o \in Busy : /\ o \in writes[o].did
                            /\ ipc[o] = "emptied" => Exists(target[o])

\* In the file, unless the one call in progress has emptied it; then in what that
\* call is about to write.
Kept(o) ==
    /\ Exists(target[o])
    /\ \A b \in Busy : target[b] = target[o] => o \in writes[b].did
    /\ \/ o \in file[target[o]].did
       \/ \E b \in Busy : target[b] = target[o] /\ ipc[b] = "emptied"

InTurn ==
    in_turn => /\ \A o, b \in Busy : o = b
               /\ \A o \in Ops : ipc[o] = "done" /\ target[o] \in IssueIds \ cut => Kept(o)

IssueIInv == IssueTypeOK /\ Underway /\ InTurn

LEMMA NoTextType == NoText \in Text
BY OpsAssumption DEF NoText, Text, Statuses

\* Every change keeps what the text holds and adds the call.
LEMMA ChangedType ==
    ASSUME NEW o \in Ops, OpKind[o] \notin {"create", "open"}, NEW t \in Text
    PROVE  Changed(o, t) \in Text /\ Changed(o, t).did = t.did \union {o}
<1>1. OpKind[o] \in {"comment", "setStatus", "assign", "close", "resolve"}
  BY OpsAssumption DEF Kinds
<1>2. SetStatus(o, t) \in Text /\ SetStatus(o, t).did = t.did \union {o}
  BY OpsAssumption DEF SetStatus, Text, Statuses, Closing
<1>3. Append1(o, t) \in Text /\ Append1(o, t).did = t.did \union {o}
  BY DEF Append1, Text
<1>4. Close(o, t) \in Text /\ Close(o, t).did = t.did \union {o}
  BY DEF Close, Text, Statuses
<1>5. Resolve(o, t) \in Text /\ Resolve(o, t).did = t.did \union {o}
  BY DEF Resolve, Text
<1> QED
  BY <1>1, <1>2, <1>3, <1>4, <1>5 DEF Changed

LEMMA IssueInitInv == IssueInit => IssueIInv
<1> SUFFICES ASSUME IssueInit PROVE IssueIInv
  OBVIOUS
<1>1. IssueTypeOK
  BY NoTextType, OpsAssumption DEF IssueInit, IssueTypeOK
<1>2. Busy = {}
  BY DEF IssueInit, Busy
<1>3. Underway /\ InTurn
  BY <1>2 DEF IssueInit, Underway, InTurn
<1> QED
  BY <1>1, <1>3 DEF IssueIInv

\* A call begins to write a text that holds it and what the file holds.
LEMMA BeginKeeps ==
    ASSUME IssueIInv, NEW o \in Ops, MayBegin(o), NEW i \in Ids, NEW t \in Text,
           GoWrite(o, i, t), o \in t.did,
           i \in IssueIds => (Exists(i) => file[i].did \subseteq t.did)
    PROVE  IssueIInv'
<1>1. IssueTypeOK /\ Underway /\ InTurn
  BY DEF IssueIInv
<1>2. IssueTypeOK'
  BY <1>1 DEF GoWrite, IssueTypeOK
<1>3. /\ ipc'[o] = "write" /\ writes'[o] = t /\ target'[o] = i
      /\ \A p \in Ops \ {o} :
            ipc'[p] = ipc[p] /\ writes'[p] = writes[p] /\ target'[p] = target[p]
      /\ UNCHANGED <<file, in_turn, crashes, cut>>
  BY <1>1 DEF GoWrite, IssueTypeOK
<1>4. Busy' = Busy \union {o} /\ o \notin Busy
  BY <1>3 DEF Busy, MayBegin
<1>5. Underway'
  BY <1>1, <1>3, <1>4 DEF Underway, Exists, Busy
<1>6. InTurn'
  <2> SUFFICES ASSUME in_turn
               PROVE  /\ \A p, b \in Busy' : p = b
                      /\ \A p \in Ops : ipc'[p] = "done" /\ target'[p] \in IssueIds \ cut' => Kept(p)'
    BY <1>3 DEF InTurn
  <2>1. Busy = {} /\ Busy' = {o}
    BY <1>4 DEF MayBegin
  <2>2. ASSUME NEW p \in Ops, ipc'[p] = "done", target'[p] \in IssueIds \ cut'
        PROVE  Kept(p)'
    <3>1. p # o /\ ipc[p] = "done" /\ target'[p] = target[p] /\ target[p] \in IssueIds \ cut
      BY <1>3, <2>2
    <3>2. Exists(target[p]) /\ p \in file[target[p]].did
      BY <1>1, <2>1, <3>1 DEF InTurn, Kept
    <3>3. i = target[p] => p \in t.did
      BY <3>1, <3>2
    <3> QED
      BY <1>3, <2>1, <3>1, <3>2, <3>3 DEF Kept, Exists
  <2> QED
    BY <2>1, <2>2
<1> QED
  BY <1>2, <1>5, <1>6 DEF IssueIInv

LEMMA BeginStep ==
    ASSUME IssueIInv, NEW o \in Ops, Create(o) \/ Open(o) \/ Update(o)
    PROVE  IssueIInv'
<1>1. CASE Create(o)
  <2>1. PICK i \in IssueIds : /\ ~Exists(i)
                             /\ GoWrite(o, i, [NoText EXCEPT !.did = {o}])
    BY <1>1 DEF Create
  <2>2. [NoText EXCEPT !.did = {o}] \in Text /\ o \in [NoText EXCEPT !.did = {o}].did
    BY NoTextType DEF NoText, Text, Statuses
  <2> QED
    BY <1>1, <2>1, <2>2, BeginKeeps, OpsAssumption DEF Create
<1>2. CASE Open(o)
  <2> DEFINE t == [NoText EXCEPT !.status = "stable", !.did = {o}]
  <2>1. t \in Text /\ o \in t.did
    BY NoTextType DEF NoText, Text, Statuses
  <2>2. OpId[o] \in Ids \ IssueIds
    BY <1>2, OpsAssumption, OpIdAssumption DEF Open
  <2> QED
    BY <1>2, <2>1, <2>2, BeginKeeps DEF Open
<1>3. CASE Update(o)
  <2>1. CASE End(o, "ended")
    <3>1. IssueTypeOK /\ Underway /\ InTurn
      BY DEF IssueIInv
    <3>2. IssueTypeOK'
      BY <2>1, <3>1 DEF End, IssueTypeOK
    <3>3. /\ ipc'[o] = "ended" /\ \A p \in Ops \ {o} : ipc'[p] = ipc[p]
          /\ ipc[o] = "idle"
          /\ UNCHANGED <<file, target, writes, in_turn, crashes, cut>>
      BY <1>3, <2>1, <3>1 DEF End, IssueTypeOK, Update, MayBegin
    <3>4. Busy' = Busy
      BY <3>3 DEF Busy
    <3>5. Underway'
      BY <3>1, <3>3, <3>4 DEF Underway, Exists, Busy
    <3>6. \A p \in Ops : Kept(p) => Kept(p)'
      BY <3>3, <3>4 DEF Kept, Exists, Busy
    <3>7. InTurn'
      BY <3>1, <3>3, <3>4, <3>6 DEF InTurn
    <3> QED
      BY <3>2, <3>5, <3>7 DEF IssueIInv
  <2>2. CASE Readable(OpId[o]) /\ GoWrite(o, OpId[o], Changed(o, file[OpId[o]]))
    <3>1. OpId[o] \in Ids /\ file[OpId[o]] \in Text
      BY <2>2, OpsAssumption DEF Readable, Exists, IssueIInv, IssueTypeOK
    <3>2. /\ Changed(o, file[OpId[o]]) \in Text
          /\ Changed(o, file[OpId[o]]).did = file[OpId[o]].did \union {o}
      BY <1>3, <3>1, ChangedType DEF Update
    <3> QED
      BY <1>3, <2>2, <3>1, <3>2, BeginKeeps DEF Update
  <2> QED
    BY <1>3, <2>1, <2>2 DEF Update
<1> QED
  BY <1>1, <1>2, <1>3

LEMMA EmptyStep ==
    ASSUME IssueIInv, NEW o \in Ops, Empty(o)
    PROVE  IssueIInv'
<1> DEFINE torn == [NoText EXCEPT !.torn = TRUE, !.rev = Rev(target[o]) + 1]
<1>1. IssueTypeOK /\ Underway /\ InTurn /\ ipc[o] = "write" /\ target[o] \in Ids
  BY DEF IssueIInv, IssueTypeOK, Empty
<1>2. Rev(target[o]) \in Nat
  BY <1>1 DEF Rev, Exists, IssueTypeOK, Text
<1>3. torn \in Text /\ torn # NoFile
  <2>1. torn \in Text
    <3>1. Rev(target[o]) + 1 \in Nat
      BY <1>2
    <3> QED
      BY <3>1, NoTextType DEF Text
  <2> QED
    BY <2>1, NoFileAssumption
<1>4. /\ file'[target[o]] = torn
      /\ \A i \in Ids \ {target[o]} : file'[i] = file[i]
      /\ ipc'[o] = "emptied" /\ \A p \in Ops \ {o} : ipc'[p] = ipc[p]
      /\ UNCHANGED <<target, writes, in_turn, crashes, cut>>
  BY <1>1 DEF Empty, IssueTypeOK
<1> HIDE DEF torn
<1>5. IssueTypeOK'
  BY <1>1, <1>3 DEF Empty, IssueTypeOK, torn
<1>6. Busy' = Busy /\ o \in Busy
  BY <1>1, <1>4 DEF Busy
<1>7. \A i \in Ids : Exists(i) => Exists(i)'
  BY <1>3, <1>4 DEF Exists
<1>8. Underway'
  <2>1. Exists(target[o])'
    BY <1>3, <1>4 DEF Exists
  <2> QED
    BY <1>1, <1>4, <1>6, <1>7, <2>1 DEF Underway, Busy, IssueTypeOK
<1>9. InTurn'
  <2>1. ASSUME NEW p \in Ops, in_turn, Kept(p) PROVE Kept(p)'
    <3>1. target[p] \in Ids /\ Exists(target[p])'
      BY <1>1, <1>4, <1>7, <2>1 DEF Kept, IssueTypeOK, Exists
    <3>2. CASE target[p] = target[o]
      BY <1>4, <1>6, <2>1, <3>1, <3>2 DEF Kept, Exists
    <3>3. CASE target[p] # target[o]
      BY <1>4, <1>6, <2>1, <3>1, <3>3 DEF Kept, Exists, Busy
    <3> QED
      BY <3>2, <3>3
  <2>2. \A p \in Ops : ipc'[p] = "done" => ipc[p] = "done"
    BY <1>4
  <2> QED
    BY <1>1, <1>4, <1>6, <2>1, <2>2 DEF InTurn
<1> QED
  BY <1>5, <1>8, <1>9 DEF IssueIInv

LEMMA FillStep ==
    ASSUME IssueIInv, NEW o \in Ops, Fill(o)
    PROVE  IssueIInv'
<1> DEFINE new == [writes[o] EXCEPT !.torn = FALSE, !.rev = Rev(target[o])]
<1>1. /\ IssueTypeOK /\ Underway /\ InTurn
      /\ ipc[o] = "emptied" /\ target[o] \in Ids /\ writes[o] \in Text
  BY DEF IssueIInv, IssueTypeOK, Fill
<1>2. Rev(target[o]) \in Nat
  BY <1>1 DEF Rev, Exists, IssueTypeOK, Text
<1>3. new \in Text /\ new # NoFile /\ new.did = writes[o].did
  BY <1>1, <1>2, NoFileAssumption DEF Text
<1>4. /\ file'[target[o]] = new
      /\ \A i \in Ids \ {target[o]} : file'[i] = file[i]
      /\ ipc'[o] = "done" /\ \A p \in Ops \ {o} : ipc'[p] = ipc[p]
      /\ \A p \in Ops \ {o} : writes'[p] = writes[p]
      /\ UNCHANGED <<target, in_turn, crashes, cut>>
  BY <1>1 DEF Fill, IssueTypeOK
<1> HIDE DEF new
<1>5. IssueTypeOK'
  BY <1>1, <1>3, NoTextType DEF Fill, IssueTypeOK, new
<1>6. Busy' = Busy \ {o} /\ o \in Busy
  BY <1>1, <1>4 DEF Busy
<1>7. \A i \in Ids : Exists(i) => Exists(i)'
  BY <1>3, <1>4 DEF Exists
<1>8. Underway'
  BY <1>1, <1>4, <1>6, <1>7 DEF Underway, Busy, IssueTypeOK
<1>9. InTurn'
  <2> SUFFICES ASSUME in_turn
               PROVE  /\ \A p, b \in Busy' : p = b
                      /\ \A p \in Ops : ipc'[p] = "done" /\ target'[p] \in IssueIds \ cut' => Kept(p)'
    BY <1>4 DEF InTurn
  <2>1. Busy = {o} /\ Busy' = {}
    BY <1>1, <1>6 DEF InTurn
  <2>2. ASSUME NEW p \in Ops, ipc'[p] = "done", target[p] \in IssueIds \ cut
        PROVE  Kept(p)'
    <3>1. CASE p = o
      BY <1>1, <1>3, <1>4, <2>1, <3>1 DEF Kept, Underway, Exists
    <3>2. CASE p # o
      <4>1. Kept(p) /\ target[p] \in Ids
        BY <1>1, <1>4, <2>2, <3>2 DEF InTurn, IssueTypeOK
      <4> QED
        BY <1>3, <1>4, <1>7, <2>1, <4>1 DEF Kept, Exists
    <3> QED
      BY <3>1, <3>2
  <2> QED
    BY <1>4, <2>1, <2>2
<1> QED
  BY <1>5, <1>8, <1>9 DEF IssueIInv

LEMMA CrashStep == IssueIInv /\ Crash => IssueIInv'
<1> SUFFICES ASSUME IssueIInv, Crash PROVE IssueIInv'
  OBVIOUS
<1>1. IssueTypeOK /\ Underway /\ InTurn
  BY DEF IssueIInv
<1>2. IssueTypeOK'
  BY <1>1, NoTextType, OpsAssumption DEF Crash, IssueTypeOK, Busy
<1>3. /\ \A o \in Ops : ipc'[o] = IF o \in Busy THEN "ended" ELSE ipc[o]
      /\ UNCHANGED <<file, target, in_turn>>
      /\ cut \subseteq cut'
      /\ \A b \in Busy : ipc[b] = "emptied" => target[b] \in cut'
  BY DEF Crash, Busy
<1>4. Busy' = {}
  BY <1>3 DEF Busy
<1>5. Underway'
  BY <1>4 DEF Underway
<1>6. InTurn'
  <2>1. ASSUME NEW o \in Ops, in_turn, ipc'[o] = "done", target[o] \in IssueIds \ cut'
        PROVE  Exists(target[o]) /\ o \in file[target[o]].did
    <3>1. Kept(o)
      BY <1>1, <1>3, <2>1 DEF InTurn
    <3> QED
      BY <1>3, <2>1, <3>1 DEF Kept
  <2> QED
    BY <1>3, <1>4, <2>1 DEF InTurn, Kept, Exists
<1> QED
  BY <1>2, <1>5, <1>6 DEF IssueIInv

LEMMA IssueUnchanged == IssueIInv /\ UNCHANGED issueVars => IssueIInv'
<1> SUFFICES ASSUME IssueIInv, UNCHANGED issueVars PROVE IssueIInv'
  OBVIOUS
<1>1. UNCHANGED <<file, ipc, target, writes, in_turn, crashes, cut>> /\ Busy' = Busy
  BY DEF issueVars, Busy
<1>2. IssueTypeOK' /\ Underway'
  BY <1>1 DEF IssueIInv, IssueTypeOK, Underway, Exists
<1>3. \A o \in Ops : Kept(o) => Kept(o)'
  BY <1>1 DEF Kept, Exists
<1>4. InTurn'
  BY <1>1, <1>3 DEF IssueIInv, InTurn
<1> QED
  BY <1>2, <1>4 DEF IssueIInv

LEMMA IssueStepInv ==
    ASSUME IssueIInv, NEW S \in SUBSET Ops, IssueStep(S)
    PROVE  IssueIInv'
BY BeginStep, EmptyStep, FillStep, CrashStep DEF IssueStep

LEMMA KnowledgeIssueInv == KnowledgeSpec => []IssueIInv
<1>1. KnowledgeInit => IssueIInv
  BY IssueInitInv DEF KnowledgeInit
<1>2. IssueIInv /\ [KnowledgeNext]_<<issueVars, atomicVars, side>> => IssueIInv'
  <2> SUFFICES ASSUME IssueIInv, [KnowledgeNext]_<<issueVars, atomicVars, side>>
               PROVE  IssueIInv'
    OBVIOUS
  <2>1. CASE IssueStep(Ops) \/ IssueStep(Beside)
    BY <2>1, IssueStepInv, BesideAssumption
  <2>2. CASE UNCHANGED issueVars
    BY <2>2, IssueUnchanged
  <2> QED
    BY <2>1, <2>2 DEF KnowledgeNext, IssueNext
<1> QED
  BY <1>1, <1>2, PTL DEF KnowledgeSpec

\* Files, and what calls are about to write, keep their types.
THEOREM IssueTypes == KnowledgeSpec => []IssueTypeOK
<1>1. IssueIInv => IssueTypeOK
  BY DEF IssueIInv
<1> QED
  BY <1>1, KnowledgeIssueInv, PTL

\* While calls do not overlap, what one was told is done stays in the file,
\* unless a crash fell between the emptying and the filling of it.
THEOREM IssueInTurn == KnowledgeSpec => []InTurnNothingIsLost
<1>1. IssueIInv => InTurnNothingIsLost
  BY DEF IssueIInv, InTurn, Kept, InTurnNothingIsLost
<1> QED
  BY <1>1, KnowledgeIssueInv, PTL

-----------------------------------------------------------------------------
(* Part 2.2.  The layer's rows are those of the index when it goes by the  *)
(* index's time, and its bodies, but late ones, no older than its rows.     *)

OneRowEach(R) == \A r, s \in R : r.id = s.id => r = s

\* No file gives two rows.
OneRow ==
    /\ OneRowEach(rows) /\ (index # NoIndex => OneRowEach(index))
    /\ \A l \in Lookups : OneRowEach(fresh[l])
    /\ rpc = "reading" => \A r \in rows : r.id \notin todo

\* While no index is written during a load: what is loaded is the index, and only
\* a later index has a later time.
Current ==
    apart =>
        /\ indexMtime <= mtime
        /\ loaded /\ index # NoIndex /\ indexMtime = mtime => entries = index
        /\ rpc = "emptied" =>
              indexMtime < mtime /\ \A l \in Lookups : lpc[l] \notin {"install", "mtime"}
        /\ \A l \in Lookups :
              /\ lpc[l] = "install" => index # NoIndex /\ fresh[l] = index
              /\ lpc[l] = "mtime" => index # NoIndex /\ loaded /\ entries = index

Past(R) == \A r \in R : r.rev <= Rev(r.id)

\* A row was made from a text that its file has had.
RowsPast ==
    /\ Past(rows) /\ Past(entries) /\ (index # NoIndex => Past(index))
    /\ \A l \in Lookups : Past(fresh[l])

NewEnough(body, R) == body # NoBody => \A r \in R : body >= r.rev

\* A kept body is as new as the row it would go with, unless it was late; a body
\* just read is, unless a load has come since; and the text a body will be read
\* from is at least that new.
Bodies ==
    /\ \A i \in Ids \ late : NewEnough(bodies[i], RowsOf(i))
    /\ \A l \in Lookups \ misled : NewEnough(note[l].body, note[l].row)
    /\ \A l \in Lookups : lpc[l] = "body" => \A r \in note[l].row : r.rev <= Rev(wants[l])
    /\ \A l \in Lookups \ overtaken :
          lpc[l] = "keep" => NewEnough(note[l].body, RowsOf(wants[l]))

AtomicIInv == AtomicTypeOK /\ OneRow /\ Current /\ RowsPast /\ Bodies

LEMMA RevType == ASSUME IssueTypeOK, NEW i \in Ids PROVE Rev(i) \in Nat
BY DEF IssueTypeOK, Rev, Exists, Text

LEMMA RowsFromType ==
    ASSUME IssueTypeOK, NEW i \in Ids
    PROVE  /\ RowsFrom(i) \subseteq Row /\ OneRowEach(RowsFrom(i)) /\ Past(RowsFrom(i))
           /\ \A r \in RowsFrom(i) : r.id = i
BY DEF IssueTypeOK, RowsFrom, Row, Readable, Exists, Text, OneRowEach, Past, Rev

\* A file's rev never falls.
LEMMA RevGrows ==
    ASSUME IssueIInv, NEW S \in SUBSET Ops, IssueStep(S), NEW i \in Ids
    PROVE  Rev(i) <= Rev(i)'
<1>1. Rev(i) \in Nat /\ IssueTypeOK
  BY RevType DEF IssueIInv
<1>2. CASE file' = file
  BY <1>1, <1>2 DEF Rev, Exists
<1>3. ASSUME NEW o \in Ops, Empty(o) PROVE Rev(i) <= Rev(i)'
  <2>1. target[o] \in Ids /\ Rev(target[o]) \in Nat
    BY <1>1, RevType DEF IssueTypeOK
  <2>2. file'[i] = IF i = target[o]
                   THEN [NoText EXCEPT !.torn = TRUE, !.rev = Rev(target[o]) + 1]
                   ELSE file[i]
    BY <1>1, <1>3, <2>1 DEF Empty, IssueTypeOK
  <2>3. [NoText EXCEPT !.torn = TRUE, !.rev = Rev(target[o]) + 1] \in Text
    <3>1. Rev(target[o]) + 1 \in Nat
      BY <2>1
    <3> QED
      BY <3>1, NoTextType DEF Text
  <2>4. [NoText EXCEPT !.torn = TRUE, !.rev = Rev(target[o]) + 1].rev = Rev(target[o]) + 1
    BY DEF NoText
  <2>5. CASE i = target[o]
    BY <1>1, <2>1, <2>2, <2>3, <2>4, <2>5, NoFileAssumption DEF Rev, Exists
  <2>6. CASE i # target[o]
    BY <1>1, <2>2, <2>6 DEF Rev, Exists
  <2> QED
    BY <2>5, <2>6
<1>4. ASSUME NEW o \in Ops, Fill(o) PROVE Rev(i) <= Rev(i)'
  <2> DEFINE new == [writes[o] EXCEPT !.torn = FALSE, !.rev = Rev(target[o])]
  <2>1. target[o] \in Ids /\ Rev(target[o]) \in Nat /\ writes[o] \in Text
    BY <1>1, RevType DEF IssueTypeOK
  <2>2. new \in Text /\ new.rev = Rev(target[o])
    BY <2>1 DEF Text
  <2>3. file'[i] = IF i = target[o] THEN new ELSE file[i]
    BY <1>1, <1>4, <2>1 DEF Fill, IssueTypeOK
  <2> HIDE DEF new
  <2>4. CASE i = target[o]
    BY <1>1, <2>1, <2>2, <2>3, <2>4, NoFileAssumption DEF Rev, Exists
  <2>5. CASE i # target[o]
    BY <1>1, <2>3, <2>5 DEF Rev, Exists
  <2> QED
    BY <2>4, <2>5
<1> QED
  BY <1>2, <1>3, <1>4 DEF IssueStep, Create, Open, Update, Crash, GoWrite, End

LEMMA AtomicInitInv == AtomicInit => AtomicIInv
<1> SUFFICES ASSUME AtomicInit PROVE AtomicIInv
  OBVIOUS
<1>1. AtomicTypeOK
  <2>1. NoNote \in [row : SUBSET Row, body : Nat \union {NoBody}]
    BY DEF NoNote
  <2>2. /\ lpc \in [Lookups -> LookupPlaces] /\ wants \in [Lookups -> Ids]
        /\ fresh \in [Lookups -> SUBSET Row]
        /\ note \in [Lookups -> [row : SUBSET Row, body : Nat \union {NoBody}]]
        /\ bodies \in [Ids -> Nat \union {NoBody}]
    BY <2>1 DEF AtomicInit, LookupPlaces
  <2>3. /\ index \in (SUBSET Row) \union {NoIndex} /\ mtime \in Nat
        /\ rpc \in {"idle", "reading", "emptied"}
        /\ todo \subseteq Ids /\ rows \subseteq Row /\ rebuilds \in 0 .. MaxRebuilds
    BY RebuildsAssumption DEF AtomicInit
  <2>4. /\ entries \subseteq Row /\ loaded \in BOOLEAN /\ indexMtime \in Nat
        /\ \A r, s \in entries : r.id = s.id => r = s
        /\ apart \in BOOLEAN
        /\ overtaken \subseteq Lookups /\ late \subseteq Ids /\ misled \subseteq Lookups
    BY DEF AtomicInit
  <2> QED
    BY <2>2, <2>3, <2>4 DEF AtomicTypeOK
<1>2. OneRow /\ Current /\ RowsPast
  BY DEF AtomicInit, OneRow, OneRowEach, Current, RowsPast, Past
<1>3. Bodies
  BY DEF AtomicInit, Bodies, NewEnough, NoNote, RowsOf
<1> QED
  BY <1>1, <1>2, <1>3 DEF AtomicIInv

LEMMA AtomicStepInv ==
    ASSUME IssueTypeOK, AtomicIInv, AtomicNext, UNCHANGED issueVars
    PROVE  AtomicIInv'
<1>0. /\ AtomicTypeOK /\ OneRow /\ Current /\ RowsPast /\ Bodies
      /\ file' = file /\ \A i \in Ids : Rev(i) \in Nat /\ Rev(i)' = Rev(i)
  BY RevType DEF AtomicIInv, issueVars, Rev, Exists
<1>1. ASSUME StartRebuild PROVE AtomicIInv'
  <2>1. AtomicTypeOK'
    BY <1>0, <1>1, RebuildsAssumption DEF StartRebuild, AtomicTypeOK, layerVars, lookupVars,
       bodyHistory
  <2>2. OneRow'
    BY <1>0, <1>1 DEF StartRebuild, OneRow, OneRowEach, rebuilderVars, layerVars, lookupVars, Go
  <2>3. Current'
    BY <1>0, <1>1 DEF StartRebuild, Current, AtomicTypeOK, rebuilderVars, layerVars,
       lookupVars, Go, MayLoad, Loading
  <2>4. RowsPast'
    BY <1>0, <1>1 DEF StartRebuild, RowsPast, Past, AtomicTypeOK, Row, rebuilderVars,
       layerVars, lookupVars, Go
  <2>5. Bodies'
    BY <1>0, <1>1 DEF StartRebuild, Bodies, NewEnough, AtomicTypeOK, RowsOf, bodyHistory,
       rebuilderVars, layerVars, lookupVars, Go
  <2> QED
    BY <2>1, <2>2, <2>3, <2>4, <2>5 DEF AtomicIInv
<1>2. ASSUME NEW i \in Ids, ReadFile(i) PROVE AtomicIInv'
  <2>0. /\ rpc = "reading" /\ rpc' = rpc /\ i \in todo /\ todo' = todo \ {i}
        /\ rows' = rows \union RowsFrom(i)
        /\ RowsFrom(i) \subseteq Row /\ OneRowEach(RowsFrom(i)) /\ Past(RowsFrom(i))
        /\ \A r \in RowsFrom(i) : r.id = i
        /\ UNCHANGED <<index, mtime, rebuilds, layerVars, lookupVars, apart, bodyHistory>>
    BY <1>2, RowsFromType DEF ReadFile
  <2>1. AtomicTypeOK'
    BY <1>0, <2>0 DEF AtomicTypeOK, layerVars, lookupVars, bodyHistory
  <2>2. OneRow'
    BY <1>0, <2>0 DEF OneRow, OneRowEach, layerVars, lookupVars
  <2>3. Current'
    BY <1>0, <1>2 DEF ReadFile, Current, AtomicTypeOK, rebuilderVars, layerVars,
       lookupVars, Go, MayLoad, Loading
  <2>4. RowsPast'
    <3>1. Past(rows')
      BY <1>0, <2>0 DEF RowsPast, Past
    <3>2. /\ \A r \in rows' \union entries : Rev(r.id)' = Rev(r.id)
          /\ index # NoIndex => \A r \in index : Rev(r.id)' = Rev(r.id)
          /\ \A l \in Lookups : \A r \in fresh[l] : Rev(r.id)' = Rev(r.id)
      BY <1>0 DEF Rev, Exists
    <3> QED
      BY <1>0, <2>0, <3>1, <3>2 DEF RowsPast, Past, layerVars, lookupVars
  <2>5. Bodies'
    BY <1>0, <1>2 DEF ReadFile, Bodies, NewEnough, AtomicTypeOK, RowsOf, bodyHistory,
       rebuilderVars, layerVars, lookupVars, Go
  <2> QED
    BY <2>1, <2>2, <2>3, <2>4, <2>5 DEF AtomicIInv
<1>3. ASSUME EmptyIndex PROVE AtomicIInv'
  <2>1. AtomicTypeOK'
    BY <1>0, <1>3 DEF EmptyIndex, AtomicTypeOK, bodyHistory, LookupPlaces, rebuilderVars,
       layerVars, lookupVars, Go
  <2>2. OneRow'
    BY <1>0, <1>3 DEF EmptyIndex, OneRow, OneRowEach, rebuilderVars, layerVars, lookupVars, Go
  <2>3. Current'
    BY <1>0, <1>3 DEF EmptyIndex, Current, AtomicTypeOK, rebuilderVars, layerVars,
       lookupVars, Go, MayLoad, Loading
  <2>4. RowsPast'
    BY <1>0, <1>3 DEF EmptyIndex, RowsPast, Past, AtomicTypeOK, Row, rebuilderVars,
       layerVars, lookupVars, Go
  <2>5. Bodies'
    BY <1>0, <1>3 DEF EmptyIndex, Bodies, NewEnough, AtomicTypeOK, RowsOf, bodyHistory,
       rebuilderVars, layerVars, lookupVars, Go
  <2> QED
    BY <2>1, <2>2, <2>3, <2>4, <2>5 DEF AtomicIInv
<1>4. ASSUME FillIndex PROVE AtomicIInv'
  <2>1. AtomicTypeOK'
    BY <1>0, <1>4 DEF FillIndex, AtomicTypeOK, bodyHistory, LookupPlaces, rebuilderVars,
       layerVars, lookupVars, Go
  <2>2. OneRow'
    BY <1>0, <1>4 DEF FillIndex, OneRow, OneRowEach, rebuilderVars, layerVars, lookupVars, Go
  <2>3. Current'
    BY <1>0, <1>4 DEF FillIndex, Current, AtomicTypeOK, rebuilderVars, layerVars,
       lookupVars, Go, MayLoad, Loading
  <2>4. RowsPast'
    BY <1>0, <1>4 DEF FillIndex, RowsPast, Past, AtomicTypeOK, Row, rebuilderVars,
       layerVars, lookupVars, Go
  <2>5. Bodies'
    BY <1>0, <1>4 DEF FillIndex, Bodies, NewEnough, AtomicTypeOK, RowsOf, bodyHistory,
       rebuilderVars, layerVars, lookupVars, Go
  <2> QED
    BY <2>1, <2>2, <2>3, <2>4, <2>5 DEF AtomicIInv
<1>5. ASSUME StopRebuild PROVE AtomicIInv'
  <2>1. AtomicTypeOK'
    BY <1>0, <1>5 DEF StopRebuild, AtomicTypeOK, bodyHistory, LookupPlaces, rebuilderVars,
       layerVars, lookupVars, Go
  <2>2. OneRow'
    BY <1>0, <1>5 DEF StopRebuild, OneRow, OneRowEach, rebuilderVars, layerVars, lookupVars, Go
  <2>3. Current'
    BY <1>0, <1>5 DEF StopRebuild, Current, AtomicTypeOK, rebuilderVars, layerVars,
       lookupVars, Go, MayLoad, Loading
  <2>4. RowsPast'
    BY <1>0, <1>5 DEF StopRebuild, RowsPast, Past, AtomicTypeOK, Row, rebuilderVars,
       layerVars, lookupVars, Go
  <2>5. Bodies'
    BY <1>0, <1>5 DEF StopRebuild, Bodies, NewEnough, AtomicTypeOK, RowsOf, bodyHistory,
       rebuilderVars, layerVars, lookupVars, Go
  <2> QED
    BY <2>1, <2>2, <2>3, <2>4, <2>5 DEF AtomicIInv
<1>6. ASSUME NEW l \in Lookups, Lookup(l) PROVE AtomicIInv'
  <2>1. AtomicTypeOK'
    BY <1>0, <1>6 DEF Lookup, AtomicTypeOK, bodyHistory, LookupPlaces, rebuilderVars,
       layerVars, lookupVars, Go
  <2>2. OneRow'
    BY <1>0, <1>6 DEF Lookup, OneRow, OneRowEach, rebuilderVars, layerVars, lookupVars, Go
  <2>3. Current'
    BY <1>0, <1>6 DEF Lookup, Current, AtomicTypeOK, rebuilderVars, layerVars, lookupVars,
       Go, MayLoad, Loading
  <2>4. RowsPast'
    BY <1>0, <1>6 DEF Lookup, RowsPast, Past, AtomicTypeOK, Row, rebuilderVars, layerVars,
       lookupVars, Go
  <2>5. Bodies'
    BY <1>0, <1>6 DEF Lookup, Bodies, NewEnough, AtomicTypeOK, RowsOf, bodyHistory,
       rebuilderVars, layerVars, lookupVars, Go
  <2> QED
    BY <2>1, <2>2, <2>3, <2>4, <2>5 DEF AtomicIInv
<1>7. ASSUME NEW l \in Lookups, Stat(l) PROVE AtomicIInv'
  <2>1. AtomicTypeOK'
    BY <1>0, <1>7 DEF Stat, AtomicTypeOK, LookupPlaces, rebuilderVars, layerVars,
       lookupVars, bodyHistory, Go
  <2>2. OneRow'
    BY <1>0, <1>7 DEF Stat, OneRow, OneRowEach, rebuilderVars, layerVars, lookupVars, Go
  <2>3. Current'
    BY <1>0, <1>7 DEF Stat, Current, AtomicTypeOK, rebuilderVars, layerVars, lookupVars,
       Go, MayLoad, Loading
  <2>4. RowsPast'
    BY <1>0, <1>7 DEF Stat, RowsPast, Past, AtomicTypeOK, Row, rebuilderVars, layerVars,
       lookupVars, Go
  <2>5. Bodies'
    BY <1>0, <1>7 DEF Stat, Bodies, NewEnough, AtomicTypeOK, RowsOf, bodyHistory,
       rebuilderVars, layerVars, lookupVars, Go
  <2> QED
    BY <2>1, <2>2, <2>3, <2>4, <2>5 DEF AtomicIInv
<1>8. ASSUME NEW l \in Lookups, ReadIndex(l) PROVE AtomicIInv'
  <2>0. \/ /\ index = NoIndex /\ entries' = {} /\ loaded' = TRUE /\ indexMtime' = 0
           /\ Go(l, "find") /\ UNCHANGED <<bodies, fresh>>
        \/ /\ index # NoIndex /\ fresh' = [fresh EXCEPT ![l] = index]
           /\ Go(l, "install") /\ UNCHANGED layerVars
        \/ Go(l, "done") /\ UNCHANGED <<fresh, layerVars>>
    BY <1>8 DEF ReadIndex
  <2>1. AtomicTypeOK'
    <3>1. fresh' \in [Lookups -> SUBSET Row]
      BY <1>0, <2>0 DEF AtomicTypeOK, layerVars
    <3>2. lpc' \in [Lookups -> LookupPlaces]
      BY <1>0, <2>0 DEF AtomicTypeOK, bodyHistory, LookupPlaces, Go
    <3>3. /\ entries' \subseteq Row /\ loaded' \in BOOLEAN /\ indexMtime' \in Nat
          /\ \A r, s \in entries' : r.id = s.id => r = s
          /\ bodies' = bodies
      <4>1. CASE entries' = {} /\ loaded' = TRUE /\ indexMtime' = 0 /\ bodies' = bodies
        BY <4>1
      <4>2. CASE UNCHANGED layerVars
        BY <1>0, <4>2 DEF AtomicTypeOK, layerVars
      <4> QED
        BY <2>0, <4>1, <4>2
    <3> QED
      BY <1>0, <1>8, <3>1, <3>2, <3>3 DEF ReadIndex, AtomicTypeOK, rebuilderVars, bodyHistory
  <2>2. OneRow'
    <3>1. \A k \in Lookups : OneRowEach(fresh'[k])
      BY <1>0, <2>0 DEF OneRow, AtomicTypeOK, layerVars
    <3> QED
      BY <1>0, <1>8, <3>1 DEF ReadIndex, OneRow, OneRowEach, rebuilderVars
  <2>3. Current'
    BY <1>0, <1>8 DEF ReadIndex, Current, AtomicTypeOK, rebuilderVars, layerVars,
       lookupVars, Go, MayLoad, Loading
  <2>4. RowsPast'
    BY <1>0, <1>8 DEF ReadIndex, RowsPast, Past, AtomicTypeOK, Row, rebuilderVars,
       layerVars, lookupVars, Go
  <2>5. Bodies'
    <3>1. /\ UNCHANGED <<bodies, wants, note, overtaken, late, misled>>
          /\ entries' = {} \/ entries' = entries
      BY <1>8, <2>0 DEF ReadIndex, layerVars, bodyHistory
    <3>2. \A k \in Lookups : lpc'[k] \in {"body", "keep"} => lpc'[k] = lpc[k]
      BY <1>0, <2>0 DEF Go, AtomicTypeOK
    <3>3. \A k \in Lookups : Rev(wants[k])' = Rev(wants[k])
      BY <1>0, <3>1 DEF Rev, Exists
    <3>4. \A k \in Lookups : lpc'[k] = "body" =>
              \A r \in note'[k].row : r.rev <= Rev(wants[k])'
      BY <1>0, <3>1, <3>2, <3>3 DEF Bodies
    <3>5. /\ \A i \in Ids \ late : NewEnough(bodies[i], RowsOf(i)')
          /\ \A k \in Lookups \ overtaken :
                lpc'[k] = "keep" => NewEnough(note[k].body, RowsOf(wants[k])')
      BY <1>0, <3>1, <3>2 DEF Bodies, NewEnough, RowsOf
    <3> QED
      BY <1>0, <3>1, <3>4, <3>5 DEF Bodies, NewEnough, RowsOf
  <2> QED
    BY <2>1, <2>2, <2>3, <2>4, <2>5 DEF AtomicIInv
<1>9. ASSUME NEW l \in Lookups, Install(l) PROVE AtomicIInv'
  <2>1. AtomicTypeOK'
    <3>1. /\ fresh[l] \subseteq Row /\ OneRowEach(fresh[l])
          /\ fresh' \in [Lookups -> SUBSET Row]
          /\ lpc' \in [Lookups -> LookupPlaces]
          /\ bodies' \in [Ids -> Nat \union {NoBody}]
      BY <1>0, <1>9 DEF Install, Go, AtomicTypeOK, bodyHistory, LookupPlaces, OneRow
    <3> QED
      BY <1>0, <1>9, <3>1 DEF Install, AtomicTypeOK, OneRowEach, rebuilderVars
  <2>2. OneRow'
    BY <1>0, <1>9 DEF Install, OneRow, OneRowEach, rebuilderVars, layerVars, lookupVars, Go
  <2>3. Current'
    BY <1>0, <1>9 DEF Install, Current, AtomicTypeOK, rebuilderVars, layerVars, lookupVars,
       Go, MayLoad, Loading
  <2>4. RowsPast'
    BY <1>0, <1>9 DEF Install, RowsPast, Past, AtomicTypeOK, Row, rebuilderVars, layerVars,
       lookupVars, Go
  <2>5. Bodies'
    BY <1>0, <1>9 DEF Install, Bodies, NewEnough, AtomicTypeOK, RowsOf, bodyHistory,
       rebuilderVars, layerVars, lookupVars, Go
  <2> QED
    BY <2>1, <2>2, <2>3, <2>4, <2>5 DEF AtomicIInv
<1>10. ASSUME NEW l \in Lookups, SeeMtime(l) PROVE AtomicIInv'
  <2>1. AtomicTypeOK'
    BY <1>0, <1>10 DEF SeeMtime, AtomicTypeOK, bodyHistory, LookupPlaces, rebuilderVars,
       layerVars, lookupVars, Go
  <2>2. OneRow'
    BY <1>0, <1>10 DEF SeeMtime, OneRow, OneRowEach, rebuilderVars, layerVars, lookupVars, Go
  <2>3. Current'
    BY <1>0, <1>10 DEF SeeMtime, Current, AtomicTypeOK, rebuilderVars, layerVars,
       lookupVars, Go, MayLoad, Loading
  <2>4. RowsPast'
    BY <1>0, <1>10 DEF SeeMtime, RowsPast, Past, AtomicTypeOK, Row, rebuilderVars,
       layerVars, lookupVars, Go
  <2>5. Bodies'
    BY <1>0, <1>10 DEF SeeMtime, Bodies, NewEnough, AtomicTypeOK, RowsOf, bodyHistory,
       rebuilderVars, layerVars, lookupVars, Go
  <2> QED
    BY <2>1, <2>2, <2>3, <2>4, <2>5 DEF AtomicIInv
<1>11. ASSUME NEW l \in Lookups, FindRow(l) PROVE AtomicIInv'
  <2>1. AtomicTypeOK'
    <3>1. /\ RowsOf(wants[l]) \subseteq Row
          /\ bodies[wants[l]] \in Nat \union {NoBody}
      BY <1>0 DEF AtomicTypeOK, RowsOf
    <3>2. note' \in [Lookups -> [row : SUBSET Row, body : Nat \union {NoBody}]]
      BY <1>0, <1>11, <3>1 DEF FindRow, AtomicTypeOK
    <3>3. lpc' \in [Lookups -> LookupPlaces]
      BY <1>0, <1>11 DEF FindRow, Go, AtomicTypeOK, LookupPlaces
    <3> QED
      BY <1>0, <1>11, <3>2, <3>3 DEF FindRow, AtomicTypeOK, rebuilderVars, layerVars
  <2>2. OneRow'
    BY <1>0, <1>11 DEF FindRow, OneRow, OneRowEach, rebuilderVars, layerVars, lookupVars, Go
  <2>3. Current'
    BY <1>0, <1>11 DEF FindRow, Current, AtomicTypeOK, rebuilderVars, layerVars,
       lookupVars, Go, MayLoad, Loading
  <2>4. RowsPast'
    BY <1>0, <1>11 DEF FindRow, RowsPast, Past, AtomicTypeOK, Row, rebuilderVars,
       layerVars, lookupVars, Go
  <2>5. Bodies'
    <3> DEFINE i == wants[l]
    <3>1. /\ i \in Ids /\ Rev(i) \in Nat
          /\ \A r \in RowsOf(i) : r \in Row /\ r.rev <= Rev(i)
      BY <1>0 DEF RowsOf, RowsPast, Past, AtomicTypeOK
    <3>2. /\ UNCHANGED <<entries, bodies, wants, overtaken, late>>
          /\ note'[l].row = RowsOf(i)
          /\ note'[l].body = IF RowsOf(i) = {} THEN NoBody ELSE bodies[i]
          /\ lpc'[l] \in {"done", "body"}
          /\ \A k \in Lookups \ {l} : note'[k] = note[k] /\ lpc'[k] = lpc[k]
          /\ misled \subseteq misled' /\ (RowsOf(i) # {} /\ i \in late => l \in misled')
      BY <1>0, <1>11 DEF FindRow, Go, AtomicTypeOK, layerVars
    <3> HIDE DEF i
    <3>3. l \notin misled' => NewEnough(note'[l].body, note'[l].row)
      BY <1>0, <3>1, <3>2 DEF Bodies, NewEnough
    <3>4. \A k \in Lookups \ misled' : NewEnough(note'[k].body, note'[k].row)
      BY <1>0, <3>2, <3>3 DEF Bodies
    <3>5. \A k \in Lookups : Rev(wants[k])' = Rev(wants[k])
      BY <1>0, <3>2 DEF Rev, Exists
    <3>6. \A k \in Lookups : lpc'[k] = "body" =>
              \A r \in note'[k].row : r.rev <= Rev(wants[k])
      BY <1>0, <3>1, <3>2 DEF Bodies, i
    <3>7. \A k \in Lookups \ overtaken :
              lpc'[k] = "keep" => NewEnough(note'[k].body, RowsOf(wants[k]))
      BY <1>0, <3>2 DEF Bodies
    <3> QED
      BY <1>0, <3>2, <3>4, <3>5, <3>6, <3>7 DEF Bodies, NewEnough, RowsOf
  <2> QED
    BY <2>1, <2>2, <2>3, <2>4, <2>5 DEF AtomicIInv
<1>12. ASSUME NEW l \in Lookups, ReadBody(l) PROVE AtomicIInv'
  <2>1. AtomicTypeOK'
    BY <1>0, <1>12 DEF ReadBody, AtomicTypeOK, bodyHistory, LookupPlaces, rebuilderVars,
       layerVars, lookupVars, Go
  <2>2. OneRow'
    BY <1>0, <1>12 DEF ReadBody, OneRow, OneRowEach, rebuilderVars, layerVars, lookupVars, Go
  <2>3. Current'
    BY <1>0, <1>12 DEF ReadBody, Current, AtomicTypeOK, rebuilderVars, layerVars,
       lookupVars, Go, MayLoad, Loading
  <2>4. RowsPast'
    BY <1>0, <1>12 DEF ReadBody, RowsPast, Past, AtomicTypeOK, Row, rebuilderVars,
       layerVars, lookupVars, Go
  <2>5. Bodies'
    <3>1. /\ wants[l] \in Ids /\ note[l].row \subseteq Row /\ Rev(wants[l]) \in Nat
          /\ \A r \in RowsOf(wants[l]) : r \in Row /\ r.rev <= Rev(wants[l])
          /\ \A r \in note[l].row : r.rev <= Rev(wants[l])
      BY <1>0, <1>12 DEF ReadBody, Bodies, RowsOf, RowsPast, Past, AtomicTypeOK
    <3>2. /\ note'[l].row = note[l].row /\ note'[l].body = Rev(wants[l])
          /\ lpc'[l] = "keep"
          /\ \A k \in Lookups \ {l} : note'[k] = note[k] /\ lpc'[k] = lpc[k]
          /\ UNCHANGED <<entries, bodies, wants, overtaken, late, misled>>
      BY <1>0, <1>12 DEF ReadBody, Go, AtomicTypeOK, layerVars, bodyHistory
    <3>3. /\ NewEnough(note'[l].body, note'[l].row)
          /\ NewEnough(note'[l].body, RowsOf(wants[l]))
      BY <3>1, <3>2 DEF NewEnough, Row
    <3>4. \A k \in Lookups : Rev(wants[k])' = Rev(wants[k])
      BY <1>0, <3>2 DEF Rev, Exists
    <3>5. ASSUME NEW k \in Lookups, lpc'[k] = "body"
          PROVE  k # l /\ lpc[k] = "body" /\ note'[k] = note[k]
      BY <3>2, <3>5
    <3>6. \A k \in Lookups : lpc'[k] = "body" =>
              \A r \in note'[k].row : r.rev <= Rev(wants[k])'
      BY <1>0, <3>4, <3>5 DEF Bodies
    <3>7. /\ \A k \in Lookups \ misled' : NewEnough(note'[k].body, note'[k].row)
          /\ \A k \in Lookups \ overtaken' :
                lpc'[k] = "keep" => NewEnough(note'[k].body, RowsOf(wants[k]))
      BY <1>0, <3>2, <3>3 DEF Bodies
    <3>8. \A i : RowsOf(i)' = RowsOf(i)
      BY <3>2 DEF RowsOf
    <3> QED
      BY <1>0, <3>2, <3>6, <3>7, <3>8 DEF Bodies, NewEnough
  <2> QED
    BY <2>1, <2>2, <2>3, <2>4, <2>5 DEF AtomicIInv
<1>13. ASSUME NEW l \in Lookups, KeepBody(l) PROVE AtomicIInv'
  <2>1. AtomicTypeOK'
    BY <1>0, <1>13 DEF KeepBody, AtomicTypeOK, bodyHistory, LookupPlaces, rebuilderVars,
       layerVars, lookupVars, Go
  <2>2. OneRow'
    BY <1>0, <1>13 DEF KeepBody, OneRow, OneRowEach, rebuilderVars, layerVars, lookupVars, Go
  <2>3. Current'
    BY <1>0, <1>13 DEF KeepBody, Current, AtomicTypeOK, rebuilderVars, layerVars,
       lookupVars, Go, MayLoad, Loading
  <2>4. RowsPast'
    BY <1>0, <1>13 DEF KeepBody, RowsPast, Past, AtomicTypeOK, Row, rebuilderVars,
       layerVars, lookupVars, Go
  <2>5. Bodies'
    BY <1>0, <1>13 DEF KeepBody, Bodies, NewEnough, AtomicTypeOK, RowsOf, bodyHistory,
       rebuilderVars, layerVars, lookupVars, Go
  <2> QED
    BY <2>1, <2>2, <2>3, <2>4, <2>5 DEF AtomicIInv
<1> QED
  BY <1>1, <1>2, <1>3, <1>4, <1>5, <1>6, <1>7, <1>8, <1>9, <1>10, <1>11, <1>12,
     <1>13 DEF AtomicNext

\* Calls on the files do not touch the index or the layer, and only renew texts.
LEMMA FilesChangeInv ==
    ASSUME IssueIInv, AtomicIInv, NEW S \in SUBSET Ops, IssueStep(S), UNCHANGED atomicVars
    PROVE  AtomicIInv'
<1>1. UNCHANGED <<index, mtime, rpc, todo, rows, rebuilds, entries, loaded, indexMtime,
                  bodies, lpc, wants, fresh, note, apart, overtaken, late, misled>>
  BY DEF atomicVars, rebuilderVars, layerVars, lookupVars, bodyHistory
<1>2. AtomicTypeOK' /\ OneRow' /\ Current'
  BY <1>1 DEF AtomicIInv, AtomicTypeOK, OneRow, Current
<1>3. \A i \in Ids : /\ Rev(i) \in Nat /\ Rev(i)' \in Nat
                    /\ Rev(i) <= Rev(i)'
  <2>1. IssueTypeOK /\ IssueTypeOK'
    BY IssueStepInv DEF IssueIInv
  <2>2. \A i \in Ids : Rev(i) \in Nat
    BY <2>1, RevType
  <2>3. \A i \in Ids : Rev(i)' \in Nat
    BY <2>1 DEF IssueTypeOK, Rev, Exists, Text
  <2> QED
    BY <2>2, <2>3, RevGrows
<1>4. ASSUME NEW R \in SUBSET Row, Past(R) PROVE \A r \in R : r.rev <= Rev(r.id)'
  BY <1>3, <1>4 DEF Past, Row
<1>5. RowsPast'
  <2>1. /\ rows \in SUBSET Row /\ entries \in SUBSET Row
        /\ index # NoIndex => index \in SUBSET Row
        /\ \A l \in Lookups : fresh[l] \in SUBSET Row
    BY DEF AtomicIInv, AtomicTypeOK
  <2> QED
    BY <1>1, <1>4, <2>1 DEF AtomicIInv, RowsPast, Past
<1>6. Bodies'
  <2>1. ASSUME NEW l \in Lookups, lpc[l] = "body", NEW r \in note[l].row
        PROVE  r.rev <= Rev(wants[l])'
    <3>1. r.rev \in Nat /\ wants[l] \in Ids /\ r.rev <= Rev(wants[l])
      BY <2>1 DEF AtomicIInv, AtomicTypeOK, Row, Bodies
    <3>2. /\ Rev(wants[l]) \in Nat /\ Rev(wants[l])' \in Nat
          /\ Rev(wants[l]) <= Rev(wants[l])'
      BY <1>1, <1>3, <3>1 DEF Rev, Exists
    <3> QED
      BY <3>1, <3>2
  <2> QED
    BY <1>1, <2>1 DEF AtomicIInv, Bodies, NewEnough, RowsOf
<1> QED
  BY <1>2, <1>5, <1>6 DEF AtomicIInv

LEMMA AtomicUnchanged ==
    ASSUME AtomicIInv, UNCHANGED atomicVars, UNCHANGED issueVars
    PROVE  AtomicIInv'
<1>1. UNCHANGED <<index, mtime, rpc, todo, rows, rebuilds, entries, loaded, indexMtime,
                  bodies, lpc, wants, fresh, note, apart, overtaken, late, misled,
                  file>>
  BY DEF atomicVars, rebuilderVars, layerVars, lookupVars, bodyHistory, issueVars
<1>2. AtomicTypeOK' /\ OneRow' /\ Current'
  BY <1>1 DEF AtomicIInv, AtomicTypeOK, OneRow, Current
<1>3. RowsPast' /\ Bodies'
  BY <1>1 DEF AtomicIInv, RowsPast, Past, Rev, Exists, Bodies, NewEnough, RowsOf
<1> QED
  BY <1>2, <1>3 DEF AtomicIInv

LEMMA KnowledgeInv == KnowledgeSpec => [](IssueIInv /\ AtomicIInv)
<1>1. KnowledgeInit => IssueIInv /\ AtomicIInv
  BY IssueInitInv, AtomicInitInv DEF KnowledgeInit
<1>2. /\ IssueIInv /\ AtomicIInv
      /\ [KnowledgeNext]_<<issueVars, atomicVars, side>>
      => IssueIInv' /\ AtomicIInv'
  <2> SUFFICES ASSUME IssueIInv, AtomicIInv,
                      [KnowledgeNext]_<<issueVars, atomicVars, side>>
               PROVE  IssueIInv' /\ AtomicIInv'
    OBVIOUS
  <2>1. CASE /\ IssueStep(Ops) \/ IssueStep(Beside)
             /\ UNCHANGED atomicVars
    BY <2>1, IssueStepInv, FilesChangeInv, BesideAssumption
  <2>2. CASE AtomicNext /\ UNCHANGED issueVars
    BY <2>2, IssueUnchanged, AtomicStepInv DEF IssueIInv
  <2>3. CASE UNCHANGED <<issueVars, atomicVars>>
    BY <2>3, IssueUnchanged, AtomicUnchanged
  <2> QED
    BY <2>1, <2>2, <2>3 DEF KnowledgeNext, IssueNext
<1> QED
  BY <1>1, <1>2, PTL DEF KnowledgeSpec

\* The types of both sides; with them, that no index gives an id two rows.
THEOREM KnowledgeTypes == KnowledgeSpec => []KnowledgeTypeOK
<1>1. IssueIInv /\ AtomicIInv => KnowledgeTypeOK
  BY DEF IssueIInv, AtomicIInv, KnowledgeTypeOK
<1> QED
  BY <1>1, KnowledgeInv, PTL

\* A layer that sees no reason to reload has the rows of the index, as long as no
\* index is written while one is loaded.
THEOREM LayerCurrent == KnowledgeSpec => []LayerKnowsWhenStale
<1>1. AtomicIInv => LayerKnowsWhenStale
  <2> SUFFICES ASSUME AtomicIInv, apart, loaded, index # NoIndex, ~ (mtime > indexMtime)
               PROVE  entries = index
    BY DEF LayerKnowsWhenStale
  <2>1. mtime \in Nat /\ indexMtime \in Nat /\ indexMtime <= mtime
    BY DEF AtomicIInv, AtomicTypeOK, Current
  <2>2. indexMtime = mtime
    BY <2>1
  <2> QED
    BY <2>2 DEF AtomicIInv, Current
<1> QED
  BY <1>1, KnowledgeInv, PTL

\* A lookup returns no body that is older than its row, unless it was given one
\* that was read before a load of the index and kept after it.
THEOREM LayerBodies == KnowledgeSpec => []BodyNotOlderThanRow
<1>1. AtomicIInv => BodyNotOlderThanRow
  BY DEF AtomicIInv, Bodies, NewEnough, BodyNotOlderThanRow
<1> QED
  BY <1>1, KnowledgeInv, PTL
=============================================================================
