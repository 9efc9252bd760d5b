----------------------------- MODULE HnswProofs -----------------------------
(***************************************************************************)
(* Proofs about HnswStore: types for any interleaving, and, when only adds *)
(* overlap, that labels stay distinct and that what an add has reported is *)
(* listed in the metadata file and found by search.                        *)
(***************************************************************************)
EXTENDS HnswStore, FiniteSetTheorems, TLAPS

Clearing(p) == pc[p] \in {"cleared", "unlinking", "emptying"}
Patching(p) == pc[p] \in {"rewrite", "rewriting"}

AddPlaces == {"append", "appended", "index", "indexing", "mirror", "mirroring"}

\* Only adds overlap, and only in an open store.
Apart ==
    /\ \A p, q \in Procs : p # q /\ pc[p] # "idle" /\ pc[q] # "idle" => Adding(p) /\ Adding(q)
    /\ \A p \in Procs : Adding(p) => pc[p] # "idle" /\ ~Clearing(p) /\ ~Patching(p)
    /\ \A p \in Procs : pc[p] \in AddPlaces => Adding(p)
    /\ \A p \in Procs : pc[p] # "idle" => stage = "up"

\* The maps between ids and labels are inverse to each other.
LabelInv ==
    /\ stage = "up" =>
          /\ \A id \in Ids : label[id] # None => label[id] < nextLabel /\ owner[label[id]] = id
          /\ \A id \in byId : label[id] # None
    /\ \A p \in Procs : pc[p] = "append" => label[current[p].id] = current[p].label

DistinctRows(rows) == \A i, j \in Ids : rows[i] # None /\ rows[i] = rows[j] => i = j
Settled == stage = "up" /\ \A p \in Procs : ~Clearing(p)

\* The metadata file agrees with the labels in memory.
RowInv ==
    /\ meta # Torn => DistinctRows(meta)
    /\ \A p \in Procs : Patching(p) => \A id \in Ids : held[p][id] \in {None, label[id]}
    /\ Settled /\ meta # Torn => \A id \in Ids : meta[id] \in {None, label[id]}

LInv == Apart /\ LabelInv /\ RowInv

-----------------------------------------------------------------------------
(* Type correctness                                                        *)

\* Sizes of sets of documents and labels are numbers.
LEMMA Sizes ==
    /\ \A S \in SUBSET Ids : Cardinality(S) \in Nat
    /\ \A S \in SUBSET Ids : S # {} => Cardinality(S) # 0
<1>1. \A S \in SUBSET Ids : IsFiniteSet(S)
  BY IdsAssumption, FS_Subset
<1> QED BY <1>1, FS_CardinalityType, FS_EmptySet

LEMMA HnswTypeInit == ASSUME Init PROVE TypeOK
<1>1. NoRows \in Rows /\ NoPoints \in [Labels -> Ids \union {None}]
      /\ NoPoints \in [Labels -> Vectors \union {None}]
  BY DEF NoRows, NoPoints, Rows
<1>2. /\ nextLabel \in 0 .. MaxLabel + 1 /\ restarts \in 0 .. MaxCrashes
      /\ room \in Nat /\ maxElements \in Nat \ {0}
  BY InitialMaxAssumption, MaxLabelAssumption, MaxCrashesAssumption DEF Init
<1>4. StoreTypeOK
  BY <1>1, <1>2 DEF Init, StoreTypeOK, Stages
<1>3. CallTypeOK
  BY DEF Init, CallTypeOK, Places
<1> QED BY <1>3, <1>4 DEF TypeOK

\* A step that moves no call keeps the calls' types.
LEMMA CallsStay ==
    ASSUME TypeOK, UNCHANGED <<pc, locals, held>> PROVE CallTypeOK'
BY DEF TypeOK, CallTypeOK, locals

LEMMA StoreStays ==
    ASSUME TypeOK, UNCHANGED <<process, memory, files, acked>> PROVE StoreTypeOK'
BY DEF TypeOK, StoreTypeOK, process, memory, labels, live, files

LEMMA LoadType == ASSUME TypeOK, Load PROVE TypeOK'
<1>0. CallTypeOK'
  BY CallsStay DEF Load, LoadFresh, LoadIndex, LoadOtherModel, LoadTruncate, LoadMetadata, LoadStep
<1>1. CASE LoadFresh
  BY <1>0, <1>1 DEF LoadFresh, LoadStep, TypeOK, StoreTypeOK, files, labels, Stages
<1>2. CASE LoadIndex
  <2>1. index \in Index /\ manifest \in Manifest
    BY <1>2 DEF LoadIndex, Known, TypeOK, StoreTypeOK
  <2>2. /\ points' \in [Labels -> Vectors \union {None}] /\ room' \in Nat
        /\ hashed' \in BOOLEAN
    BY <1>2, <2>1 DEF LoadIndex, Index, Manifest
  <2>3. maxElements' \in Nat \ {0}
    BY <1>2, <2>1 DEF LoadIndex, Manifest
  <2> QED BY <1>0, <1>2, <2>2, <2>3 DEF LoadIndex, LoadStep, TypeOK, StoreTypeOK, files, labels, Stages
<1>3. CASE LoadOtherModel
  BY <1>0, <1>3 DEF LoadOtherModel, LoadStep, TypeOK, StoreTypeOK, labels, Stages
<1>4. CASE LoadTruncate
  <2>1. meta' \in Rows
    BY <1>4 DEF LoadTruncate, NoRows, Rows
  <2> QED BY <1>0, <1>4, <2>1
          DEF LoadTruncate, LoadStep, TypeOK, StoreTypeOK, memory, live, labels, Stages
<1>5. CASE LoadMetadata
  <2>1. meta \in Rows /\ Named(meta) \subseteq Ids
    BY <1>5 DEF LoadMetadata, TypeOK, StoreTypeOK, Named
  <2>2. owner' \in [Labels -> Ids \union {None}]
    <3>1. PICK pick \in Owners(meta) :
             owner' = [l \in Labels |-> IF l \in DOMAIN pick THEN pick[l] ELSE None]
      BY <1>5 DEF LoadMetadata
    <3>2. \A l \in DOMAIN pick : pick[l] \in Ids
      BY <2>1 DEF Owners
    <3> QED BY <3>1, <3>2
  <2> QED BY <1>0, <1>5, <2>1, <2>2 DEF LoadMetadata, LoadStep, TypeOK, StoreTypeOK, live, files, Stages
<1> QED BY <1>1, <1>2, <1>3, <1>4, <1>5 DEF Load

LEMMA CapacityType ==
    ASSUME TypeOK, NEW needed \in Nat, EnsureCapacity(needed)
    PROVE  maxElements' \in Nat \ {0} /\ room' \in Nat
<1>1. maxElements \in Nat \ {0} /\ room \in Nat
  BY DEF TypeOK, StoreTypeOK
<1>2. CASE needed <= maxElements
  BY <1>1, <1>2 DEF EnsureCapacity
<1>3. CASE ~(needed <= maxElements)
  <2>1. PICK n \in needed .. 2 * needed - 1 : maxElements' = n /\ room' = n
    BY <1>3 DEF EnsureCapacity
  <2> QED BY <1>1, <1>3, <2>1
<1> QED BY <1>2, <1>3

LEMMA AllocateType ==
    ASSUME TypeOK, NEW id \in Ids, AllocateLabel(id)
    PROVE  /\ label' \in Rows /\ owner' \in [Labels -> Ids \union {None}]
           /\ nextLabel' \in 0 .. MaxLabel + 1
           /\ LabelOf(id) \in Labels
<1>1. /\ label \in Rows /\ owner \in [Labels -> Ids \union {None}]
      /\ nextLabel \in 0 .. MaxLabel + 1
  BY DEF TypeOK, StoreTypeOK
<1>2. CASE label[id] # None
  BY <1>1, <1>2 DEF AllocateLabel, LabelOf, Rows, labels
<1>3. CASE label[id] = None
  <2>1. nextLabel \in Labels /\ nextLabel' = nextLabel + 1
    BY <1>1, <1>3, MaxLabelAssumption DEF AllocateLabel, Labels
  <2>2. nextLabel' \in 0 .. MaxLabel + 1
    BY <2>1, MaxLabelAssumption DEF Labels
  <2> QED BY <1>1, <1>3, <2>1, <2>2 DEF AllocateLabel, LabelOf, Rows
<1> QED BY <1>2, <1>3

\* What an insertion changes, and that it keeps the types.
LEMMA InsertType ==
    ASSUME TypeOK, NEW p \in Procs, NEW ids \in SUBSET Ids, NEW capacity, Insert(p, ids, capacity)
    PROVE  /\ label' \in Rows /\ owner' \in [Labels -> Ids \union {None}]
           /\ nextLabel' \in 0 .. MaxLabel + 1
           /\ points' \in [Labels -> Vectors \union {None}]
           /\ byId' \subseteq Ids
           /\ current' \in [Procs -> [id : Ids, label : Labels] \union {None}]
           /\ todo' \in [Procs -> SUBSET Ids]
           /\ pc' = [pc EXCEPT ![p] = "append"]
           /\ current'[p] \in [id : Ids, label : Labels]
           /\ \A q \in Procs \ {p} : current'[q] = current[q]
<1>1. PICK id \in ids :
         /\ AllocateLabel(id)
         /\ points' = [points EXCEPT ![LabelOf(id)] = <<id, model>>]
         /\ byId' = byId \union {id}
         /\ current' = [current EXCEPT ![p] = [id |-> id, label |-> LabelOf(id)]]
         /\ todo' = [todo EXCEPT ![p] = ids \ {id}]
         /\ At(p, "append")
  BY DEF Insert
<1>2. /\ label' \in Rows /\ owner' \in [Labels -> Ids \union {None}]
      /\ nextLabel' \in 0 .. MaxLabel + 1 /\ LabelOf(id) \in Labels
  BY <1>1, AllocateType
<1>3. [id |-> id, label |-> LabelOf(id)] \in [id : Ids, label : Labels]
  BY <1>2
<1> QED BY <1>1, <1>2, <1>3 DEF TypeOK, StoreTypeOK, CallTypeOK, Vectors, At

LEMMA ForgetType ==
    ASSUME TypeOK, NEW p \in Procs, Forget(p)
    PROVE  CallTypeOK'
BY DEF Forget, TypeOK, CallTypeOK, Hold, At, Places

LEMMA RefuseType ==
    ASSUME TypeOK, NEW p \in Procs, NEW ids \in SUBSET Ids, NEW capacity, Refuse(p, ids, capacity)
    PROVE  /\ label' \in Rows /\ owner' \in [Labels -> Ids \union {None}]
           /\ nextLabel' \in 0 .. MaxLabel + 1
           /\ UNCHANGED <<points, byId>>
           /\ CallTypeOK'
<1>1. PICK id \in ids : AllocateLabel(id)
  BY DEF Refuse
<1> QED BY <1>1, AllocateType, ForgetType DEF Refuse

LEMMA InsertCalls ==
    ASSUME TypeOK, NEW p \in Procs, NEW ids \in SUBSET Ids, NEW capacity, Insert(p, ids, capacity),
           batch' \in [Procs -> SUBSET Ids], UNCHANGED held
    PROVE  CallTypeOK'
<1>1. /\ current' \in [Procs -> [id : Ids, label : Labels] \union {None}]
      /\ todo' \in [Procs -> SUBSET Ids]
      /\ pc' = [pc EXCEPT ![p] = "append"]
      /\ current'[p] \in [id : Ids, label : Labels]
      /\ \A q \in Procs \ {p} : current'[q] = current[q]
  BY InsertType
<1>2. pc' \in [Procs -> Places]
  BY <1>1 DEF TypeOK, CallTypeOK, Places
<1>3. \A q \in Procs \ {p} : pc'[q] = pc[q] /\ pc'[p] = "append"
  BY <1>1 DEF TypeOK, CallTypeOK
<1> QED BY <1>1, <1>2, <1>3 DEF TypeOK, CallTypeOK

LEMMA AddsType ==
    ASSUME TypeOK, NEW p \in Procs,
           \/ \E ids \in NonEmpty(Ids) : Add(p, ids) \/ AddRefused(p, ids)
           \/ AddStep(p)
    PROVE  TypeOK'
<1>1. ASSUME NEW ids \in NonEmpty(Ids), Add(p, ids) PROVE TypeOK'
  <2>1. maxElements' \in Nat \ {0} /\ room' \in Nat
    BY <1>1, Sizes, CapacityType DEF Add, Begin, NonEmpty, TypeOK, StoreTypeOK
  <2>2. Insert(p, ids, room') /\ ids \in SUBSET Ids
    BY <1>1 DEF Add, NonEmpty
  <2>3. batch' \in [Procs -> SUBSET Ids]
    BY <1>1, <2>2 DEF Add, TypeOK, CallTypeOK
  <2>4. CallTypeOK'
    BY <1>1, <2>2, <2>3, InsertCalls DEF Add
  <2>5. StoreTypeOK'
    BY <1>1, <2>1, <2>2, InsertType DEF Add, TypeOK, StoreTypeOK, process, files
  <2> QED BY <2>4, <2>5 DEF TypeOK
<1>2. ASSUME NEW ids \in NonEmpty(Ids), AddRefused(p, ids) PROVE TypeOK'
  <2>1. maxElements' \in Nat \ {0} /\ room' \in Nat
    BY <1>2, Sizes, CapacityType DEF AddRefused, Begin, NonEmpty, TypeOK, StoreTypeOK
  <2>2. Refuse(p, ids, room') /\ ids \in SUBSET Ids
    BY <1>2 DEF AddRefused, NonEmpty
  <2>3. StoreTypeOK'
    BY <1>2, <2>1, <2>2, RefuseType DEF AddRefused, TypeOK, StoreTypeOK, process, files
  <2> QED BY <2>2, <2>3, RefuseType DEF TypeOK
<1>3. CASE InsertNext(p)
  <2>1. Insert(p, todo[p], room) /\ todo[p] \in SUBSET Ids
    BY <1>3 DEF InsertNext, TypeOK, CallTypeOK
  <2>2. CallTypeOK'
    BY <1>3, <2>1, InsertCalls DEF InsertNext, TypeOK, CallTypeOK
  <2>3. StoreTypeOK'
    BY <1>3, <2>1, InsertType DEF InsertNext, TypeOK, StoreTypeOK, process, files
  <2> QED BY <2>2, <2>3 DEF TypeOK
<1>4. CASE NextRefused(p)
  <2>1. Refuse(p, todo[p], room) /\ todo[p] \in SUBSET Ids
    BY <1>4 DEF NextRefused, TypeOK, CallTypeOK
  <2>2. StoreTypeOK'
    BY <1>4, <2>1, RefuseType DEF NextRefused, TypeOK, StoreTypeOK, process, files
  <2> QED BY <2>1, <2>2, RefuseType DEF TypeOK
<1>5. CASE AppendMeta(p)
  <2>1. current[p] \in [id : Ids, label : Labels]
    BY <1>5 DEF AppendMeta, TypeOK, CallTypeOK
  <2>2. meta' \in Rows \union {Torn}
    BY <1>5, <2>1 DEF AppendMeta, TypeOK, StoreTypeOK, Rows
  <2>3. StoreTypeOK'
    BY <1>5, <2>2 DEF AppendMeta, Waits, TypeOK, StoreTypeOK, process, memory, labels, live
  <2>4. CallTypeOK'
    BY <1>5 DEF AppendMeta, Waits, At, TypeOK, CallTypeOK, locals, Places
  <2> QED BY <2>3, <2>4 DEF TypeOK
<1>6. CASE PersistIndex(p)
  <2>1. StoreTypeOK'
    BY <1>6, StoreStays DEF PersistIndex, Waits
  <2>2. CallTypeOK'
    BY <1>6 DEF PersistIndex, Waits, At, TypeOK, CallTypeOK, locals, Places
  <2> QED BY <2>1, <2>2 DEF TypeOK
<1> QED BY <1>1, <1>2, <1>3, <1>4, <1>5, <1>6 DEF AddStep

\* A call that moves on, holding something else, and a store that waits.
LEMMA FilesType ==
    ASSUME TypeOK, NEW p \in Procs, Files(p)
    PROVE  TypeOK'
<1>1. CASE OpenIndex(p)
  <2>1. LiveIndex \in Index
    BY DEF LiveIndex, Index, TypeOK, StoreTypeOK
  <2>2. StoreTypeOK'
    BY <1>1 DEF OpenIndex, Waits, TypeOK, StoreTypeOK, process, memory, labels, live
  <2>3. CallTypeOK'
    BY <1>1, <2>1 DEF OpenIndex, Waits, Hold, At, TypeOK, CallTypeOK, locals, Places
  <2> QED BY <2>2, <2>3 DEF TypeOK
<1>2. CASE WriteIndex(p)
  <2>1. LiveIndex \in Index
    BY DEF LiveIndex, Index, TypeOK, StoreTypeOK
  <2>2. index' \in Index \union {Torn}
    BY <1>2, <2>1 DEF WriteIndex
  <2>3. StoreTypeOK'
    BY <1>2, <2>2 DEF WriteIndex, Waits, TypeOK, StoreTypeOK, process, memory, labels, live
  <2>4. CallTypeOK'
    BY <1>2 DEF WriteIndex, Waits, Hold, At, TypeOK, CallTypeOK, locals, Places
  <2> QED BY <2>3, <2>4 DEF TypeOK
<1>3. CASE OpenManifest(p)
  <2>1. [model |-> model, max |-> maxElements, hashed |-> hashed] \in Manifest
    BY DEF Manifest, TypeOK, StoreTypeOK
  <2>2. StoreTypeOK'
    BY <1>3 DEF OpenManifest, Waits, TypeOK, StoreTypeOK, process, memory, labels, live
  <2>3. CallTypeOK'
    BY <1>3, <2>1 DEF OpenManifest, Waits, Hold, At, TypeOK, CallTypeOK, locals, Places
  <2> QED BY <2>2, <2>3 DEF TypeOK
<1>4. CASE Mirror(p)
  <2>1. manifest' \in Manifest \union {Torn}
    BY <1>4 DEF Mirror, WriteManifest, TypeOK, CallTypeOK
  <2>2. StoreTypeOK'
    BY <1>4, <2>1 DEF Mirror, WriteManifest, Waits, TypeOK, StoreTypeOK, process, memory, labels, live
  <2>3. CallTypeOK'
    BY <1>4 DEF Mirror, Waits, Hold, At, TypeOK, CallTypeOK, locals, Places
  <2> QED BY <2>2, <2>3 DEF TypeOK
<1>5. CASE Return(p)
  <2>1. manifest' \in Manifest \union {Torn}
    BY <1>5 DEF Return, WriteManifest, TypeOK, CallTypeOK
  <2>2. batch[p] \subseteq Ids
    BY DEF TypeOK, CallTypeOK
  <2>3. StoreTypeOK'
    BY <1>5, <2>1, <2>2 DEF Return, WriteManifest, TypeOK, StoreTypeOK, process, memory, labels, live
  <2> QED BY <1>5, <2>3, ForgetType DEF Return, TypeOK
<1>6. CASE OpenMeta(p)
  <2>1. NoRows \in Rows
    BY DEF NoRows, Rows
  <2>2. StoreTypeOK'
    BY <1>6, <2>1 DEF OpenMeta, Waits, TypeOK, StoreTypeOK, process, memory, labels, live
  <2>3. CallTypeOK'
    BY <1>6 DEF OpenMeta, Waits, At, TypeOK, CallTypeOK, locals, Places
  <2> QED BY <2>2, <2>3 DEF TypeOK
<1>7. CASE WriteMeta(p)
  <2>1. meta' \in Rows \union {Torn}
    BY <1>7 DEF WriteMeta, TypeOK, CallTypeOK
  <2>2. StoreTypeOK'
    BY <1>7, <2>1 DEF WriteMeta, TypeOK, StoreTypeOK, process, memory, labels, live
  <2> QED BY <1>7, <2>2, ForgetType DEF WriteMeta, TypeOK
<1>8. CASE ClearIndex(p)
  <2>1. NoPoints \in [Labels -> Vectors \union {None}]
    BY DEF NoPoints
  <2>2. StoreTypeOK'
    BY <1>8, <2>1 DEF ClearIndex, TypeOK, StoreTypeOK, process, labels, files
  <2>3. CallTypeOK'
    BY <1>8 DEF ClearIndex, At, TypeOK, CallTypeOK, locals, Places
  <2> QED BY <2>2, <2>3 DEF TypeOK
<1>9. CASE UnlinkIndex(p)
  <2>1. StoreTypeOK'
    BY <1>9 DEF UnlinkIndex, Waits, TypeOK, StoreTypeOK, process, memory, labels, live
  <2>2. CallTypeOK'
    BY <1>9 DEF UnlinkIndex, Waits, At, TypeOK, CallTypeOK, locals, Places
  <2> QED BY <2>1, <2>2 DEF TypeOK
<1>10. CASE EmptyMeta(p)
  <2>1. NoRows \in Rows
    BY DEF NoRows, Rows
  <2>2. StoreTypeOK'
    BY <1>10, <2>1 DEF EmptyMeta, TypeOK, StoreTypeOK, process, labels, live
  <2>3. CallTypeOK'
    BY <1>10 DEF EmptyMeta, At, TypeOK, CallTypeOK, locals, Places
  <2> QED BY <2>2, <2>3 DEF TypeOK
<1> QED BY <1>1, <1>2, <1>3, <1>4, <1>5, <1>6, <1>7, <1>8, <1>9, <1>10 DEF Files

LEMMA OthersType ==
    ASSUME TypeOK, NEW p \in Procs, SetFileHash(p) \/ Patch(p) \/ Clear(p)
    PROVE  TypeOK'
<1>1. CASE SetFileHash(p)
  <2>1. StoreTypeOK'
    BY <1>1 DEF SetFileHash, TypeOK, StoreTypeOK, process, labels, live, files
  <2>2. CallTypeOK'
    BY <1>1 DEF SetFileHash, At, TypeOK, CallTypeOK, locals, Places
  <2> QED BY <2>1, <2>2 DEF TypeOK
<1>2. CASE Patch(p)
  <2>1. OwnedRows \in Rows
    BY DEF OwnedRows, Rows, TypeOK, StoreTypeOK
  <2>2. StoreTypeOK'
    BY <1>2, StoreStays DEF Patch, Waits
  <2>3. CallTypeOK'
    BY <1>2, <2>1 DEF Patch, Waits, Hold, At, TypeOK, CallTypeOK, locals, Places
  <2> QED BY <2>2, <2>3 DEF TypeOK
<1>3. CASE Clear(p)
  <2>1. NoRows \in Rows /\ NoPoints \in [Labels -> Ids \union {None}]
    BY DEF NoRows, NoPoints, Rows
  <2>2. StoreTypeOK'
    BY <1>3, <2>1, MaxLabelAssumption DEF Clear, TypeOK, StoreTypeOK, process, live, files
  <2>3. CallTypeOK'
    BY <1>3 DEF Clear, At, TypeOK, CallTypeOK, locals, Places
  <2> QED BY <2>2, <2>3 DEF TypeOK
<1> QED BY <1>1, <1>2, <1>3

\* What a crash leaves of the metadata file: it, or some rows of a rewrite.
LEMMA RestartMeta ==
    ASSUME Restart
    PROVE  \/ UNCHANGED meta
           \/ \E p \in Procs, S \in SUBSET Ids :
                 /\ pc[p] = "rewriting"
                 /\ meta' \in {[id \in Ids |-> IF id \in S THEN held[p][id] ELSE None], Torn}
BY DEF Restart

LEMMA RestartType == ASSUME TypeOK, Restart PROVE TypeOK'
<1>1. NoRows \in Rows /\ NoPoints \in [Labels -> Ids \union {None}]
      /\ NoPoints \in [Labels -> Vectors \union {None}]
  BY DEF NoRows, NoPoints, Rows
<1>2. meta' \in Rows \union {Torn}
  <2>1. CASE UNCHANGED meta
    BY <2>1 DEF TypeOK, StoreTypeOK
  <2>2. ASSUME NEW p \in Procs, NEW S \in SUBSET Ids, pc[p] = "rewriting",
               meta' \in {[id \in Ids |-> IF id \in S THEN held[p][id] ELSE None], Torn}
        PROVE  meta' \in Rows \union {Torn}
    <3>1. held[p] \in Rows
      BY <2>2 DEF TypeOK, CallTypeOK
    <3>2. [id \in Ids |-> IF id \in S THEN held[p][id] ELSE None] \in Rows
      BY <3>1 DEF Rows
    <3> QED BY <2>2, <3>2
  <2> QED BY <2>1, <2>2, RestartMeta
<1>3. /\ nextLabel' \in 0 .. MaxLabel + 1
      /\ room' \in Nat /\ maxElements' \in Nat \ {0} /\ hashed' \in BOOLEAN
  <2>1. nextLabel' = 0 /\ room' = 0 /\ maxElements' = InitialMax /\ hashed' = FALSE
    BY DEF Restart, EmptyMemory
  <2>2. nextLabel' \in 0 .. MaxLabel + 1
    BY <2>1, MaxLabelAssumption
  <2>3. room' \in Nat /\ maxElements' \in Nat \ {0}
    BY <2>1, InitialMaxAssumption
  <2> QED BY <2>1, <2>2, <2>3
<1>7. restarts' \in 0 .. MaxCrashes
  <2>1. restarts' = restarts + 1 /\ restarts < MaxCrashes /\ restarts \in 0 .. MaxCrashes
    BY DEF Restart, TypeOK, StoreTypeOK
  <2> QED BY <2>1, MaxCrashesAssumption
<1>4. damaged' \subseteq {"meta", "manifest"}
  BY DEF Restart, TypeOK, StoreTypeOK
<1>5. StoreTypeOK'
  BY <1>1, <1>2, <1>3, <1>4, <1>7 DEF Restart, EmptyMemory, TypeOK, StoreTypeOK, Stages
<1>6. CallTypeOK'
  BY DEF Restart, CallTypeOK, Places
<1> QED BY <1>5, <1>6 DEF TypeOK

LEMMA HnswTypeStep == ASSUME TypeOK, [Next]_vars PROVE TypeOK'
<1>1. CASE UNCHANGED vars
  BY <1>1, StoreStays, CallsStay DEF vars, TypeOK
<1> QED BY <1>1, LoadType, AddsType, FilesType, OthersType, RestartType DEF Next

\* Types, for every interleaving of operations, loads and crashes of
\* hnsw.ts.
THEOREM HnswTypeOK == Spec => []TypeOK
<1> QED BY HnswTypeInit, HnswTypeStep, PTL DEF Spec

LEMMA AddsOverlapIsNext == ASSUME [AddsOverlapNext]_vars PROVE [Next]_vars
BY DEF AddsOverlapNext, Next

-----------------------------------------------------------------------------
(* Operations stay apart                                                   *)

\* Who may be at work beside an operation.
LEMMA Company ==
    ASSUME Apart, NEW p \in Procs, pc[p] # "idle"
    PROVE  /\ stage = "up"
           /\ \/ Adding(p) /\ \A q \in Procs : Adding(q) \/ pc[q] = "idle"
              \/ ~Adding(p) /\ \A q \in Procs \ {p} : pc[q] = "idle"
BY DEF Apart

\* One operation moves on, in company it may have.
LEMMA ApartMove ==
    ASSUME TypeOK, Apart, NEW p \in Procs, NEW place,
           stage = "up", stage' = stage,
           pc' = [pc EXCEPT ![p] = place], \A q \in Procs \ {p} : batch'[q] = batch[q],
           \/ place = "idle" /\ batch'[p] = {}
           \/ /\ batch'[p] # {} /\ place \in AddPlaces \union {"bump", "bumping"}
              /\ \A q \in Procs \ {p} : Adding(q) \/ pc[q] = "idle"
           \/ /\ batch'[p] = {} /\ place \notin AddPlaces
              /\ \A q \in Procs \ {p} : pc[q] = "idle"
    PROVE  Apart'
<1>1. pc'[p] = place /\ \A q \in Procs \ {p} : pc'[q] = pc[q]
  BY DEF TypeOK, CallTypeOK
<1> QED BY <1>1 DEF Apart, Adding, Clearing, Patching, AddPlaces

LEMMA ApartFiles == ASSUME TypeOK, Apart, NEW p \in Procs, Files(p) PROVE Apart'
<1>1. pc[p] # "idle" /\ stage' = stage
  BY DEF Files, OpenIndex, WriteIndex, OpenManifest, Mirror, Return, OpenMeta, WriteMeta, ClearIndex,
         UnlinkIndex, EmptyMeta, Waits, process
<1>2. CASE Return(p) \/ WriteMeta(p)
  <2>1. Forget(p)
    BY <1>2 DEF Return, WriteMeta
  <2>2. pc' = [pc EXCEPT ![p] = "idle"] /\ batch' = [batch EXCEPT ![p] = {}]
    BY <2>1 DEF Forget, At
  <2>3. batch'[p] = {} /\ \A q \in Procs \ {p} : batch'[q] = batch[q]
    BY <2>2 DEF TypeOK, CallTypeOK
  <2> QED BY <1>1, <2>2, <2>3, Company, ApartMove
<1>3. CASE OpenIndex(p) \/ WriteIndex(p) \/ Mirror(p) \/ OpenManifest(p)
  <2>1. /\ UNCHANGED batch
        /\ \/ pc[p] \in AddPlaces /\ At(p, "indexing")
           \/ pc[p] \in AddPlaces /\ At(p, "mirror")
           \/ pc[p] \in AddPlaces /\ At(p, "mirroring")
           \/ pc[p] \in AddPlaces /\ At(p, "bump")
           \/ pc[p] = "bump" /\ At(p, "bumping")
    BY <1>3 DEF OpenIndex, WriteIndex, Mirror, OpenManifest, Waits, locals, AddPlaces
  <2>2. pc[p] \in AddPlaces => Adding(p)
    BY DEF Apart
  <2> QED BY <1>1, <2>1, <2>2, Company, ApartMove DEF At, Adding, AddPlaces
<1>4. CASE OpenMeta(p) \/ ClearIndex(p) \/ UnlinkIndex(p) \/ EmptyMeta(p)
  <2>1. /\ UNCHANGED batch
        /\ Clearing(p) \/ Patching(p)
        /\ At(p, "rewriting") \/ At(p, "unlinking") \/ At(p, "emptying") \/ At(p, "bump")
    BY <1>4 DEF OpenMeta, ClearIndex, UnlinkIndex, EmptyMeta, Waits, locals, Clearing, Patching
  <2>2. ~Adding(p)
    BY <2>1 DEF Apart
  <2> QED BY <1>1, <2>1, <2>2, Company, ApartMove DEF At, Adding, AddPlaces
<1> QED BY <1>2, <1>3, <1>4 DEF Files

LEMMA ApartAdds ==
    ASSUME TypeOK, Apart, NEW p \in Procs,
           \/ /\ \A q \in Procs : Adding(q) \/ pc[q] = "idle"
              /\ \E ids \in NonEmpty(Ids) : Add(p, ids) \/ AddRefused(p, ids)
           \/ AddStep(p)
    PROVE  Apart'
<1>1. ASSUME NEW ids \in NonEmpty(Ids), Add(p, ids), \A q \in Procs : Adding(q) \/ pc[q] = "idle"
      PROVE  Apart'
  <2>1. /\ stage = "up" /\ stage' = stage
        /\ pc' = [pc EXCEPT ![p] = "append"] /\ batch' = [batch EXCEPT ![p] = ids]
    BY <1>1 DEF Add, Begin, Insert, At, process
  <2>3. ids # {} /\ batch \in [Procs -> SUBSET Ids]
    BY <1>1 DEF NonEmpty, TypeOK, CallTypeOK
  <2>2. batch'[p] # {} /\ \A q \in Procs \ {p} : batch'[q] = batch[q]
    BY <2>1, <2>3
  <2> QED BY <1>1, <2>1, <2>2, ApartMove DEF AddPlaces
<1>2. CASE (\E ids \in NonEmpty(Ids) : AddRefused(p, ids)) \/ NextRefused(p)
  <2>1. /\ stage = "up" /\ stage' = stage
        /\ pc' = [pc EXCEPT ![p] = "idle"] /\ batch' = [batch EXCEPT ![p] = {}]
    BY <1>2 DEF AddRefused, NextRefused, Begin, Refuse, Forget, At, process, Apart, AddPlaces
  <2>2. batch'[p] = {} /\ \A q \in Procs \ {p} : batch'[q] = batch[q]
    BY <2>1 DEF TypeOK, CallTypeOK
  <2> QED BY <2>1, <2>2, ApartMove
<1>3. CASE InsertNext(p) \/ AppendMeta(p) \/ PersistIndex(p)
  <2>1. /\ stage' = stage /\ UNCHANGED batch
        /\ pc[p] \in AddPlaces /\ pc[p] # "idle"
        /\ At(p, "append") \/ At(p, "appended") \/ At(p, "index")
    BY <1>3 DEF InsertNext, AppendMeta, PersistIndex, Insert, Waits, locals, process, AddPlaces
  <2>2. Adding(p)
    BY <2>1 DEF Apart
  <2> QED BY <2>1, <2>2, Company, ApartMove DEF At, Adding, AddPlaces
<1> QED BY <1>1, <1>2, <1>3 DEF AddStep

LEMMA ApartAlone ==
    ASSUME TypeOK, Apart, NEW p \in Procs, Quiet, SetFileHash(p) \/ Patch(p) \/ Clear(p)
    PROVE  Apart'
<1>1. /\ stage = "up" /\ stage' = stage /\ UNCHANGED batch
      /\ At(p, "bump") \/ At(p, "rewrite") \/ At(p, "cleared")
  BY DEF SetFileHash, Patch, Clear, Waits, locals, process
<1>2. ~Adding(p) /\ \A q \in Procs : pc[q] = "idle"
  BY DEF Apart, Quiet
<1> QED BY <1>1, <1>2, ApartMove DEF At, Adding, AddPlaces

LEMMA ApartStep == ASSUME TypeOK, Apart, [AddsOverlapNext]_vars PROVE Apart'
<1>1. CASE UNCHANGED vars
  BY <1>1 DEF vars, process, locals, Apart, Adding, Clearing, Patching
<1>2. CASE Load
  <2>1. UNCHANGED <<pc, batch>> /\ \A p \in Procs : pc[p] = "idle"
    BY <1>2 DEF Load, LoadFresh, LoadIndex, LoadOtherModel, LoadTruncate, LoadMetadata, LoadStep,
                locals, Apart
  <2> QED BY <2>1 DEF Apart, Adding
<1>3. CASE Restart
  <2>1. \A p \in Procs : pc'[p] = "idle" /\ batch'[p] = {}
    BY <1>3 DEF Restart
  <2> QED BY <2>1 DEF Apart, Adding, AddPlaces
<1> QED BY <1>1, <1>2, <1>3, ApartAdds, ApartFiles, ApartAlone DEF AddsOverlapNext

-----------------------------------------------------------------------------
(* Labels in memory and in the metadata file                               *)

\* Two documents of an open store have two labels.
LEMMA LabelsDiffer ==
    ASSUME LabelInv, stage = "up", NEW i \in Ids, NEW j \in Ids, label[i] # None, label[i] = label[j]
    PROVE  i = j
BY DEF LabelInv

\* Steps that touch neither labels nor rows.
LEMMA LabelsKept ==
    ASSUME LabelInv, RowInv, UNCHANGED <<stage, byId, labels, meta>>,
           \A q \in Procs : pc'[q] = "append" => pc[q] = "append" /\ current'[q] = current[q],
           \A q \in Procs : Patching(q)' => Patching(q) /\ held'[q] = held[q],
           (\A q \in Procs : ~Clearing(q)') => \A q \in Procs : ~Clearing(q)
    PROVE  LabelInv' /\ RowInv'
<1>1. LabelInv'
  BY DEF LabelInv, labels
<1>2. RowInv'
  BY DEF RowInv, Settled, DistinctRows, labels
<1> QED BY <1>1, <1>2

\* The same for one operation that moves on.
LEMMA LabelsKeptMove ==
    ASSUME TypeOK, LabelInv, RowInv, NEW p \in Procs, NEW place,
           UNCHANGED <<stage, byId, labels, meta>>,
           pc' = [pc EXCEPT ![p] = place], place \notin {"append", "rewrite", "rewriting"},
           Clearing(p) => place \in {"cleared", "unlinking", "emptying"},
           \A q \in Procs \ {p} : current'[q] = current[q] /\ held'[q] = held[q]
    PROVE  LabelInv' /\ RowInv'
<1>1. pc'[p] = place /\ \A q \in Procs \ {p} : pc'[q] = pc[q]
  BY DEF TypeOK, CallTypeOK
<1>2. \A q \in Procs : pc'[q] = "append" => pc[q] = "append" /\ current'[q] = current[q]
  BY <1>1
<1>3. \A q \in Procs : Patching(q)' => Patching(q) /\ held'[q] = held[q]
  BY <1>1 DEF Patching
<1>4. (\A q \in Procs : ~Clearing(q)') => \A q \in Procs : ~Clearing(q)
  BY <1>1 DEF Clearing
<1> QED BY <1>2, <1>3, <1>4, LabelsKept

LEMMA LabelLoad == ASSUME TypeOK, LInv, Load PROVE LabelInv' /\ RowInv'
<1>1. /\ UNCHANGED <<pc, current, held>> /\ \A p \in Procs : pc[p] = "idle"
  BY DEF Load, LoadFresh, LoadIndex, LoadOtherModel, LoadTruncate, LoadMetadata, LoadStep,
         locals, LInv, Apart
<1>2. CASE LoadFresh \/ LoadIndex \/ LoadOtherModel
  <2>1. stage' # "up" /\ UNCHANGED meta
    BY <1>2 DEF LoadFresh, LoadIndex, LoadOtherModel, files
  <2> QED BY <1>1, <2>1 DEF LabelInv, RowInv, LInv, Patching, Settled, DistinctRows
<1>3. CASE LoadTruncate
  <2>1. stage' # "up" /\ meta' = NoRows
    BY <1>3 DEF LoadTruncate
  <2> QED BY <1>1, <2>1 DEF LabelInv, RowInv, Patching, Settled, DistinctRows, NoRows
<1>4. CASE LoadMetadata
  <2>1. /\ meta # Torn /\ meta \in Rows /\ DistinctRows(meta)
        /\ byId' = Named(meta) /\ label' = meta /\ meta' = meta
        /\ \A l \in LabelsIn(meta) : l < nextLabel'
    BY <1>4 DEF LoadMetadata, TypeOK, StoreTypeOK, LInv, RowInv, files
  <2>2. PICK pick \in Owners(meta) :
           owner' = [l \in Labels |-> IF l \in DOMAIN pick THEN pick[l] ELSE None]
    BY <1>4 DEF LoadMetadata
  <2>3. ASSUME NEW id \in Ids, meta[id] # None
        PROVE  meta[id] < nextLabel' /\ owner'[meta[id]] = id
    <3>1. meta[id] \in LabelsIn(meta) /\ meta[id] \in Labels
      BY <2>1, <2>3 DEF LabelsIn, Named, Rows
    <3>2. pick[meta[id]] \in Ids /\ meta[pick[meta[id]]] = meta[id]
      BY <2>2, <3>1 DEF Owners, Named
    <3>3. pick[meta[id]] = id
      BY <2>1, <2>3, <3>2 DEF DistinctRows
    <3>4. meta[id] \in DOMAIN pick
      BY <2>2, <3>1 DEF Owners
    <3> QED BY <2>1, <2>2, <3>1, <3>3, <3>4
  <2>4. LabelInv'
    BY <1>1, <2>1, <2>3 DEF LabelInv, Named
  <2>5. RowInv'
    BY <1>1, <2>1 DEF RowInv, Patching, DistinctRows
  <2> QED BY <2>4, <2>5
<1> QED BY <1>2, <1>3, <1>4 DEF Load

\* A label is given to a document: the others keep theirs.
LEMMA AllocateKeeps ==
    ASSUME TypeOK, LabelInv, stage = "up", NEW id \in Ids, AllocateLabel(id)
    PROVE  /\ \A i \in Ids : label'[i] # None => label'[i] < nextLabel' /\ owner'[label'[i]] = i
           /\ \A i \in Ids : label[i] # None => label'[i] = label[i]
           /\ label'[id] = LabelOf(id) /\ label'[id] # None
<1>1. /\ label \in Rows /\ owner \in [Labels -> Ids \union {None}]
      /\ nextLabel \in 0 .. MaxLabel + 1
      /\ \A i \in Ids : label[i] # None => label[i] < nextLabel /\ owner[label[i]] = i
  BY DEF TypeOK, StoreTypeOK, LabelInv
<1>2. CASE label[id] # None
  BY <1>1, <1>2 DEF AllocateLabel, LabelOf, labels
<1>3. CASE label[id] = None
  <2>1. /\ label' = [label EXCEPT ![id] = nextLabel]
        /\ owner' = [owner EXCEPT ![nextLabel] = id]
        /\ nextLabel' = nextLabel + 1 /\ nextLabel \in Labels
    BY <1>1, <1>3, MaxLabelAssumption DEF AllocateLabel, Labels
  <2>2. label'[id] = nextLabel /\ \A i \in Ids \ {id} : label'[i] = label[i]
    BY <1>1, <2>1 DEF Rows
  <2>3. owner'[nextLabel] = id /\ \A l \in Labels \ {nextLabel} : owner'[l] = owner[l]
    BY <1>1, <2>1
  <2>4. nextLabel # None /\ nextLabel < nextLabel'
    BY <1>1, <2>1, NoneAssumption, MaxLabelAssumption
  <2>5. ASSUME NEW i \in Ids \ {id}, label[i] # None
        PROVE  label'[i] < nextLabel' /\ owner'[label'[i]] = i
    <3>1. label[i] \in Labels /\ label[i] < nextLabel /\ owner[label[i]] = i
      BY <1>1, <2>5 DEF Rows
    <3>2. label[i] # nextLabel /\ label[i] < nextLabel'
      BY <3>1, <1>1, <2>1, MaxLabelAssumption DEF Labels
    <3> QED BY <3>1, <3>2, <2>2, <2>3
  <2> QED BY <1>3, <2>2, <2>3, <2>4, <2>5 DEF LabelOf
<1> QED BY <1>2, <1>3

\* An insertion, or one that is refused: p appends its row, or gives up.
LEMMA LabelAdds ==
    ASSUME TypeOK, LInv, NEW p \in Procs, NEW id \in Ids, AllocateLabel(id),
           stage = "up", UNCHANGED <<stage, meta>>,
           \A q \in Procs : ~Clearing(q) /\ ~Patching(q),
           \/ /\ byId' = byId \union {id} /\ At(p, "append")
              /\ current' = [current EXCEPT ![p] = [id |-> id, label |-> LabelOf(id)]]
           \/ byId' = byId /\ At(p, "idle") /\ current' = [current EXCEPT ![p] = None]
    PROVE  LabelInv' /\ RowInv'
<1>1. LabelInv /\ RowInv
  BY DEF LInv
<1>2. /\ \A i \in Ids : label'[i] # None => label'[i] < nextLabel' /\ owner'[label'[i]] = i
      /\ \A i \in Ids : label[i] # None => label'[i] = label[i]
      /\ label'[id] = LabelOf(id) /\ label'[id] # None
  BY <1>1, AllocateKeeps
<1>3. /\ \A q \in Procs \ {p} : pc'[q] = pc[q] /\ current'[q] = current[q]
      /\ \/ byId' = byId \union {id} /\ pc'[p] = "append"
            /\ current'[p] = [id |-> id, label |-> LabelOf(id)]
         \/ byId' = byId /\ pc'[p] = "idle"
  BY DEF TypeOK, CallTypeOK, At
<1>4. \A i \in byId' : label'[i] # None
  <2>1. byId \subseteq Ids /\ \A i \in byId : label[i] # None
    BY <1>1 DEF LabelInv, TypeOK, StoreTypeOK
  <2> QED BY <1>2, <1>3, <2>1
<1>5. ASSUME NEW q \in Procs, pc'[q] = "append" PROVE label'[current'[q].id] = current'[q].label
  <2>1. CASE q = p
    BY <1>2, <1>3, <1>5, <2>1
  <2>2. CASE q # p
    <3>1. current[q] \in [id : Ids, label : Labels] /\ label[current[q].id] = current[q].label
      BY <1>1, <1>3, <1>5, <2>2 DEF LabelInv, TypeOK, CallTypeOK
    <3>2. current[q].label # None
      BY <3>1, NoneAssumption DEF Labels
    <3> QED BY <1>2, <1>3, <2>2, <3>1, <3>2
  <2> QED BY <2>1, <2>2
<1>6. LabelInv'
  BY <1>2, <1>4, <1>5 DEF LabelInv
<1>7. \A q \in Procs : ~Patching(q)'
  BY <1>3 DEF Patching
<1>8. \A i \in Ids : meta # Torn => meta[i] \in {None, label'[i]}
  <2>1. \A i \in Ids : meta # Torn => meta[i] \in {None, label[i]}
    BY <1>1 DEF RowInv, Settled
  <2> QED BY <1>2, <2>1
<1>9. RowInv'
  BY <1>1, <1>7, <1>8 DEF RowInv, DistinctRows
<1> QED BY <1>6, <1>9

\* While an add runs no operation of another kind does.
LEMMA AddersOnly ==
    ASSUME Apart, \A q \in Procs : Adding(q) \/ pc[q] = "idle"
    PROVE  \A q \in Procs : ~Clearing(q) /\ ~Patching(q)
BY DEF Apart, Clearing, Patching

LEMMA LabelAddSteps ==
    ASSUME TypeOK, LInv, NEW p \in Procs,
           \/ /\ \A q \in Procs : Adding(q) \/ pc[q] = "idle"
              /\ \E ids \in NonEmpty(Ids) : Add(p, ids) \/ AddRefused(p, ids)
           \/ AddStep(p)
    PROVE  LabelInv' /\ RowInv'
<1>1. Apart /\ LabelInv /\ RowInv
  BY DEF LInv
<1>2. /\ stage = "up"
      /\ \A q \in Procs : ~Clearing(q) /\ ~Patching(q)
  <2>1. CASE AddStep(p)
    <3>1. pc[p] \in AddPlaces /\ pc[p] # "idle"
      BY <2>1 DEF AddStep, InsertNext, NextRefused, AppendMeta, PersistIndex, AddPlaces
    <3>2. Adding(p)
      BY <1>1, <3>1 DEF Apart
    <3> QED BY <1>1, <3>1, <3>2, Company, AddersOnly
  <2>2. CASE /\ \A q \in Procs : Adding(q) \/ pc[q] = "idle"
             /\ \E ids \in NonEmpty(Ids) : Add(p, ids) \/ AddRefused(p, ids)
    BY <1>1, <2>2, AddersOnly DEF Add, AddRefused, Begin
  <2> QED BY <2>1, <2>2
<1>3. CASE (\E ids \in NonEmpty(Ids) : Add(p, ids) \/ AddRefused(p, ids))
           \/ InsertNext(p) \/ NextRefused(p)
  <2>1. /\ UNCHANGED <<stage, meta>>
        /\ \E ids \in SUBSET Ids, capacity \in {room, room'} :
              Insert(p, ids, capacity) \/ Refuse(p, ids, capacity)
    BY <1>3 DEF Add, AddRefused, InsertNext, NextRefused, process, files, NonEmpty,
                TypeOK, CallTypeOK
  <2>2. PICK ids \in SUBSET Ids, capacity \in {room, room'} :
           Insert(p, ids, capacity) \/ Refuse(p, ids, capacity)
    BY <2>1
  <2>3. CASE Insert(p, ids, capacity)
    <3>1. PICK id \in ids :
             /\ AllocateLabel(id)
             /\ byId' = byId \union {id}
             /\ current' = [current EXCEPT ![p] = [id |-> id, label |-> LabelOf(id)]]
             /\ At(p, "append")
      BY <2>3 DEF Insert
    <3> QED BY <1>2, <2>1, <3>1, LabelAdds
  <2>4. CASE Refuse(p, ids, capacity)
    <3>1. PICK id \in ids : AllocateLabel(id)
      BY <2>4 DEF Refuse
    <3>2. byId' = byId /\ At(p, "idle") /\ current' = [current EXCEPT ![p] = None]
      BY <2>4 DEF Refuse, Forget
    <3> QED BY <1>2, <2>1, <3>1, <3>2, LabelAdds
  <2> QED BY <2>2, <2>3, <2>4
<1>4. CASE PersistIndex(p)
  <2>1. /\ UNCHANGED <<stage, byId, labels, meta, current, held>>
        /\ pc' = [pc EXCEPT ![p] = "index"]
    BY <1>4 DEF PersistIndex, Waits, process, memory, locals, files, At
  <2> QED BY <1>1, <1>2, <2>1, LabelsKeptMove
<1>5. CASE AppendMeta(p)
  <2>1. /\ current[p] \in [id : Ids, label : Labels]
        /\ label[current[p].id] = current[p].label
        /\ meta' = IF meta = Torn THEN Torn ELSE [meta EXCEPT ![current[p].id] = current[p].label]
        /\ UNCHANGED <<stage, byId, label, owner, nextLabel, current, held>>
        /\ pc' = [pc EXCEPT ![p] = "appended"]
    BY <1>1, <1>5 DEF AppendMeta, Waits, process, memory, labels, locals, At, LabelInv, TypeOK, CallTypeOK
  <2>2. /\ pc'[p] = "appended" /\ \A q \in Procs \ {p} : pc'[q] = pc[q]
    BY <2>1 DEF TypeOK, CallTypeOK
  <2>3. LabelInv'
    BY <1>1, <2>1, <2>2 DEF LabelInv
  <2>4. \A q \in Procs : ~Patching(q)'
    BY <1>2, <2>2 DEF Patching
  <2>5. meta # Torn => meta \in Rows /\ \A i \in Ids : meta[i] \in {None, label[i]}
    BY <1>1, <1>2 DEF RowInv, Settled, TypeOK, StoreTypeOK
  <2>6. meta # Torn => \A i \in Ids : meta'[i] \in {None, label[i]}
    BY <2>1, <2>5 DEF Rows
  <2>7. meta = Torn => meta' = Torn
    BY <2>1
  <2>8. meta' # Torn => DistinctRows(meta')
    BY <1>1, <1>2, <2>6, <2>7, LabelsDiffer DEF DistinctRows
  <2>9. RowInv'
    BY <2>1, <2>4, <2>6, <2>7, <2>8 DEF RowInv
  <2> QED BY <2>3, <2>9
<1> QED BY <1>3, <1>4, <1>5 DEF AddStep

LEMMA LabelFiles == ASSUME TypeOK, LInv, NEW p \in Procs, Files(p) PROVE LabelInv' /\ RowInv'
<1>1. Apart /\ LabelInv /\ RowInv
  BY DEF LInv
<1>2. stage' = stage /\ UNCHANGED <<byId, labels>> /\ stage = "up"
  BY <1>1 DEF Files, OpenIndex, WriteIndex, OpenManifest, Mirror, Return, OpenMeta, WriteMeta, ClearIndex,
         UnlinkIndex, EmptyMeta, Waits, process, memory, Apart
<1>3. CASE OpenIndex(p) \/ WriteIndex(p) \/ OpenManifest(p) \/ Mirror(p)
  <2>1. /\ UNCHANGED <<meta, current>> /\ \E value : held' = [held EXCEPT ![p] = value]
        /\ ~Clearing(p)
        /\ At(p, "indexing") \/ At(p, "mirror") \/ At(p, "mirroring") \/ At(p, "bumping") \/ At(p, "bump")
    BY <1>3 DEF OpenIndex, WriteIndex, OpenManifest, Mirror, WriteManifest, Waits, locals, Hold, Clearing
  <2>2. \A q \in Procs \ {p} : current'[q] = current[q] /\ held'[q] = held[q]
    BY <2>1 DEF TypeOK, CallTypeOK
  <2> QED BY <1>1, <1>2, <2>1, <2>2, LabelsKeptMove DEF At
<1>4. CASE Return(p)
  <2>1. /\ UNCHANGED meta /\ held' = [held EXCEPT ![p] = None] /\ current' = [current EXCEPT ![p] = None]
        /\ ~Clearing(p) /\ pc' = [pc EXCEPT ![p] = "idle"]
    BY <1>4 DEF Return, WriteManifest, Forget, Hold, At, Clearing
  <2>2. \A q \in Procs \ {p} : current'[q] = current[q] /\ held'[q] = held[q]
    BY <2>1 DEF TypeOK, CallTypeOK
  <2> QED BY <1>1, <1>2, <2>1, <2>2, LabelsKeptMove
<1>5. CASE ClearIndex(p) \/ UnlinkIndex(p)
  <2>1. At(p, "unlinking") \/ At(p, "emptying")
    BY <1>5 DEF ClearIndex, UnlinkIndex
  <2>2. UNCHANGED <<meta, current, held>>
    BY <1>5 DEF ClearIndex, UnlinkIndex, Waits, locals, files
  <2> QED BY <1>1, <1>2, <2>1, <2>2, LabelsKeptMove DEF At
<1>6. CASE EmptyMeta(p) \/ OpenMeta(p)
  <2>1. /\ meta' = NoRows /\ UNCHANGED <<current, held>>
        /\ \/ pc' = [pc EXCEPT ![p] = "bump"]
           \/ pc[p] = "rewrite" /\ pc' = [pc EXCEPT ![p] = "rewriting"]
    BY <1>6 DEF EmptyMeta, OpenMeta, Waits, locals, At
  <2>2. \A q \in Procs : (pc'[q] = "append" => pc[q] = "append") /\ (Patching(q)' => Patching(q))
    BY <2>1 DEF Patching, TypeOK, CallTypeOK
  <2>3. LabelInv'
    BY <1>1, <1>2, <2>1, <2>2 DEF LabelInv, labels
  <2>4. RowInv'
    BY <1>1, <1>2, <2>1, <2>2 DEF RowInv, DistinctRows, NoRows, labels
  <2> QED BY <2>3, <2>4
<1>7. CASE WriteMeta(p)
  <2>1. /\ pc[p] = "rewriting" /\ meta' \in {held[p], Torn}
        /\ pc' = [pc EXCEPT ![p] = "idle"]
        /\ current' = [current EXCEPT ![p] = None] /\ held' = [held EXCEPT ![p] = None]
    BY <1>7 DEF WriteMeta, Forget, Hold, At
  <2>2. /\ pc'[p] = "idle"
        /\ \A q \in Procs \ {p} : pc'[q] = pc[q] /\ current'[q] = current[q] /\ held'[q] = held[q]
    BY <2>1 DEF TypeOK, CallTypeOK
  <2>3. LabelInv'
    BY <1>1, <1>2, <2>2 DEF LabelInv, labels
  <2>4. \A i \in Ids : held[p][i] \in {None, label[i]}
    BY <1>1, <2>1 DEF RowInv, Patching
  <2>5. DistinctRows(held[p])
    BY <1>1, <1>2, <2>4, LabelsDiffer DEF DistinctRows
  <2>6. RowInv'
    BY <1>1, <1>2, <2>1, <2>2, <2>4, <2>5 DEF RowInv, Patching, labels
  <2> QED BY <2>3, <2>6
<1> QED BY <1>3, <1>4, <1>5, <1>6, <1>7 DEF Files

LEMMA LabelAlone ==
    ASSUME TypeOK, LInv, NEW p \in Procs, Quiet, SetFileHash(p) \/ Patch(p) \/ Clear(p)
    PROVE  LabelInv' /\ RowInv'
<1>1. LabelInv /\ RowInv /\ \A q \in Procs : pc[q] = "idle"
  BY DEF LInv, Quiet
<1>2. CASE SetFileHash(p)
  <2>1. UNCHANGED <<stage, byId, labels, meta, current, held>> /\ pc' = [pc EXCEPT ![p] = "bump"]
    BY <1>2 DEF SetFileHash, process, files, locals, At
  <2> QED BY <1>1, <2>1, LabelsKeptMove DEF Clearing
<1>3. CASE Patch(p)
  <2>1. /\ UNCHANGED <<stage, byId, label, owner, nextLabel, meta>>
        /\ held' = [held EXCEPT ![p] = OwnedRows] /\ pc' = [pc EXCEPT ![p] = "rewrite"]
    BY <1>3 DEF Patch, Waits, process, memory, labels, files, Hold, At
  <2>2. held'[p] = OwnedRows /\ pc'[p] = "rewrite" /\ \A q \in Procs \ {p} : pc'[q] = "idle"
    BY <1>1, <2>1 DEF TypeOK, CallTypeOK
  <2>3. \A i \in Ids : OwnedRows[i] \in {None, label[i]}
    BY DEF OwnedRows
  <2>4. LabelInv'
    BY <1>1, <2>1, <2>2 DEF LabelInv
  <2>5. Settled
    BY <1>1, <1>3 DEF Settled, Clearing, Patch
  <2>6. RowInv'
    BY <1>1, <2>1, <2>2, <2>3, <2>5 DEF RowInv, Patching, DistinctRows
  <2> QED BY <2>4, <2>6
<1>4. CASE Clear(p)
  <2>1. /\ byId' = {} /\ label' = NoRows /\ UNCHANGED meta
        /\ pc' = [pc EXCEPT ![p] = "cleared"]
    BY <1>4 DEF Clear, files, At
  <2>2. pc'[p] = "cleared" /\ \A q \in Procs \ {p} : pc'[q] = "idle"
    BY <1>1, <2>1 DEF TypeOK, CallTypeOK
  <2>3. LabelInv'
    BY <2>1, <2>2 DEF LabelInv, NoRows
  <2>4. RowInv'
    BY <1>1, <2>1, <2>2 DEF RowInv, Patching, Settled, Clearing, DistinctRows
  <2> QED BY <2>3, <2>4
<1> QED BY <1>2, <1>3, <1>4

LEMMA LabelRestart == ASSUME TypeOK, LInv, Restart PROVE LabelInv' /\ RowInv'
<1>1. Apart /\ LabelInv /\ RowInv
  BY DEF LInv
<1>2. stage' = "down" /\ \A q \in Procs : pc'[q] = "idle"
  BY DEF Restart
<1>3. meta' # Torn => DistinctRows(meta')
  <2>1. CASE UNCHANGED meta
    BY <1>1, <2>1 DEF RowInv, DistinctRows
  <2>2. ASSUME NEW p \in Procs, NEW S \in SUBSET Ids, pc[p] = "rewriting",
               meta' = [id \in Ids |-> IF id \in S THEN held[p][id] ELSE None]
        PROVE  DistinctRows(meta')
    <3>1. stage = "up" /\ \A i \in Ids : held[p][i] \in {None, label[i]}
      BY <1>1, <2>2 DEF Apart, RowInv, Patching
    <3>2. \A i \in Ids : meta'[i] \in {None, label[i]}
      BY <2>2, <3>1
    <3> QED BY <1>1, <3>1, <3>2, LabelsDiffer DEF DistinctRows
  <2> QED BY <2>1, <2>2, RestartMeta
<1>4. LabelInv' /\ RowInv'
  BY <1>2, <1>3 DEF LabelInv, RowInv, Patching, Settled
<1> QED BY <1>4

LEMMA LabelStep == ASSUME TypeOK, LInv, [AddsOverlapNext]_vars PROVE LInv'
<1>1. Apart'
  BY ApartStep DEF LInv
<1>2. CASE UNCHANGED vars
  <2>1. UNCHANGED <<stage, byId, labels, meta, pc, current, held>>
    BY <1>2 DEF vars, process, memory, files, locals
  <2> QED BY <1>1, <2>1, LabelsKept DEF LInv, Patching, Clearing
<1> QED BY <1>1, <1>2, LabelLoad, LabelAddSteps, LabelFiles, LabelAlone, LabelRestart
        DEF AddsOverlapNext, LInv

LEMMA LabelInit == ASSUME Init PROVE LInv
BY DEF Init, LInv, Apart, LabelInv, RowInv, Settled, Adding, Clearing, Patching, AddPlaces,
       DistinctRows, NoRows

\* Labels lead to one document each, for every number of calls, documents,
\* models and crashes, as long as only adds of hnsw.ts overlap.
THEOREM HnswLabelsDistinct == AddsOverlapSpec => []LabelsDistinct
<1>1. TypeOK /\ LInv => LabelsDistinct
  <2> SUFFICES ASSUME TypeOK, LInv, stage = "up", NEW id \in byId
               PROVE  label[id] \in Labels /\ owner[label[id]] = id
    BY DEF LabelsDistinct
  <2>1. id \in Ids /\ label[id] # None /\ label \in Rows
    BY DEF TypeOK, StoreTypeOK, LInv, LabelInv
  <2> QED BY <2>1 DEF Rows, LInv, LabelInv
<1>2. Init => TypeOK /\ LInv
  BY HnswTypeInit, LabelInit
<1>3. TypeOK /\ LInv /\ [AddsOverlapNext]_vars => TypeOK' /\ LInv'
  BY HnswTypeStep, AddsOverlapIsNext, LabelStep
<1> QED BY <1>1, <1>2, <1>3, PTL DEF AddsOverlapSpec

-----------------------------------------------------------------------------
(* What an add has reported stays, when only adds overlap: its row is in   *)
(* the metadata file (AckedListed) and search finds it (AckedSearchable),  *)
(* through any number of restarts.                                         *)

Persisting(p) == pc[p] \in {"index", "indexing", "mirror", "mirroring", "bump", "bumping"}

\* How far the batches have come.
BatchInv ==
    \A p \in Procs :
        /\ todo[p] \subseteq batch[p]
        /\ Persisting(p) => todo[p] = {}
        /\ pc[p] = "append" => current[p].id \in byId

\* What of a batch is in the metadata file.
Pending(p) == todo[p] \union {id \in Ids : pc[p] = "append" /\ current[p].id = id}
Logged(p) == batch[p] \ Pending(p)

\* Acknowledged documents keep their rows, through a rewrite too.
ListInv ==
    "meta" \notin damaged =>
        /\ (\A p \in Procs : pc[p] # "rewriting") => meta # Torn /\ acked \subseteq Named(meta)
        /\ \A p \in Procs : pc[p] = "rewriting" => meta = NoRows
        /\ \A p \in Procs : Patching(p) => acked \subseteq Named(held[p]) /\ Named(held[p]) \subseteq byId
        /\ \A p \in Procs : Clearing(p) => acked = {}
        /\ stage = "truncating" => acked = {}
        /\ Settled => Named(meta) \subseteq byId
        /\ \A p \in Procs : Logged(p) \subseteq Named(meta)

\* The label and the model under which an acknowledged document is kept.
Lab(id) == IF stage = "up" THEN label[id] ELSE meta[id]
Open == stage \in {"replaying", "up"}
Kept(id) == <<id, IF Open THEN model ELSE manifest.model>>
Saved(p) == Adding(p) /\ pc[p] \in {"mirror", "mirroring", "bump", "bumping"}
Writing(p) == pc[p] \in {"mirroring", "bumping"}

\* The vectors in memory.
PointsInv ==
    /\ Open => \A id \in acked : points[Lab(id)] = <<id, model>>
    /\ \A p \in Procs : \A id \in batch[p] \ todo[p] :
          id \in byId /\ points[label[id]] = <<id, model>>

\* The vectors in the index file, when that can be read.
IndexInv ==
    /\ index \notin {NoFile, Torn} =>
          /\ \A id \in acked : index.points[Lab(id)] = Kept(id)
          /\ \A p \in Procs : Saved(p) => \A id \in batch[p] : index.points[label[id]] = <<id, model>>
    /\ \A p \in Procs : Saved(p) \/ pc[p] = "indexing" => index # NoFile
    /\ acked # {} => index # NoFile

\* A manifest that can be read names the model of the vectors, and no restart
\* found one that could not.
ManifestInv ==
    /\ acked # {} => manifest # NoFile
    /\ acked # {} /\ Open /\ manifest # Torn => manifest.model = model
    /\ stage # "up" => manifest # Torn
    /\ \A p \in Procs : Writing(p) =>
          /\ held[p].model = model /\ held[p].hashed = hashed
          /\ manifest # NoFile
          /\ manifest # Torn => manifest.model = model /\ manifest.hashed = hashed

SearchInv == damaged = {} => PointsInv /\ IndexInv /\ ManifestInv

SInv == LInv /\ BatchInv /\ ListInv /\ SearchInv
-----------------------------------------------------------------------------
(* One operation takes a step                                              *)

AddOf(p) == \E ids \in NonEmpty(Ids) : Add(p, ids) \/ AddRefused(p, ids)
AloneOf(p) == SetFileHash(p) \/ Patch(p) \/ Clear(p)
StepOf(p) ==
    \/ AddOf(p) /\ \A q \in Procs : Adding(q) \/ pc[q] = "idle"
    \/ AddStep(p) \/ Files(p)
    \/ AloneOf(p) /\ Quiet

LEMMA OnlyTheseSteps ==
    ASSUME [AddsOverlapNext]_vars
    PROVE  Load \/ Restart \/ UNCHANGED vars \/ \E p \in Procs : StepOf(p)
BY DEF AddsOverlapNext, StepOf, AloneOf, AddOf

Others(p) ==
    \A q \in Procs \ {p} :
        /\ pc'[q] = pc[q] /\ held'[q] = held[q] /\ current'[q] = current[q]
        /\ batch'[q] = batch[q] /\ todo'[q] = todo[q]

LEMMA OthersWait == ASSUME TypeOK, NEW p \in Procs, StepOf(p) PROVE Others(p)
<1>1. /\ pc \in [Procs -> Places] /\ batch \in [Procs -> SUBSET Ids] /\ todo \in [Procs -> SUBSET Ids]
      /\ current \in [Procs -> [id : Ids, label : Labels] \union {None}]
      /\ held \in [Procs -> Rows \union Index \union Manifest \union {None}]
  BY DEF TypeOK, CallTypeOK
<1>2. ASSUME Forget(p) PROVE Others(p)
  BY <1>1, <1>2 DEF Forget, At, Hold, Others
<1>3. CASE \E ids \in NonEmpty(Ids) : Add(p, ids)
  BY <1>1, <1>3 DEF Add, Insert, At, Others
<1>4. CASE InsertNext(p)
  BY <1>1, <1>4 DEF InsertNext, Insert, At, Others
<1>5. CASE NextRefused(p) \/ Return(p) \/ WriteMeta(p) \/ \E ids \in NonEmpty(Ids) : AddRefused(p, ids)
  BY <1>2, <1>5 DEF AddRefused, NextRefused, Refuse, Return, WriteMeta
<1>6. CASE \/ AppendMeta(p) \/ PersistIndex(p) \/ OpenIndex(p) \/ WriteIndex(p) \/ OpenManifest(p)
           \/ Mirror(p) \/ OpenMeta(p) \/ ClearIndex(p) \/ UnlinkIndex(p) \/ EmptyMeta(p) \/ AloneOf(p)
  <2>1. /\ UNCHANGED locals /\ \E place : At(p, place)
        /\ UNCHANGED held \/ \E value : Hold(p, value)
    BY <1>6 DEF AppendMeta, PersistIndex, OpenIndex, WriteIndex, OpenManifest, Mirror, OpenMeta, ClearIndex,
                UnlinkIndex, EmptyMeta, AloneOf, SetFileHash, Patch, Clear, Waits
  <2> QED BY <1>1, <2>1 DEF locals, At, Hold, Others
<1> QED BY <1>3, <1>4, <1>5, <1>6 DEF StepOf, AddOf, AddStep, Files

\* The fields of p itself.
LEMMA OwnFields ==
    ASSUME TypeOK, NEW p \in Procs
    PROVE  /\ \A place : At(p, place) => pc'[p] = place
           /\ \A value : Hold(p, value) => held'[p] = value
           /\ Forget(p) => pc'[p] = "idle" /\ batch'[p] = {} /\ todo'[p] = {}
BY DEF TypeOK, CallTypeOK, At, Hold, Forget

LEMMA InsertOwn ==
    ASSUME TypeOK, NEW p \in Procs, NEW ids \in SUBSET Ids, NEW capacity, Insert(p, ids, capacity)
    PROVE  \E id \in ids :
              /\ AllocateLabel(id)
              /\ points' = [points EXCEPT ![LabelOf(id)] = <<id, model>>]
              /\ byId' = byId \union {id}
              /\ current'[p] = [id |-> id, label |-> LabelOf(id)]
              /\ todo'[p] = ids \ {id}
              /\ pc'[p] = "append"
<1>1. PICK id \in ids :
         /\ AllocateLabel(id)
         /\ points' = [points EXCEPT ![LabelOf(id)] = <<id, model>>]
         /\ byId' = byId \union {id}
         /\ current' = [current EXCEPT ![p] = [id |-> id, label |-> LabelOf(id)]]
         /\ todo' = [todo EXCEPT ![p] = ids \ {id}]
         /\ At(p, "append")
  BY DEF Insert
<1>2. current'[p] = [id |-> id, label |-> LabelOf(id)] /\ todo'[p] = ids \ {id} /\ pc'[p] = "append"
  BY <1>1 DEF TypeOK, CallTypeOK, At
<1> QED BY <1>1, <1>2

-----------------------------------------------------------------------------
(* Batches                                                                 *)

LEMMA BatchMove ==
    ASSUME BatchInv, NEW p \in Procs, Others(p), byId \subseteq byId',
           todo'[p] \subseteq batch'[p], Persisting(p)' => todo'[p] = {},
           pc'[p] = "append" => current'[p].id \in byId'
    PROVE  BatchInv'
BY DEF BatchInv, Others, Persisting

LEMMA BatchStepOf ==
    ASSUME TypeOK, BatchInv, Apart, NEW p \in Procs, StepOf(p)
    PROVE  BatchInv'
<1>1. Others(p)
  BY OthersWait
<1>2. CASE (\E ids \in NonEmpty(Ids) : AddRefused(p, ids)) \/ NextRefused(p) \/ Return(p) \/ WriteMeta(p)
  <2>1. Forget(p) /\ byId' = byId
    BY <1>2 DEF AddRefused, NextRefused, Refuse, Return, WriteMeta, memory
  <2> QED BY <1>1, <2>1, OwnFields, BatchMove DEF Persisting
<1>3. ASSUME NEW ids \in NonEmpty(Ids), Add(p, ids) PROVE BatchInv'
  <2>3. ids \in SUBSET Ids /\ Insert(p, ids, room')
    BY <1>3 DEF Add, NonEmpty
  <2>1. batch'[p] = ids
    BY <1>3, <2>3 DEF Add, TypeOK, CallTypeOK
  <2>2. PICK id \in ids :
           byId' = byId \union {id} /\ current'[p] = [id |-> id, label |-> LabelOf(id)]
           /\ todo'[p] = ids \ {id} /\ pc'[p] = "append"
    BY <2>3, InsertOwn
  <2> QED BY <1>1, <2>1, <2>2, BatchMove DEF Persisting
<1>4. CASE InsertNext(p)
  <2>1. batch'[p] = batch[p] /\ todo[p] \in SUBSET Ids /\ todo[p] \subseteq batch[p]
    BY <1>4 DEF InsertNext, TypeOK, CallTypeOK, BatchInv
  <2>2. PICK id \in todo[p] :
           byId' = byId \union {id} /\ current'[p] = [id |-> id, label |-> LabelOf(id)]
           /\ todo'[p] = todo[p] \ {id} /\ pc'[p] = "append"
    BY <1>4, <2>1, InsertOwn DEF InsertNext
  <2> QED BY <1>1, <2>1, <2>2, BatchMove DEF Persisting
<1>5. CASE PersistIndex(p) \/ OpenIndex(p) \/ WriteIndex(p) \/ OpenManifest(p) \/ Mirror(p)
  <2>1. /\ UNCHANGED <<byId, batch, todo>> /\ todo[p] = {}
        /\ At(p, "index") \/ At(p, "indexing") \/ At(p, "mirror") \/ At(p, "mirroring")
           \/ At(p, "bump") \/ At(p, "bumping")
    BY <1>5 DEF PersistIndex, OpenIndex, WriteIndex, OpenManifest, Mirror, Waits, memory, locals,
                BatchInv, Persisting
  <2> QED BY <1>1, <2>1, OwnFields, BatchMove DEF BatchInv
<1>6. CASE AppendMeta(p)
  <2>1. UNCHANGED <<byId, batch, todo>> /\ pc'[p] = "appended"
    BY <1>6, OwnFields DEF AppendMeta, Waits, memory, locals
  <2> QED BY <1>1, <2>1, BatchMove DEF BatchInv, Persisting
<1>7. CASE OpenMeta(p) \/ ClearIndex(p) \/ UnlinkIndex(p) \/ EmptyMeta(p)
  <2>1. /\ UNCHANGED <<byId, batch, todo>> /\ batch[p] = {}
        /\ At(p, "rewriting") \/ At(p, "unlinking") \/ At(p, "emptying") \/ At(p, "bump")
    BY <1>7 DEF OpenMeta, ClearIndex, UnlinkIndex, EmptyMeta, Waits, memory, locals, Apart, Adding,
                Clearing, Patching
  <2> QED BY <1>1, <2>1, OwnFields, BatchMove DEF BatchInv
<1>8. CASE AloneOf(p) /\ Quiet
  <2>1. \A q \in Procs : pc[q] = "idle" /\ batch[q] = {} /\ todo[q] = {}
    BY <1>8 DEF Quiet, Apart, Adding, BatchInv
  <2>2. /\ UNCHANGED <<batch, todo>>
        /\ At(p, "bump") \/ At(p, "rewrite") \/ At(p, "cleared")
    BY <1>8 DEF AloneOf, SetFileHash, Patch, Clear, Waits, locals
  <2> QED BY <1>1, <2>1, <2>2, OwnFields DEF BatchInv, Others
<1> QED BY <1>2, <1>3, <1>4, <1>5, <1>6, <1>7, <1>8 DEF StepOf, AddOf, AddStep, Files
LEMMA BatchStep == ASSUME TypeOK, LInv, BatchInv, [AddsOverlapNext]_vars PROVE BatchInv'
<1>1. Apart
  BY DEF LInv
<1>2. CASE Load \/ UNCHANGED vars
  <2>1. /\ UNCHANGED <<pc, batch, todo, current>>
        /\ UNCHANGED byId \/ \A p \in Procs : pc[p] = "idle"
    BY <1>1, <1>2 DEF vars, memory, locals, Load, LoadFresh, LoadIndex, LoadOtherModel, LoadTruncate,
                      LoadMetadata, LoadStep, Apart
  <2> QED BY <2>1 DEF BatchInv, Persisting
<1>3. CASE Restart
  BY <1>3 DEF Restart, BatchInv, Persisting
<1>4. ASSUME NEW p \in Procs, StepOf(p) PROVE BatchInv'
  BY <1>1, <1>4, BatchStepOf
<1> QED BY <1>2, <1>3, <1>4, OnlyTheseSteps

-----------------------------------------------------------------------------
(* The metadata file                                                       *)

\* A step of p that leaves the file and the acknowledged documents alone.
LEMMA ListMove ==
    ASSUME TypeOK, ListInv, NEW p \in Procs, Others(p),
           UNCHANGED <<stage, damaged, meta, acked>>, byId \subseteq byId',
           pc[p] # "rewriting", ~Patching(p)', Clearing(p)' <=> Clearing(p),
           batch'[p] \ Pending(p)' \subseteq Logged(p)
    PROVE  ListInv'
<1>1. \A q \in Procs : pc'[q] = "rewriting" <=> pc[q] = "rewriting"
  BY DEF Others, Patching
<1>2. \A q \in Procs : Patching(q)' => Patching(q) /\ held'[q] = held[q]
  BY DEF Others, Patching
<1>3. \A q \in Procs : Clearing(q)' <=> Clearing(q)
  BY DEF Others, Clearing
<1>4. Settled' => Settled
  BY <1>3 DEF Settled
<1>5. \A q \in Procs : Logged(q)' \subseteq Logged(q)
  BY DEF Others, Logged, Pending
<1> QED BY <1>1, <1>2, <1>3, <1>4, <1>5 DEF ListInv, Named

LEMMA ListStepOf ==
    ASSUME TypeOK, LInv, BatchInv, ListInv, NEW p \in Procs, StepOf(p)
    PROVE  ListInv'
<1>1. Others(p) /\ LabelInv /\ RowInv /\ Apart
  BY OthersWait DEF LInv
<1>2. CASE (\E ids \in NonEmpty(Ids) : AddRefused(p, ids)) \/ NextRefused(p)
  <2>1. Forget(p) /\ UNCHANGED <<stage, damaged, meta, acked, byId>> /\ pc[p] \in {"idle", "appended"}
    BY <1>2 DEF AddRefused, NextRefused, Begin, Refuse, process, files
  <2>2. pc'[p] = "idle" /\ batch'[p] = {}
    BY <2>1, OwnFields
  <2> QED BY <1>1, <2>1, <2>2, ListMove DEF Patching, Clearing
<1>3. ASSUME NEW ids \in NonEmpty(Ids), Add(p, ids) PROVE ListInv'
  <2>3. ids \in SUBSET Ids /\ Insert(p, ids, room')
    BY <1>3 DEF Add, NonEmpty
  <2>1. batch'[p] = ids /\ UNCHANGED <<stage, damaged, meta, acked>> /\ pc[p] = "idle"
    BY <1>3, <2>3 DEF Add, Begin, process, files, TypeOK, CallTypeOK
  <2>2. PICK id \in ids :
           /\ byId' = byId \union {id} /\ current'[p] = [id |-> id, label |-> LabelOf(id)]
           /\ todo'[p] = ids \ {id} /\ pc'[p] = "append"
    BY <2>3, InsertOwn
  <2>4. batch'[p] \ Pending(p)' = {}
    BY <2>1, <2>2, <2>3 DEF Pending
  <2> QED BY <1>1, <2>1, <2>2, <2>4, ListMove DEF Patching, Clearing
<1>4. CASE InsertNext(p)
  <2>1. /\ batch'[p] = batch[p] /\ UNCHANGED <<stage, damaged, meta, acked>> /\ pc[p] = "appended"
        /\ todo[p] \in SUBSET Ids /\ Insert(p, todo[p], room)
    BY <1>4 DEF InsertNext, process, files, TypeOK, CallTypeOK
  <2>2. PICK id \in todo[p] :
           /\ byId' = byId \union {id} /\ current'[p] = [id |-> id, label |-> LabelOf(id)]
           /\ todo'[p] = todo[p] \ {id} /\ pc'[p] = "append"
    BY <2>1, InsertOwn
  <2>3. batch'[p] \ Pending(p)' \subseteq Logged(p)
    BY <2>1, <2>2 DEF Pending, Logged
  <2> QED BY <1>1, <2>1, <2>2, <2>3, ListMove DEF Patching, Clearing
<1>5. CASE PersistIndex(p) \/ OpenIndex(p) \/ WriteIndex(p) \/ OpenManifest(p) \/ Mirror(p)
  <2>1. /\ UNCHANGED <<stage, damaged, meta, acked, byId, batch, todo>>
        /\ pc[p] # "append" /\ pc[p] # "rewriting" /\ ~Clearing(p)
        /\ At(p, "index") \/ At(p, "indexing") \/ At(p, "mirror") \/ At(p, "mirroring")
           \/ At(p, "bump") \/ At(p, "bumping")
    BY <1>5 DEF PersistIndex, OpenIndex, WriteIndex, OpenManifest, Mirror, WriteManifest, Waits, process,
                memory, locals, files, Clearing
  <2>2. ~Patching(p)' /\ ~Clearing(p)' /\ pc'[p] # "append"
    BY <2>1, OwnFields DEF Patching, Clearing
  <2>3. batch'[p] \ Pending(p)' \subseteq Logged(p)
    BY <2>1, <2>2 DEF Pending, Logged
  <2> QED BY <1>1, <2>1, <2>2, <2>3, ListMove
<1>6. CASE ClearIndex(p) \/ UnlinkIndex(p)
  <2>1. /\ UNCHANGED <<stage, damaged, meta, acked, byId, batch, todo>>
        /\ pc[p] # "append" /\ pc[p] # "rewriting" /\ Clearing(p)
        /\ At(p, "unlinking") \/ At(p, "emptying")
    BY <1>6 DEF ClearIndex, UnlinkIndex, Waits, process, memory, locals, files, Clearing
  <2>2. ~Patching(p)' /\ Clearing(p)' /\ pc'[p] # "append"
    BY <2>1, OwnFields DEF Patching, Clearing
  <2>3. batch'[p] \ Pending(p)' \subseteq Logged(p)
    BY <2>1, <2>2 DEF Pending, Logged
  <2> QED BY <1>1, <2>1, <2>2, <2>3, ListMove
<1>7. CASE SetFileHash(p) /\ Quiet
  <2>1. /\ UNCHANGED <<stage, damaged, meta, acked, byId, batch, todo>>
        /\ pc[p] = "idle" /\ pc'[p] = "bump"
    BY <1>7, OwnFields DEF SetFileHash, process, locals, files
  <2>3. batch'[p] \ Pending(p)' \subseteq Logged(p)
    BY <2>1 DEF Pending, Logged
  <2> QED BY <1>1, <2>1, <2>3, ListMove DEF Patching, Clearing
<1>8. CASE AppendMeta(p)
  <2> SUFFICES ASSUME "meta" \notin damaged PROVE ListInv'
    BY <1>8 DEF AppendMeta, Waits, process, ListInv
  <2>1. /\ UNCHANGED <<stage, damaged, acked, byId, label, batch, todo, current>>
        /\ pc[p] = "append" /\ pc'[p] = "appended"
        /\ current[p] \in [id : Ids, label : Labels]
        /\ current[p].id \in byId
    BY <1>8, OwnFields DEF AppendMeta, Waits, process, memory, labels, locals, TypeOK, CallTypeOK, BatchInv
  <2>2. \A q \in Procs : ~Clearing(q) /\ ~Patching(q)
    BY <1>1, <2>1, Company, AddersOnly DEF Apart, AddPlaces
  <2>3. /\ meta # Torn /\ meta \in Rows /\ acked \subseteq Named(meta) /\ Named(meta) \subseteq byId
        /\ stage = "up"
    BY <1>1, <2>1, <2>2, Company DEF ListInv, Patching, Settled, TypeOK, StoreTypeOK
  <2>4. meta' = [meta EXCEPT ![current[p].id] = current[p].label] /\ current[p].label # None
    BY <1>8, <2>1, <2>3, NoneAssumption DEF AppendMeta, Labels
  <2>5. Named(meta') = Named(meta) \union {current[p].id} /\ meta' # Torn
    BY <2>1, <2>3, <2>4, FilesAssumption DEF Named, Rows
  <2>6. \A q \in Procs : ~Clearing(q)' /\ ~Patching(q)'
    BY <1>1, <2>1, <2>2 DEF Others, Clearing, Patching
  <2>7. \A q \in Procs : Logged(q)' \subseteq Named(meta')
    <3>1. Logged(p)' \subseteq Logged(p) \union {current[p].id}
      BY <2>1 DEF Logged, Pending
    <3>2. \A q \in Procs \ {p} : Logged(q)' = Logged(q)
      BY <1>1 DEF Others, Logged, Pending
    <3> QED BY <2>5, <3>1, <3>2 DEF ListInv
  <2> QED BY <2>1, <2>3, <2>5, <2>6, <2>7 DEF ListInv, Patching
<1>9. CASE Return(p)
  <2> SUFFICES ASSUME "meta" \notin damaged PROVE ListInv'
    BY <1>9 DEF Return, process, ListInv
  <2>1. /\ UNCHANGED <<stage, damaged, meta, byId>> /\ acked' = acked \union batch[p]
        /\ pc[p] = "bumping" /\ pc'[p] = "idle" /\ batch'[p] = {}
    BY <1>9, OwnFields DEF Return, WriteManifest, process, memory
  <2>2. batch[p] \subseteq Logged(p) /\ Logged(p) \subseteq Named(meta)
    BY <2>1 DEF Logged, Pending, BatchInv, Persisting, ListInv
  <2>3. \A q \in Procs \ {p} : Patching(q) \/ Clearing(q) => FALSE
    BY <1>1, <2>1, Company, AddersOnly DEF Patching, Clearing
  <2>4. /\ \A q \in Procs : ~Clearing(q) /\ ~Patching(q) /\ ~Clearing(q)' /\ ~Patching(q)'
        /\ stage = "up"
    BY <1>1, <2>1, <2>3, Company DEF Others, Clearing, Patching
  <2>5. meta # Torn /\ acked \subseteq Named(meta) /\ Named(meta) \subseteq byId
    BY <2>4 DEF ListInv, Patching, Settled
  <2>6. \A q \in Procs : Logged(q)' \subseteq Logged(q)
    BY <1>1, <2>1 DEF Others, Logged, Pending
  <2> QED BY <2>1, <2>2, <2>4, <2>5, <2>6 DEF ListInv, Patching, Named
<1>10. CASE OpenMeta(p) \/ WriteMeta(p) \/ EmptyMeta(p)
  <2> SUFFICES ASSUME "meta" \notin damaged PROVE ListInv'
    BY <1>10 DEF OpenMeta, WriteMeta, EmptyMeta, Waits, process, ListInv
  <2>1. /\ UNCHANGED <<stage, damaged, acked, byId>>
        /\ (Patching(p) \/ Clearing(p)) /\ pc[p] # "idle"
    BY <1>10 DEF OpenMeta, WriteMeta, EmptyMeta, Waits, process, memory, Patching, Clearing
  <2>2. ~Adding(p) /\ stage = "up" /\ \A q \in Procs \ {p} : pc[q] = "idle" /\ pc'[q] = "idle"
    BY <1>1, <2>1, Company DEF Apart, Others, Patching, Clearing
  <2>3. \A q \in Procs : batch'[q] = {}
    <3>1. batch'[p] = {}
      BY <1>10, <2>2, OwnFields DEF OpenMeta, WriteMeta, EmptyMeta, Waits, locals, Adding
    <3>2. \A q \in Procs \ {p} : batch[q] = {}
      BY <1>1, <2>2 DEF Apart, Adding
    <3> QED BY <1>1, <3>1, <3>2 DEF Others
  <2>4. \A q \in Procs : Logged(q)' = {}
    BY <2>3 DEF Logged
  <2>5. CASE OpenMeta(p)
    <3>1. meta' = NoRows /\ pc'[p] = "rewriting" /\ held'[p] = held[p] /\ Patching(p)
      BY <2>5, OwnFields DEF OpenMeta, Patching
    <3>2. Named(meta') = {}
      BY <3>1 DEF Named, NoRows
    <3> QED BY <2>1, <2>2, <2>4, <3>1, <3>2 DEF ListInv, Patching, Clearing
  <2>6. CASE WriteMeta(p)
    <3>1. /\ pc[p] = "rewriting" /\ pc'[p] = "idle" /\ meta = NoRows /\ held[p] \in Rows
      BY <2>6, OwnFields DEF WriteMeta, ListInv, TypeOK, CallTypeOK
    <3>2. meta' = held[p] /\ meta' # Torn
      BY <2>6, <3>1, FilesAssumption DEF WriteMeta
    <3>3. acked \subseteq Named(held[p]) /\ Named(held[p]) \subseteq byId
      BY <3>1 DEF ListInv, Patching
    <3> QED BY <2>1, <2>2, <2>4, <3>1, <3>2, <3>3 DEF ListInv, Patching, Clearing
  <2>7. CASE EmptyMeta(p)
    <3>1. meta' = NoRows /\ pc'[p] = "bump" /\ acked = {}
      BY <2>7, OwnFields DEF EmptyMeta, Clearing, ListInv
    <3>2. Named(meta') = {} /\ meta' # Torn
      BY <3>1, FilesAssumption DEF Named, NoRows, Rows
    <3> QED BY <2>1, <2>2, <2>4, <3>1, <3>2 DEF ListInv, Patching, Clearing
  <2> QED BY <1>10, <2>5, <2>6, <2>7
<1>11. CASE Quiet /\ (Patch(p) \/ Clear(p))
  <2> SUFFICES ASSUME "meta" \notin damaged PROVE ListInv'
    BY <1>11 DEF Patch, Clear, Waits, process, ListInv
  <2>1. /\ UNCHANGED <<stage, damaged, meta>> /\ stage = "up"
        /\ \A q \in Procs : pc[q] = "idle" /\ batch'[q] = {}
    BY <1>1, <1>11 DEF Patch, Clear, Waits, process, locals, files, Quiet, Apart, Adding
  <2>2. meta # Torn /\ acked \subseteq Named(meta) /\ Named(meta) \subseteq byId
    BY <2>1 DEF ListInv, Settled, Clearing
  <2>3. \A q \in Procs : Logged(q)' = {}
    BY <2>1 DEF Logged
  <2>4. \A q \in Procs \ {p} : pc'[q] = "idle"
    BY <1>1, <2>1 DEF Others
  <2>5. CASE Patch(p)
    <3>1. UNCHANGED <<byId, acked>> /\ pc'[p] = "rewrite" /\ held'[p] = OwnedRows
      BY <2>5, OwnFields DEF Patch, Waits, memory
    <3>2. \A id \in byId : label[id] \in Labels /\ owner[label[id]] = id /\ label[id] # None
      BY <1>1, <2>1 DEF LabelInv, TypeOK, StoreTypeOK, Rows
    <3>3. byId \subseteq Ids
      BY DEF TypeOK, StoreTypeOK
    <3>4. Named(OwnedRows) = byId
      BY <3>2, <3>3 DEF Named, OwnedRows
    <3> QED BY <2>1, <2>2, <2>3, <2>4, <3>1, <3>4 DEF ListInv, Patching, Clearing
  <2>6. CASE Clear(p)
    <3>1. acked' = {} /\ pc'[p] = "cleared"
      BY <2>6, OwnFields DEF Clear
    <3> QED BY <2>1, <2>2, <2>3, <2>4, <3>1 DEF ListInv, Patching, Clearing, Settled
  <2> QED BY <1>11, <2>5, <2>6
<1> QED BY <1>2, <1>3, <1>4, <1>5, <1>6, <1>7, <1>8, <1>9, <1>10, <1>11
        DEF StepOf, AddOf, AddStep, Files, AloneOf

LEMMA ListLoad == ASSUME TypeOK, LInv, ListInv, Load PROVE ListInv'
<1>1. /\ UNCHANGED <<pc, batch, held, damaged>> /\ stage # "up"
      /\ \A p \in Procs : pc[p] = "idle" /\ batch[p] = {}
  BY DEF Load, LoadFresh, LoadIndex, LoadOtherModel, LoadTruncate, LoadMetadata, LoadStep, locals,
         LInv, Apart, Adding
<1>2. \A p \in Procs : Logged(p)' = {}
  BY <1>1 DEF Logged
<1> SUFFICES ASSUME "meta" \notin damaged PROVE ListInv'
  BY <1>1 DEF ListInv
<1>3. meta # Torn /\ acked \subseteq Named(meta)
  BY <1>1 DEF ListInv
<1>4. CASE LoadFresh \/ LoadIndex
  <2>1. stage' = "replaying" /\ UNCHANGED <<meta, acked>>
    BY <1>4 DEF LoadFresh, LoadIndex, files
  <2> QED BY <1>1, <1>2, <1>3, <2>1 DEF ListInv, Patching, Clearing, Settled
<1>5. CASE LoadOtherModel
  <2>1. stage' = "truncating" /\ acked' = {} /\ meta' = meta
    BY <1>5 DEF LoadOtherModel
  <2> QED BY <1>1, <1>2, <1>3, <2>1 DEF ListInv, Patching, Clearing, Settled
<1>6. CASE LoadTruncate
  <2>1. stage' = "replaying" /\ acked' = {} /\ meta' = NoRows
    BY <1>6 DEF LoadTruncate, ListInv
  <2>2. NoRows # Torn
    BY FilesAssumption DEF NoRows, Rows
  <2> QED BY <1>1, <1>2, <2>1, <2>2 DEF ListInv, Patching, Clearing, Settled
<1>7. CASE LoadMetadata
  <2>1. stage' = "up" /\ byId' = Named(meta) /\ UNCHANGED <<meta, acked>>
    BY <1>7 DEF LoadMetadata, files
  <2> QED BY <1>1, <1>2, <1>3, <2>1 DEF ListInv, Patching, Clearing, Settled
<1> QED BY <1>4, <1>5, <1>6, <1>7 DEF Load

LEMMA ListRestart == ASSUME TypeOK, LInv, ListInv, Restart PROVE ListInv'
<1> SUFFICES ASSUME "meta" \notin damaged' PROVE ListInv'
  BY DEF ListInv
<1>1. "meta" \notin damaged /\ \A p \in Procs : pc[p] # "rewriting"
  BY DEF Restart
<1>2. UNCHANGED <<meta, acked>> /\ stage' = "down" /\ \A p \in Procs : pc'[p] = "idle" /\ batch'[p] = {}
  BY <1>1, RestartMeta DEF Restart
<1> QED BY <1>1, <1>2 DEF ListInv, Patching, Clearing, Settled, Logged

LEMMA ListStep == ASSUME TypeOK, LInv, BatchInv, ListInv, [AddsOverlapNext]_vars PROVE ListInv'
<1>1. CASE UNCHANGED vars
  BY <1>1 DEF vars, process, memory, labels, files, locals, ListInv, Patching, Clearing, Settled, Logged, Pending, Named
<1> QED BY <1>1, OnlyTheseSteps, ListStepOf, ListLoad, ListRestart
-----------------------------------------------------------------------------
(* What search finds                                                       *)

LEMMA StepIsUp ==
    ASSUME TypeOK, Apart, NEW p \in Procs, StepOf(p)
    PROVE  stage = "up" /\ UNCHANGED <<stage, model, damaged>>
<1>1. CASE AddOf(p) \/ AloneOf(p)
  BY <1>1 DEF AddOf, AloneOf, Add, AddRefused, SetFileHash, Patch, Clear, Begin, Waits, process
<1>2. CASE AddStep(p)
  BY <1>2 DEF AddStep, InsertNext, NextRefused, AppendMeta, PersistIndex, Waits, process, Apart
<1>3. CASE Files(p)
  BY <1>3 DEF Files, OpenIndex, WriteIndex, OpenManifest, Mirror, Return, OpenMeta, WriteMeta, ClearIndex,
              UnlinkIndex, EmptyMeta, Waits, process, Apart
<1> QED BY <1>1, <1>2, <1>3 DEF StepOf

\* Acknowledged documents have labels.
LEMMA AckedKnown ==
    ASSUME TypeOK, LInv, ListInv, "meta" \notin damaged, stage = "up"
    PROVE  \A id \in acked : id \in byId /\ label[id] # None
<1>1. \A id \in byId : label[id] # None
  BY DEF LInv, LabelInv
<1>2. acked \subseteq byId
  <2>1. CASE \E p \in Procs : Patching(p)
    BY <2>1 DEF ListInv
  <2>2. CASE \E p \in Procs : Clearing(p)
    BY <2>2 DEF ListInv
  <2>3. CASE \A p \in Procs : ~Patching(p) /\ ~Clearing(p)
    BY <2>3 DEF ListInv, Settled, Patching
  <2> QED BY <2>1, <2>2, <2>3
<1> QED BY <1>1, <1>2

\* What the step lemmas below assume.
Sound == TypeOK /\ SInv /\ damaged = {}

LEMMA SoundFacts ==
    ASSUME Sound
    PROVE  /\ TypeOK /\ LInv /\ Apart /\ LabelInv /\ RowInv /\ BatchInv /\ ListInv
           /\ PointsInv /\ IndexInv /\ ManifestInv
           /\ damaged = {} /\ "meta" \notin damaged
BY DEF Sound, SInv, LInv, SearchInv

\* A step that gives no label another vector.
LEMMA PointsKept ==
    ASSUME PointsInv, stage = "up", UNCHANGED <<stage, model, points, byId>>,
           acked' \subseteq acked,
           \A id \in acked : label'[id] = label[id],
           \A q \in Procs : \A id \in batch'[q] \ todo'[q] :
               id \in batch[q] \ todo[q] /\ label'[id] = label[id]
    PROVE  PointsInv'
BY DEF PointsInv, Open, Lab

LEMMA PointsInsert ==
    ASSUME Sound, stage = "up", UNCHANGED <<stage, model, acked>>, NEW p \in Procs, Others(p),
           NEW id \in Ids, AllocateLabel(id), byId' = byId \union {id},
           points' = [points EXCEPT ![LabelOf(id)] = <<id, model>>],
           batch'[p] \ todo'[p] \subseteq (batch[p] \ todo[p]) \union {id}
    PROVE  PointsInv'
<1>1. /\ TypeOK /\ LInv /\ LabelInv /\ BatchInv /\ ListInv /\ PointsInv /\ "meta" \notin damaged
  BY SoundFacts
<1>2. /\ \A i \in Ids : label[i] # None => label'[i] = label[i]
      /\ \A i \in Ids : label'[i] # None => owner'[label'[i]] = i
      /\ label'[id] = LabelOf(id) /\ label'[id] # None
  BY <1>1, AllocateKeeps
<1>3. LabelOf(id) \in Labels /\ points \in [Labels -> Vectors \union {None}]
  BY <1>1, AllocateType DEF TypeOK, StoreTypeOK
<1>4. points'[label'[id]] = <<id, model>>
  BY <1>2, <1>3
<1>5. ASSUME NEW i \in Ids, label[i] # None, points[label[i]] = <<i, model>>
      PROVE  points'[label'[i]] = <<i, model>>
  <2>1. CASE i = id
    BY <1>4, <2>1
  <2>2. CASE i # id
    <3>1. label'[i] = label[i] /\ label[i] \in Labels /\ label'[i] # label'[id]
      BY <1>1, <1>2, <1>5, <2>2 DEF TypeOK, StoreTypeOK, Rows
    <3> QED BY <1>2, <1>3, <1>5, <3>1
  <2> QED BY <2>1, <2>2
<1>6. \A i \in acked : i \in Ids /\ label[i] # None /\ points[label[i]] = <<i, model>>
  BY <1>1, AckedKnown DEF PointsInv, Open, Lab, TypeOK, StoreTypeOK
<1>7. \A q \in Procs : \A i \in batch[q] \ todo[q] :
          i \in Ids /\ i \in byId /\ label[i] # None /\ points[label[i]] = <<i, model>>
  BY <1>1 DEF PointsInv, LabelInv, TypeOK, StoreTypeOK
<1>8. \A q \in Procs : \A i \in batch'[q] \ todo'[q] :
          i \in byId' /\ points'[label'[i]] = <<i, model>>
  <2>1. \A i \in batch'[p] \ todo'[p] : i = id \/ i \in batch[p] \ todo[p]
    OBVIOUS
  <2>2. \A q \in Procs \ {p} : batch'[q] \ todo'[q] = batch[q] \ todo[q]
    BY DEF Others
  <2> QED BY <1>4, <1>5, <1>7, <2>1, <2>2
<1>9. \A i \in acked : points'[label'[i]] = <<i, model>>
  BY <1>5, <1>6
<1> QED BY <1>8, <1>9 DEF PointsInv, Open, Lab

LEMMA PointsStep ==
    ASSUME Sound, NEW p \in Procs, StepOf(p)
    PROVE  PointsInv'
<1>1. /\ TypeOK /\ LInv /\ Apart /\ LabelInv /\ BatchInv /\ ListInv /\ PointsInv /\ "meta" \notin damaged
  BY SoundFacts
<1>2. stage = "up" /\ UNCHANGED <<stage, model>> /\ Others(p)
  BY <1>1, StepIsUp, OthersWait
<1>3. ASSUME NEW ids \in NonEmpty(Ids), Add(p, ids) PROVE PointsInv'
  <2>1. ids \in SUBSET Ids /\ Insert(p, ids, room') /\ acked' = acked
    BY <1>3 DEF Add, NonEmpty
  <2>2. batch'[p] = ids
    BY <1>1, <1>3, <2>1 DEF Add, TypeOK, CallTypeOK
  <2>3. PICK id \in ids :
           /\ AllocateLabel(id) /\ points' = [points EXCEPT ![LabelOf(id)] = <<id, model>>]
           /\ byId' = byId \union {id} /\ todo'[p] = ids \ {id}
    BY <1>1, <2>1, InsertOwn
  <2> QED BY <1>2, <2>1, <2>2, <2>3, PointsInsert
<1>4. CASE InsertNext(p)
  <2>1. /\ todo[p] \in SUBSET Ids /\ Insert(p, todo[p], room) /\ acked' = acked
        /\ batch'[p] = batch[p]
    BY <1>1, <1>4 DEF InsertNext, TypeOK, CallTypeOK
  <2>2. PICK id \in todo[p] :
           /\ AllocateLabel(id)
           /\ points' = [points EXCEPT ![LabelOf(id)] = <<id, model>>]
           /\ byId' = byId \union {id}
           /\ todo' = [todo EXCEPT ![p] = todo[p] \ {id}]
    BY <2>1 DEF Insert
  <2>3. todo'[p] = todo[p] \ {id}
    BY <1>1, <2>2 DEF TypeOK, CallTypeOK
  <2> QED BY <1>2, <2>1, <2>2, <2>3, PointsInsert
<1>5. CASE (\E ids \in NonEmpty(Ids) : AddRefused(p, ids)) \/ NextRefused(p)
  <2>1. /\ Forget(p) /\ UNCHANGED <<points, byId, acked>> /\ \E id \in Ids : AllocateLabel(id)
    BY <1>1, <1>5 DEF AddRefused, NextRefused, Refuse, NonEmpty, TypeOK, CallTypeOK
  <2>2. \A i \in Ids : label[i] # None => label'[i] = label[i]
    BY <1>1, <1>2, <2>1, AllocateKeeps
  <2>3. batch'[p] = {} /\ acked \subseteq Ids /\ byId \subseteq Ids
    BY <1>1, <2>1, OwnFields DEF TypeOK, StoreTypeOK
  <2>4. \A id \in acked : label'[id] = label[id]
    BY <1>1, <1>2, <2>2, <2>3, AckedKnown
  <2>5. \A q \in Procs : \A id \in batch[q] \ todo[q] : label'[id] = label[id]
    BY <1>1, <1>2, <2>2, <2>3 DEF PointsInv, LabelInv
  <2> QED BY <1>1, <1>2, <2>1, <2>3, <2>4, <2>5, PointsKept DEF Others
<1>6. CASE Return(p)
  <2>1. /\ UNCHANGED <<points, byId, label>> /\ acked' = acked \union batch[p]
        /\ todo[p] = {} /\ batch'[p] = {}
    BY <1>1, <1>6, OwnFields DEF Return, memory, labels, live, BatchInv, Persisting
  <2>2. \A id \in acked' : points[label[id]] = <<id, model>>
    BY <1>1, <1>2, <2>1 DEF PointsInv, Open, Lab
  <2> QED BY <1>1, <1>2, <2>1, <2>2 DEF PointsInv, Open, Lab, Others
<1>7. CASE \/ AppendMeta(p) \/ PersistIndex(p) \/ OpenIndex(p) \/ WriteIndex(p) \/ OpenManifest(p)
           \/ Mirror(p) \/ OpenMeta(p) \/ UnlinkIndex(p) \/ EmptyMeta(p) \/ SetFileHash(p) \/ Patch(p)
  <2>1. UNCHANGED <<points, byId, label, acked, batch, todo>>
    BY <1>7 DEF AppendMeta, PersistIndex, OpenIndex, WriteIndex, OpenManifest, Mirror, OpenMeta, UnlinkIndex,
                EmptyMeta, SetFileHash, Patch, Waits, memory, labels, live, locals
  <2> QED BY <1>1, <1>2, <2>1, PointsKept
<1>8. CASE WriteMeta(p)
  <2>1. UNCHANGED <<points, byId, label, acked>> /\ batch'[p] = {}
    BY <1>1, <1>8, OwnFields DEF WriteMeta, memory, labels, live
  <2> QED BY <1>1, <1>2, <2>1, PointsKept DEF Others
<1>9. CASE ClearIndex(p) \/ (Clear(p) /\ Quiet)
  <2>1. \A q \in Procs : batch[q] = {} /\ UNCHANGED batch
    BY <1>1, <1>9, Company DEF ClearIndex, Clear, Quiet, Apart, Adding, Clearing, locals
  <2>2. acked' = {}
    BY <1>1, <1>9 DEF ClearIndex, Clear, ListInv, Clearing
  <2> QED BY <2>1, <2>2 DEF PointsInv
<1> QED BY <1>3, <1>4, <1>5, <1>6, <1>7, <1>8, <1>9 DEF StepOf, AddOf, AddStep, Files, AloneOf
\* A step that leaves the index file alone.
LEMMA IndexKept ==
    ASSUME Sound, stage = "up", UNCHANGED <<stage, model, index>>,
           \A i \in Ids : label[i] # None => label'[i] = label[i],
           \A i \in acked' : i \in acked \/ \E q \in Procs : Saved(q) /\ i \in batch[q],
           \A q \in Procs : Saved(q)' => Saved(q) /\ batch'[q] = batch[q],
           \A q \in Procs : pc'[q] = "indexing" => pc[q] = "indexing"
    PROVE  IndexInv'
<1>1. /\ TypeOK /\ LInv /\ LabelInv /\ BatchInv /\ ListInv /\ PointsInv /\ IndexInv /\ "meta" \notin damaged
  BY SoundFacts
<1>2. \A i \in acked : i \in Ids /\ label[i] # None /\ label'[i] = label[i]
  BY <1>1, AckedKnown DEF TypeOK, StoreTypeOK
<1>3. ASSUME NEW q \in Procs, Saved(q), NEW i \in batch[q]
      PROVE  label'[i] = label[i]
  <2>1. todo[q] = {}
    BY <1>1, <1>3 DEF BatchInv, Saved, Persisting
  <2>2. i \in byId /\ i \in Ids /\ label[i] # None
    BY <1>1, <1>3, <2>1 DEF PointsInv, LabelInv, TypeOK, CallTypeOK
  <2> QED BY <2>2
<1>4. acked' # {} => index # NoFile
  BY <1>1 DEF IndexInv
<1>5. \A q \in Procs : (Saved(q) \/ pc[q] = "indexing")' => index # NoFile
  BY <1>1 DEF IndexInv
<1>6. ASSUME index \notin {NoFile, Torn} PROVE \A i \in acked' : index.points[label'[i]] = <<i, model>>
  BY <1>1, <1>2, <1>3, <1>6 DEF IndexInv, Lab, Kept, Open
<1>7. ASSUME index \notin {NoFile, Torn}
      PROVE  \A q \in Procs : Saved(q)' => \A i \in batch'[q] : index.points[label'[i]] = <<i, model>>
  BY <1>1, <1>3, <1>7 DEF IndexInv
<1> QED BY <1>4, <1>5, <1>6, <1>7 DEF IndexInv, Lab, Kept, Open

LEMMA IndexStep ==
    ASSUME Sound, NEW p \in Procs, StepOf(p)
    PROVE  IndexInv'
<1>1. /\ TypeOK /\ LInv /\ Apart /\ LabelInv /\ BatchInv /\ ListInv /\ PointsInv /\ IndexInv
      /\ "meta" \notin damaged
  BY SoundFacts
<1>2. stage = "up" /\ UNCHANGED <<stage, model>> /\ Others(p)
  BY <1>1, StepIsUp, OthersWait
<1>3. CASE AddOf(p) \/ InsertNext(p) \/ NextRefused(p)
  <2>1. UNCHANGED <<index, acked>> /\ \E id \in Ids : AllocateLabel(id)
    BY <1>1, <1>3 DEF AddOf, Add, AddRefused, InsertNext, NextRefused, Insert, Refuse, NonEmpty, files,
                      TypeOK, CallTypeOK
  <2>2. pc'[p] \in {"append", "idle"}
    BY <1>1, <1>3, OwnFields DEF AddOf, Add, AddRefused, InsertNext, NextRefused, Insert, Refuse
  <2>3. \A i \in Ids : label[i] # None => label'[i] = label[i]
    BY <1>1, <1>2, <2>1, AllocateKeeps
  <2>4. \A q \in Procs : Saved(q)' => Saved(q) /\ batch'[q] = batch[q]
    BY <1>2, <2>2 DEF Others, Saved, Adding
  <2> QED BY <1>2, <2>1, <2>2, <2>3, <2>4, IndexKept DEF Others
<1>4. CASE Return(p)
  <2>1. /\ UNCHANGED <<index, label>> /\ acked' = acked \union batch[p]
        /\ pc'[p] = "idle"
        /\ batch[p] # {} => Saved(p)
    BY <1>1, <1>4, OwnFields DEF Return, WriteManifest, memory, labels, Saved, Adding
  <2>2. \A q \in Procs : Saved(q)' => Saved(q) /\ batch'[q] = batch[q]
    BY <1>2, <2>1 DEF Others, Saved, Adding
  <2>3. \A i \in acked' : i \in acked \/ \E q \in Procs : Saved(q) /\ i \in batch[q]
    BY <2>1
  <2> QED BY <1>2, <2>1, <2>2, <2>3, IndexKept DEF Others
<1>5. CASE OpenManifest(p) \/ Mirror(p)
  <2>1. /\ UNCHANGED <<index, label, acked, batch>>
        /\ pc[p] \in {"mirror", "mirroring", "bump"}
        /\ At(p, "mirroring") \/ At(p, "bumping") \/ At(p, "bump")
    BY <1>5 DEF OpenManifest, Mirror, WriteManifest, Waits, memory, labels, locals
  <2>2. pc'[p] # "indexing" /\ (Saved(p)' => Saved(p))
    BY <1>1, <2>1, OwnFields DEF Saved, Adding
  <2>3. \A q \in Procs : Saved(q)' => Saved(q) /\ batch'[q] = batch[q]
    BY <1>2, <2>1, <2>2 DEF Others, Saved, Adding
  <2> QED BY <1>2, <2>1, <2>2, <2>3, IndexKept DEF Others
<1>6. CASE AppendMeta(p) \/ PersistIndex(p)
  <2>1. /\ UNCHANGED <<index, label, acked, batch>>
        /\ At(p, "appended") \/ At(p, "index")
    BY <1>6 DEF AppendMeta, PersistIndex, Waits, memory, labels, locals, files
  <2>2. pc'[p] # "indexing" /\ ~Saved(p)'
    BY <1>1, <2>1, OwnFields DEF Saved
  <2>3. \A q \in Procs : Saved(q)' => Saved(q) /\ batch'[q] = batch[q]
    BY <1>2, <2>1, <2>2 DEF Others, Saved, Adding
  <2> QED BY <1>2, <2>1, <2>2, <2>3, IndexKept DEF Others
<1>7. CASE OpenMeta(p) \/ WriteMeta(p) \/ EmptyMeta(p) \/ ClearIndex(p) \/ (Quiet /\ (SetFileHash(p) \/ Patch(p)))
  <2>1. /\ UNCHANGED <<index, label, acked>> /\ batch'[p] = {}
        /\ At(p, "rewriting") \/ At(p, "idle") \/ At(p, "bump") \/ At(p, "rewrite") \/ At(p, "unlinking")
    <3>1. CASE WriteMeta(p)
      BY <1>1, <3>1, OwnFields DEF WriteMeta, Forget, memory, labels
    <3>2. CASE ~WriteMeta(p)
      <4>1. batch[p] = {}
        BY <1>1, <1>7, <3>2 DEF OpenMeta, EmptyMeta, ClearIndex, Quiet, Apart, Adding, Patching, Clearing
      <4> QED BY <1>7, <3>2, <4>1 DEF OpenMeta, EmptyMeta, ClearIndex, SetFileHash, Patch, Waits, memory,
                                      labels, locals, files
    <3> QED BY <3>1, <3>2
  <2>2. pc'[p] # "indexing" /\ ~Saved(p)'
    BY <1>1, <2>1, OwnFields DEF Saved, Adding
  <2>3. \A q \in Procs : Saved(q)' => Saved(q) /\ batch'[q] = batch[q]
    BY <1>2, <2>1, <2>2 DEF Others, Saved, Adding
  <2> QED BY <1>2, <2>1, <2>2, <2>3, IndexKept DEF Others
<1>8. CASE OpenIndex(p)
  <2>1. index' = Torn /\ Torn # NoFile
    BY <1>8, FilesAssumption DEF OpenIndex
  <2> QED BY <2>1 DEF IndexInv
<1>9. CASE WriteIndex(p)
  <2>2. /\ index' \in {LiveIndex, Torn} /\ UNCHANGED <<label, acked, batch, todo>>
        /\ pc[p] = "indexing" /\ pc'[p] = "mirror"
    BY <1>1, <1>9, OwnFields DEF WriteIndex, Waits, memory, labels, locals
  <2>3. LiveIndex \in Index /\ LiveIndex.points = points
    BY <1>1 DEF LiveIndex, Index, TypeOK, StoreTypeOK
  <2>4. index' # NoFile
    BY <2>2, <2>3, FilesAssumption
  <2>5. \A i \in acked : points[label[i]] = <<i, model>>
    BY <1>1, <1>2 DEF PointsInv, Open, Lab
  <2>6. ASSUME NEW q \in Procs, Saved(q)' PROVE \A i \in batch[q] : points[label[i]] = <<i, model>>
    <3>1. todo[q] = {}
      BY <1>1, <1>2, <2>2, <2>6 DEF Others, Saved, BatchInv, Persisting
    <3> QED BY <1>1, <3>1 DEF PointsInv
  <2> QED BY <1>2, <2>2, <2>3, <2>4, <2>5, <2>6 DEF IndexInv, Lab, Kept, Open
<1>10. CASE UnlinkIndex(p) \/ (Clear(p) /\ Quiet)
  <2>1. /\ acked' = {} /\ index' \in {index, NoFile} /\ (pc[p] = "idle" => index' = index)
        /\ At(p, "emptying") \/ At(p, "cleared")
    BY <1>1, <1>10 DEF UnlinkIndex, Clear, Waits, ListInv, Clearing, files
  <2>2. \A q \in Procs : pc'[q] \in {"idle", "emptying", "cleared"}
    BY <1>1, <1>2, <1>10, <2>1, OwnFields, Company DEF Others, UnlinkIndex, Clear, Quiet, Apart, Clearing
  <2> QED BY <2>1, <2>2 DEF IndexInv, Saved
<1> QED BY <1>3, <1>4, <1>5, <1>6, <1>7, <1>8, <1>9, <1>10 DEF StepOf, AddStep, Files, AloneOf

LEMMA ManifestKept ==
    ASSUME ManifestInv, stage = "up", UNCHANGED <<stage, model, manifest, hashed>>, acked' \subseteq acked,
           \A q \in Procs : Writing(q)' <=> Writing(q),
           \A q \in Procs : Writing(q) => held'[q] = held[q]
    PROVE  ManifestInv'
BY DEF ManifestInv, Open

LEMMA ManifestStep ==
    ASSUME Sound, NEW p \in Procs, StepOf(p)
    PROVE  ManifestInv'
<1>1. TypeOK /\ Apart /\ ListInv /\ IndexInv /\ ManifestInv /\ "meta" \notin damaged
  BY SoundFacts
<1>2. stage = "up" /\ UNCHANGED <<stage, model>> /\ Others(p)
  BY <1>1, StepIsUp, OthersWait
<1>3. CASE OpenManifest(p)
  <2>1. /\ manifest' = Torn /\ UNCHANGED <<acked, hashed>>
        /\ held'[p] = [model |-> model, max |-> maxElements, hashed |-> hashed] /\ Writing(p)'
    BY <1>1, <1>3, OwnFields DEF OpenManifest, Waits, memory, Writing
  <2>2. \A q \in Procs \ {p} : Writing(q)' => Writing(q) /\ held'[q] = held[q]
    BY <1>2 DEF Others, Writing
  <2>3. Torn # NoFile
    BY FilesAssumption
  <2> QED BY <1>1, <1>2, <2>1, <2>2, <2>3 DEF ManifestInv
<1>4. CASE Mirror(p) \/ Return(p)
  <2>1. /\ Writing(p) /\ UNCHANGED hashed /\ held[p] \in Manifest /\ ~Writing(p)'
    BY <1>1, <1>4, OwnFields DEF Mirror, Return, Waits, memory, Writing, TypeOK, CallTypeOK
  <2>2. manifest' \in {held[p], Torn}
    BY <1>1, <1>4, <2>1 DEF Mirror, Return, WriteManifest
  <2>3. /\ manifest' # NoFile
        /\ manifest' # Torn => manifest'.model = model /\ manifest'.hashed = hashed
    BY <1>1, <2>1, <2>2, FilesAssumption DEF ManifestInv
  <2>4. \A q \in Procs \ {p} : Writing(q)' => Writing(q) /\ held'[q] = held[q]
    BY <1>2 DEF Others, Writing
  <2> QED BY <1>1, <1>2, <2>1, <2>3, <2>4 DEF ManifestInv
<1>5. CASE EmptyMeta(p) \/ (Quiet /\ AloneOf(p))
  <2>1. /\ manifest' = manifest /\ acked' \subseteq acked
        /\ \A q \in Procs : ~Writing(q)
    BY <1>1, <1>5, Company DEF EmptyMeta, Quiet, AloneOf, SetFileHash, Patch, Clear, Waits, Apart, Clearing,
                               Writing, files
  <2>2. At(p, "bump") \/ At(p, "rewrite") \/ At(p, "cleared")
    BY <1>5 DEF EmptyMeta, AloneOf, SetFileHash, Patch, Clear
  <2>3. \A q \in Procs : ~Writing(q)'
    BY <1>1, <1>2, <2>1, <2>2, OwnFields DEF Others, Writing
  <2> QED BY <1>1, <1>2, <2>1, <2>3 DEF ManifestInv, Open
<1>6. CASE AddOf(p) \/ AddStep(p)
  <2>1. /\ UNCHANGED <<manifest, hashed, acked>> /\ ~Writing(p)
        /\ pc'[p] \in {"append", "idle", "appended", "index"}
    BY <1>1, <1>6, OwnFields DEF AddOf, Add, AddRefused, Begin, AddStep, InsertNext, NextRefused, AppendMeta,
                  PersistIndex, Insert, Refuse, Waits, memory, files, Writing
  <2> QED BY <1>1, <1>2, <2>1, ManifestKept DEF Others, Writing
<1>7. CASE OpenIndex(p) \/ WriteIndex(p) \/ OpenMeta(p) \/ WriteMeta(p) \/ ClearIndex(p) \/ UnlinkIndex(p)
  <2>1. /\ UNCHANGED <<manifest, hashed, acked>> /\ ~Writing(p)
        /\ pc'[p] \in {"indexing", "mirror", "rewriting", "idle", "unlinking", "emptying"}
    BY <1>1, <1>7, OwnFields DEF OpenIndex, WriteIndex, OpenMeta, WriteMeta, ClearIndex, UnlinkIndex, Waits,
                  memory, files, Writing
  <2> QED BY <1>1, <1>2, <2>1, ManifestKept DEF Others, Writing
<1> QED BY <1>3, <1>4, <1>5, <1>6, <1>7 DEF StepOf, Files
\* Opening a store: nothing runs, and what is on disk was written whole.
LEMMA SearchLoad == ASSUME Sound, Load PROVE PointsInv' /\ IndexInv' /\ ManifestInv'
<1>1. /\ TypeOK /\ LInv /\ ListInv /\ PointsInv /\ IndexInv /\ ManifestInv /\ "meta" \notin damaged
  BY SoundFacts
<1>2. /\ UNCHANGED <<model, pc, batch, held, damaged, manifest>> /\ stage # "up"
      /\ \A p \in Procs : pc[p] = "idle" /\ batch[p] = {}
  BY <1>1 DEF Load, LoadFresh, LoadIndex, LoadOtherModel, LoadTruncate, LoadMetadata, LoadStep, locals,
              files, LInv, Apart, Adding
<1>3. \A p \in Procs : ~Saved(p)' /\ pc'[p] # "indexing" /\ ~Writing(p) /\ ~Writing(p)'
  BY <1>2 DEF Saved, Writing
<1>4. manifest # Torn
  BY <1>1, <1>2 DEF ManifestInv
<1>5. CASE acked' = {}
  BY <1>2, <1>3, <1>4, <1>5 DEF PointsInv, IndexInv, ManifestInv
<1>6. CASE LoadFresh
  <2>1. index = NoFile \/ manifest = NoFile
    BY <1>4, <1>6 DEF LoadFresh
  <2>2. acked = {} /\ acked' = acked
    BY <1>1, <1>6, <2>1 DEF LoadFresh, IndexInv, ManifestInv
  <2> QED BY <1>5, <2>2
<1>7. CASE LoadIndex
  <2>1. /\ index \notin {NoFile, Torn} /\ manifest.model = model /\ points' = index.points
        /\ stage = "down" /\ stage' = "replaying" /\ UNCHANGED <<acked, meta, index>>
    BY <1>7 DEF LoadIndex, Known, files
  <2>2. \A id \in acked : index.points[meta[id]] = <<id, model>>
    BY <1>1, <2>1 DEF IndexInv, Lab, Kept, Open
  <2> QED BY <1>1, <1>2, <1>3, <1>4, <2>1, <2>2 DEF PointsInv, IndexInv, ManifestInv, Lab, Kept, Open
<1>8. CASE LoadMetadata
  <2>1. /\ stage = "replaying" /\ stage' = "up" /\ label' = meta
        /\ UNCHANGED <<points, acked, meta, index>>
    BY <1>8 DEF LoadMetadata, live, files
  <2>2. \A id \in acked : points[meta[id]] = <<id, model>>
    BY <1>1, <2>1 DEF PointsInv, Lab, Open
  <2>3. index \notin {NoFile, Torn} => \A id \in acked : index.points[meta[id]] = <<id, model>>
    BY <1>1, <2>1 DEF IndexInv, Lab, Kept, Open
  <2> QED BY <1>1, <1>2, <1>3, <1>4, <2>1, <2>2, <2>3 DEF PointsInv, IndexInv, ManifestInv, Lab, Kept, Open
<1>9. LoadOtherModel \/ LoadTruncate => acked' = {}
  BY <1>1 DEF LoadOtherModel, LoadTruncate, ListInv
<1> QED BY <1>5, <1>6, <1>7, <1>8, <1>9 DEF Load

\* A crash: labels are found again in the metadata file, the model in the
\* manifest.
LEMMA SearchRestart ==
    ASSUME Sound, Restart, damaged' = {} PROVE PointsInv' /\ IndexInv' /\ ManifestInv'
<1>1. /\ TypeOK /\ LInv /\ Apart /\ RowInv /\ ListInv /\ IndexInv /\ ManifestInv /\ "meta" \notin damaged
  BY SoundFacts
<1>2. manifest # Torn /\ \A p \in Procs : pc[p] # "rewriting"
  BY DEF Restart
<1>3. /\ UNCHANGED <<index, manifest, acked, meta>> /\ stage' = "down"
      /\ \A p \in Procs : pc'[p] = "idle" /\ batch'[p] = {}
  BY <1>2, RestartMeta DEF Restart
<1>4. meta # Torn /\ acked \subseteq Named(meta)
  BY <1>1, <1>2 DEF ListInv
<1>5. \A id \in acked : Lab(id) = meta[id]
  <2> SUFFICES ASSUME stage = "up", NEW id \in acked PROVE label[id] = meta[id]
    BY DEF Lab
  <2>1. Settled
    BY <1>1 DEF ListInv, Settled
  <2> QED BY <1>1, <1>4, <2>1 DEF RowInv, Named
<1>6. acked # {} => manifest.model = IF Open THEN model ELSE manifest.model
  BY <1>1, <1>2 DEF ManifestInv
<1>7. index \notin {NoFile, Torn} => \A id \in acked : index.points[meta[id]] = <<id, manifest.model>>
  BY <1>1, <1>5, <1>6 DEF IndexInv, Kept
<1>8. IndexInv'
  BY <1>1, <1>3, <1>7 DEF IndexInv, Saved, Lab, Kept, Open
<1>9. PointsInv' /\ ManifestInv'
  BY <1>1, <1>2, <1>3 DEF PointsInv, ManifestInv, Writing, Open
<1> QED BY <1>8, <1>9

LEMMA SearchStep == ASSUME TypeOK, SInv, [AddsOverlapNext]_vars PROVE SearchInv'
<1> SUFFICES ASSUME damaged' = {} PROVE PointsInv' /\ IndexInv' /\ ManifestInv'
  BY DEF SearchInv
<1>1. damaged = {}
  <2>1. Apart
    BY DEF SInv, LInv
  <2>2. damaged \subseteq damaged'
    BY <2>1, OnlyTheseSteps, StepIsUp
       DEF vars, process, Load, LoadFresh, LoadIndex, LoadOtherModel, LoadTruncate, LoadMetadata, LoadStep,
           Restart
  <2> QED BY <2>2
<1>2. Sound
  BY <1>1 DEF Sound
<1>3. CASE UNCHANGED vars
  BY <1>2, <1>3, SoundFacts
     DEF vars, process, memory, labels, live, files, locals, PointsInv, IndexInv, ManifestInv, Lab, Kept,
         Open, Saved, Adding, Writing
<1> QED BY <1>2, <1>3, OnlyTheseSteps, PointsStep, IndexStep, ManifestStep, SearchLoad, SearchRestart

-----------------------------------------------------------------------------

LEMMA AckedInit == ASSUME Init PROVE SInv
<1>1. LInv
  BY LabelInit
<1>2. BatchInv
  BY DEF Init, BatchInv, Persisting
<1>3. ListInv
  <2>1. NoRows # Torn
    BY FilesAssumption DEF NoRows, Rows
  <2> QED BY <2>1 DEF Init, ListInv, Patching, Clearing, Settled, Logged
<1>4. SearchInv
  BY FilesAssumption DEF Init, SearchInv, PointsInv, IndexInv, ManifestInv, Saved, Adding, Writing, Open
<1> QED BY <1>1, <1>2, <1>3, <1>4 DEF SInv

LEMMA AckedInductive == AddsOverlapSpec => [](TypeOK /\ SInv)
<1>1. Init => TypeOK /\ SInv
  BY HnswTypeInit, AckedInit
<1>2. TypeOK /\ SInv /\ [AddsOverlapNext]_vars => TypeOK' /\ SInv'
  BY HnswTypeStep, AddsOverlapIsNext, LabelStep, BatchStep, ListStep, SearchStep DEF SInv
<1> QED BY <1>1, <1>2, PTL DEF AddsOverlapSpec

\* The rows of documents whose add has returned stay in the metadata file of
\* hnsw.ts, as long as only adds overlap and no crash hits a rewrite of it.
THEOREM HnswAckedListed == AddsOverlapSpec => []AckedListed
<1>1. SInv => AckedListed
  BY DEF SInv, ListInv, AckedListed
<1> QED BY <1>1, AckedInductive, PTL

\* A document whose add has returned is found by search whenever the store of
\* hnsw.ts is open, after any number of crashes and changes of the model that
\* caught neither the manifest nor the metadata file emptied.
THEOREM HnswAckedSearchable == AddsOverlapSpec => []AckedSearchable
<1>1. TypeOK /\ SInv => AckedSearchable
  <2> SUFFICES ASSUME TypeOK, SInv, stage = "up", damaged = {}, NEW id \in acked
               PROVE  <<id, <<id, model>>>> \in Hits
    BY DEF AckedSearchable
  <2>1. Sound
    BY DEF Sound
  <2>2. /\ LInv /\ LabelInv /\ ListInv /\ PointsInv /\ "meta" \notin damaged
    BY <2>1, SoundFacts
  <2>3. id \in byId /\ id \in Ids /\ label[id] # None
    BY <2>2, AckedKnown DEF TypeOK, StoreTypeOK
  <2>4. label[id] \in Labels /\ owner[label[id]] = id
    BY <2>2, <2>3 DEF LabelInv, TypeOK, StoreTypeOK, Rows
  <2>5. points[label[id]] = <<id, model>>
    BY <2>2 DEF PointsInv, Open, Lab
  <2>6. <<id, model>> # None
    BY <2>3, NoneAssumption DEF TypeOK, StoreTypeOK
  <2> QED BY <2>3, <2>4, <2>5, <2>6 DEF Hits
<1> QED BY <1>1, AckedInductive, PTL
=============================================================================
