----------------------------- MODULE HnswStore -----------------------------
(***************************************************************************)
(* The HNSW vector backend, src/memory/vector/hnsw.ts: an index of vectors *)
(* under integer labels, the documents with their labels, and three files  *)
(* that are written one after the other and none of them atomically.       *)
(*                                                                         *)
(* A document is its id, its vector the id and the model that embedded it. *)
(* Metadata patches are modelled by the rewrite of the metadata file they  *)
(* cause.  hnswlib-node writes the index in another thread, from the live  *)
(* index, and gives no points beyond its capacity a place.                 *)
(***************************************************************************)
EXTENDS Naturals, FiniteSets

CONSTANTS
    Procs, Ids,
    Models,        \* embedding models the process is started with
    InitialMax,    \* initialMaxElements
    MaxLabel,      \* bound: the largest label
    MaxCrashes,    \* bound: restarts of the process
    None,          \* no label, no document, no vector
    NoFile,
    Torn           \* a file that cannot be parsed; an emptied one for a start

ASSUME IdsAssumption == IsFiniteSet(Ids)
ASSUME InitialMaxAssumption == InitialMax \in Nat \ {0}
ASSUME MaxLabelAssumption == MaxLabel \in Nat
ASSUME MaxCrashesAssumption == MaxCrashes \in Nat
ASSUME NoneAssumption == None \notin Ids \union Nat \union (Ids \X Models)

VARIABLES
    stage,                         \* load, and whether it has finished
    model,                         \* this.embedder
    byId, label, owner, nextLabel, \* byId, idToLabel, labelToId, nextLabel
    points, room,                  \* this.hnsw: vectors by label, and its capacity
    maxElements, hashed,           \* maxElements; whether file_hashes has an entry
    meta, index, manifest,         \* files
    pc,                            \* per process: where its operation awaits
    batch, todo, current,          \* per process: ids to add, not yet inserted, being appended
    held,                          \* per process: what it is writing to a file
    acked,                         \* history: ids whose add has returned
    damaged,                       \* history: files a restart found emptied or mixed up
    restarts

labels == <<label, owner, nextLabel>>
live == <<points, room, maxElements>>
memory == <<byId, labels, live, hashed>>
files == <<meta, index, manifest>>
locals == <<batch, todo, current>>
process == <<stage, model, damaged, restarts>>
vars == <<process, memory, files, pc, locals, held, acked>>

Labels == 0 .. MaxLabel
Vectors == Ids \X Models
NoPoints == [l \in Labels |-> None]
NoRows == [id \in Ids |-> None]

Rows == [Ids -> Labels \union {None}]
Index == [points : [Labels -> Vectors \union {None}], room : Nat]
Manifest == [model : Models, max : Nat \ {0}, hashed : BOOLEAN]

ASSUME FilesAssumption ==
    /\ NoFile # Torn
    /\ \A f \in {NoFile, Torn} : f \notin Rows /\ f \notin Index /\ f \notin Manifest

Stages == {"down", "truncating", "replaying", "up"}
Places == {"idle", "append", "appended", "index", "indexing", "mirror", "mirroring",
           "bump", "bumping", "rewrite", "rewriting", "cleared", "unlinking", "emptying"}

StoreTypeOK ==
    /\ stage \in Stages /\ model \in Models
    /\ byId \subseteq Ids
    /\ label \in Rows /\ owner \in [Labels -> Ids \union {None}]
    /\ nextLabel \in 0 .. MaxLabel + 1
    /\ points \in [Labels -> Vectors \union {None}]
    /\ room \in Nat /\ maxElements \in Nat \ {0} /\ hashed \in BOOLEAN
    /\ meta \in Rows \union {Torn}
    /\ index \in Index \union {NoFile, Torn}
    /\ manifest \in Manifest \union {NoFile, Torn}
    /\ acked \subseteq Ids
    /\ damaged \subseteq {"meta", "manifest"}
    /\ restarts \in 0 .. MaxCrashes

CallTypeOK ==
    /\ pc \in [Procs -> Places]
    /\ batch \in [Procs -> SUBSET Ids] /\ todo \in [Procs -> SUBSET Ids]
    /\ current \in [Procs -> [id : Ids, label : Labels] \union {None}]
    /\ held \in [Procs -> Rows \union Index \union Manifest \union {None}]
    /\ \A p \in Procs :
          /\ pc[p] = "append" => current[p] \in [id : Ids, label : Labels]
          /\ pc[p] = "indexing" => held[p] \in Index
          /\ pc[p] \in {"mirroring", "bumping"} => held[p] \in Manifest
          /\ pc[p] \in {"rewrite", "rewriting"} => held[p] \in Rows

TypeOK == StoreTypeOK /\ CallTypeOK

EmptyMemory ==
    /\ byId' = {} /\ label' = NoRows /\ owner' = NoPoints /\ nextLabel' = 0
    /\ points' = NoPoints /\ room' = 0 /\ maxElements' = InitialMax /\ hashed' = FALSE

Init ==
    /\ stage = "down" /\ model \in Models
    /\ byId = {} /\ label = NoRows /\ owner = NoPoints /\ nextLabel = 0
    /\ points = NoPoints /\ room = 0 /\ maxElements = InitialMax /\ hashed = FALSE
    /\ meta = NoRows /\ index = NoFile /\ manifest = NoFile
    /\ pc = [p \in Procs |-> "idle"]
    /\ batch = [p \in Procs |-> {}] /\ todo = [p \in Procs |-> {}]
    /\ current = [p \in Procs |-> None] /\ held = [p \in Procs |-> None]
    /\ acked = {} /\ damaged = {} /\ restarts = 0

At(p, place) == pc' = [pc EXCEPT ![p] = place]
Hold(p, value) == held' = [held EXCEPT ![p] = value]

-----------------------------------------------------------------------------
(* load, awaited by createHnswBackend before anyone has the backend        *)

LoadStep == UNCHANGED <<model, damaged, restarts, pc, locals, held>>

\* No index, or no manifest that parses: the index starts empty.
LoadFresh ==
    /\ stage = "down"
    /\ index = NoFile \/ manifest \in {NoFile, Torn}
    /\ room' = maxElements
    /\ stage' = "replaying"
    /\ LoadStep
    /\ UNCHANGED <<byId, labels, points, maxElements, hashed, files, acked>>

Known == index # NoFile /\ manifest \notin {NoFile, Torn}

\* An index that cannot be read makes load throw.
LoadIndex ==
    /\ stage = "down"
    /\ Known /\ manifest.model = model
    /\ index # Torn
    /\ points' = index.points /\ room' = index.room
    /\ maxElements' = manifest.max /\ hashed' = manifest.hashed
    /\ stage' = "replaying"
    /\ LoadStep
    /\ UNCHANGED <<byId, labels, files, acked>>

\* Vectors of another model are removed, then the documents.
LoadOtherModel ==
    /\ stage = "down"
    /\ Known /\ manifest.model # model
    /\ room' = maxElements
    /\ index' = NoFile
    /\ acked' = {}
    /\ stage' = "truncating"
    /\ LoadStep
    /\ UNCHANGED <<byId, labels, points, maxElements, hashed, meta, manifest>>

LoadTruncate ==
    /\ stage = "truncating"
    /\ meta' = NoRows
    /\ stage' = "replaying"
    /\ LoadStep
    /\ UNCHANGED <<memory, index, manifest, acked>>

Named(rows) == {id \in Ids : rows[id] # None}
LabelsIn(rows) == {rows[id] : id \in Named(rows)}

Owners(rows) ==
    {pick \in [LabelsIn(rows) -> Named(rows)] : \A l \in LabelsIn(rows) : rows[pick[l]] = l}

\* One row per id counts, the last; of two rows with one label the later one
\* owns it (either may be the later one here).
LoadMetadata ==
    /\ stage = "replaying"
    /\ meta # Torn
    /\ byId' = Named(meta)
    /\ label' = meta
    /\ \E pick \in Owners(meta) :
          owner' = [l \in Labels |-> IF l \in DOMAIN pick THEN pick[l] ELSE None]
    /\ nextLabel' \in {n \in 0 .. MaxLabel + 1 :
                          /\ \A l \in LabelsIn(meta) : l < n
                          /\ n = 0 \/ n - 1 \in LabelsIn(meta)}
    /\ stage' = "up"
    /\ LoadStep
    /\ UNCHANGED <<live, hashed, files, acked>>

-----------------------------------------------------------------------------
(* addWithVector (a batch of one) and addBatch                             *)

LabelOf(id) == IF label[id] # None THEN label[id] ELSE nextLabel

AllocateLabel(id) ==
    IF label[id] # None
    THEN UNCHANGED labels
    ELSE /\ nextLabel <= MaxLabel
         /\ label' = [label EXCEPT ![id] = nextLabel]
         /\ owner' = [owner EXCEPT ![nextLabel] = id]
         /\ nextLabel' = nextLabel + 1

\* maxElements is doubled until it suffices.
EnsureCapacity(needed) ==
    IF needed <= maxElements
    THEN UNCHANGED <<maxElements, room>>
    ELSE \E n \in needed .. 2 * needed - 1 :
            /\ \E k \in 1 .. needed : n = maxElements * 2^k
            /\ maxElements' = n /\ room' = n

\* addPoint replaces the vector of a known label; a new one needs room.
Fits(id, capacity) ==
    \/ LabelOf(id) \in Labels /\ points[LabelOf(id)] # None
    \/ Cardinality({l \in Labels : points[l] # None}) < capacity

\* Label, point and document of one id of ids; its metadata row comes next.
Insert(p, ids, capacity) ==
    \E id \in ids :
        /\ Fits(id, capacity)
        /\ AllocateLabel(id)
        /\ points' = [points EXCEPT ![LabelOf(id)] = <<id, model>>]
        /\ byId' = byId \union {id}
        /\ current' = [current EXCEPT ![p] = [id |-> id, label |-> LabelOf(id)]]
        /\ todo' = [todo EXCEPT ![p] = ids \ {id}]
        /\ At(p, "append")

Forget(p) ==
    /\ batch' = [batch EXCEPT ![p] = {}]
    /\ todo' = [todo EXCEPT ![p] = {}]
    /\ current' = [current EXCEPT ![p] = None]
    /\ Hold(p, None)
    /\ At(p, "idle")

\* addPoint throws: the label stays allocated, what was inserted stays.
Refuse(p, ids, capacity) ==
    /\ \E id \in ids : ~Fits(id, capacity) /\ AllocateLabel(id)
    /\ Forget(p)
    /\ UNCHANGED <<points, byId>>

Begin(p, ids) ==
    /\ stage = "up" /\ pc[p] = "idle"
    /\ EnsureCapacity(Cardinality(byId) + Cardinality(ids))

Add(p, ids) ==
    /\ Begin(p, ids)
    /\ Insert(p, ids, room')
    /\ batch' = [batch EXCEPT ![p] = ids]
    /\ UNCHANGED <<process, hashed, files, held, acked>>

AddRefused(p, ids) ==
    /\ Begin(p, ids)
    /\ Refuse(p, ids, room')
    /\ UNCHANGED <<process, hashed, files, acked>>

InsertNext(p) ==
    /\ pc[p] = "appended"
    /\ Insert(p, todo[p], room)
    /\ UNCHANGED <<process, room, maxElements, hashed, files, batch, held, acked>>

NextRefused(p) ==
    /\ pc[p] = "appended"
    /\ Refuse(p, todo[p], room)
    /\ UNCHANGED <<process, room, maxElements, hashed, files, acked>>

Waits(p) == UNCHANGED <<process, memory, locals, acked>>

AppendMeta(p) ==
    /\ pc[p] = "append"
    /\ LET row == current[p] IN
       meta' = IF meta = Torn THEN Torn ELSE [meta EXCEPT ![row.id] = row.label]
    /\ At(p, "appended")
    /\ Waits(p)
    /\ UNCHANGED <<index, manifest, held>>

\* Mutant: the index is left as it is on disk.
SkipIndex(p) ==
    /\ pc[p] = "appended"
    /\ todo[p] = {}
    /\ At(p, "mirror")
    /\ Waits(p)
    /\ UNCHANGED <<files, held>>

PersistIndex(p) ==
    /\ pc[p] = "appended"
    /\ todo[p] = {}
    /\ At(p, "index")
    /\ Waits(p)
    /\ UNCHANGED <<files, held>>

-----------------------------------------------------------------------------
(* The three files.  Opening one for writing empties it; what is written is *)
(* taken at the call, from the live index for the index.                    *)

LiveIndex == [points |-> points, room |-> room]
OpenIndex(p) ==
    /\ pc[p] = "index"
    /\ index' = Torn
    /\ Hold(p, LiveIndex)
    /\ At(p, "indexing")
    /\ Waits(p)
    /\ UNCHANGED <<meta, manifest>>

\* Another writer of the file, or a point added meanwhile, may spoil it.
WriteIndex(p) ==
    /\ pc[p] = "indexing"
    /\ LET alone == /\ index = Torn /\ held[p] = LiveIndex
                    /\ \A q \in Procs \ {p} : pc[q] # "indexing"
       IN  index' \in IF alone THEN {LiveIndex} ELSE {LiveIndex, Torn}
    /\ Hold(p, None)
    /\ At(p, "mirror")
    /\ Waits(p)
    /\ UNCHANGED <<meta, manifest>>

\* persistIndex and bumpManifest write the manifest one after the other.
OpenManifest(p) ==
    /\ pc[p] \in {"mirror", "bump"}
    /\ manifest' = Torn
    /\ Hold(p, [model |-> model, max |-> maxElements, hashed |-> hashed])
    /\ At(p, IF pc[p] = "mirror" THEN "mirroring" ELSE "bumping")
    /\ Waits(p)
    /\ UNCHANGED <<meta, index>>

\* Two writers that have both emptied the manifest: the second text, if it is
\* shorter (another document count, capacity or number of file hashes), leaves
\* a remainder of the first behind.
WriteManifest(p) ==
    /\ manifest' \in IF manifest = Torn THEN {held[p]} ELSE {held[p], Torn}
    /\ UNCHANGED <<meta, index>>

Mirror(p) ==
    /\ pc[p] = "mirroring"
    /\ WriteManifest(p)
    /\ Hold(p, None)
    /\ At(p, "bump")
    /\ Waits(p)

\* The operation returns: its caller now relies on what it added.
Return(p) ==
    /\ pc[p] = "bumping"
    /\ WriteManifest(p)
    /\ acked' = acked \union batch[p]
    /\ Forget(p)
    /\ UNCHANGED <<process, memory>>

-----------------------------------------------------------------------------
(* setFileHash, patchMetadataMany, clear                                   *)

SetFileHash(p) ==
    /\ stage = "up" /\ pc[p] = "idle"
    /\ hashed' = TRUE
    /\ At(p, "bump")
    /\ UNCHANGED <<process, byId, labels, live, files, locals, held, acked>>

\* Mutant: label 0 counts as none.
OwnedRowsTruthy ==
    [id \in Ids |-> IF id \in byId /\ \E l \in Labels \ {0} : owner[l] = id
                    THEN label[id] ELSE None]

\* What rewriteMetadata writes: the documents found through labelToId.
OwnedRows ==
    [id \in Ids |-> IF id \in byId /\ \E l \in Labels : owner[l] = id THEN label[id] ELSE None]

Patch(p) ==
    /\ stage = "up" /\ pc[p] = "idle"
    /\ byId # {}
    /\ Hold(p, OwnedRows)
    /\ At(p, "rewrite")
    /\ Waits(p)
    /\ UNCHANGED files

OpenMeta(p) ==
    /\ pc[p] = "rewrite"
    /\ meta' = NoRows
    /\ At(p, "rewriting")
    /\ Waits(p)
    /\ UNCHANGED <<index, manifest, held>>

\* Rows written from the start of a file that got other rows meanwhile.
WriteMeta(p) ==
    /\ pc[p] = "rewriting"
    /\ meta' \in IF meta \in {NoRows, held[p]} THEN {held[p]} ELSE {held[p], Torn}
    /\ Forget(p)
    /\ UNCHANGED <<process, memory, index, manifest, acked>>

\* The documents go first, the index after the next await, then the files.
Clear(p) ==
    /\ stage = "up" /\ pc[p] = "idle"
    /\ byId' = {} /\ label' = NoRows /\ owner' = NoPoints /\ nextLabel' = 0
    /\ acked' = {}
    /\ At(p, "cleared")
    /\ UNCHANGED <<process, live, hashed, files, locals, held>>

ClearIndex(p) ==
    /\ pc[p] = "cleared"
    /\ points' = NoPoints /\ room' = maxElements
    /\ At(p, "unlinking")
    /\ UNCHANGED <<process, byId, labels, maxElements, hashed, files, locals, held, acked>>

UnlinkIndex(p) ==
    /\ pc[p] = "unlinking"
    /\ index' = NoFile
    /\ At(p, "emptying")
    /\ Waits(p)
    /\ UNCHANGED <<meta, manifest, held>>

\* this.manifest becomes an empty one before it is written.
EmptyMeta(p) ==
    /\ pc[p] = "emptying"
    /\ meta' = NoRows
    /\ hashed' = FALSE
    /\ At(p, "bump")
    /\ UNCHANGED <<process, byId, labels, live, index, manifest, locals, held, acked>>

\* What search can answer: a document, and the vector that ranks it.  Labels
\* without a document are passed over.
Hits ==
    {<<owner[l], points[l]>> : l \in {k \in Labels : points[k] # None /\ owner[k] \in byId}}

-----------------------------------------------------------------------------

Files(p) ==
    \/ OpenIndex(p) \/ WriteIndex(p)
    \/ OpenManifest(p) \/ Mirror(p) \/ Return(p)
    \/ OpenMeta(p) \/ WriteMeta(p)
    \/ ClearIndex(p) \/ UnlinkIndex(p) \/ EmptyMeta(p)

Load == LoadFresh \/ LoadIndex \/ LoadOtherModel \/ LoadTruncate \/ LoadMetadata

AddStep(p) ==
    \/ InsertNext(p) \/ NextRefused(p) \/ AppendMeta(p) \/ PersistIndex(p)

\* The process dies and is started again, perhaps with another model.  A crash
\* in a rewrite leaves some of the rows, or half of one.
Restart ==
    /\ restarts < MaxCrashes
    /\ restarts' = restarts + 1
    /\ stage' = "down" /\ model' \in Models
    /\ EmptyMemory
    /\ LET rewriting == {p \in Procs : pc[p] = "rewriting"} IN
       /\ \/ UNCHANGED meta
          \/ /\ rewriting # {}
             /\ \E p \in rewriting, S \in SUBSET Ids :
                   meta' \in {[id \in Ids |-> IF id \in S THEN held[p][id] ELSE None], Torn}
       /\ damaged' = damaged \union (IF rewriting # {} THEN {"meta"} ELSE {})
                             \union (IF manifest = Torn THEN {"manifest"} ELSE {})
    /\ pc' = [p \in Procs |-> "idle"]
    /\ batch' = [p \in Procs |-> {}] /\ todo' = [p \in Procs |-> {}]
    /\ current' = [p \in Procs |-> None] /\ held' = [p \in Procs |-> None]
    /\ UNCHANGED <<index, manifest, acked>>

NonEmpty(S) == (SUBSET S) \ {{}}

Next ==
    \/ Load
    \/ \E p \in Procs :
          \/ \E ids \in NonEmpty(Ids) : Add(p, ids) \/ AddRefused(p, ids)
          \/ AddStep(p) \/ Files(p)
          \/ SetFileHash(p) \/ Patch(p) \/ Clear(p)
    \/ Restart

Spec == Init /\ [][Next]_vars

-----------------------------------------------------------------------------
(* The discipline under which the documents are safe: adds overlap only     *)
(* adds; the other operations run alone.                                    *)

Quiet == \A p \in Procs : pc[p] = "idle"
Adding(p) == batch[p] # {}

AddsOverlapNext ==
    \/ Load
    \/ \E p \in Procs :
          \/ /\ \A q \in Procs : Adding(q) \/ pc[q] = "idle"
             /\ \E ids \in NonEmpty(Ids) : Add(p, ids) \/ AddRefused(p, ids)
          \/ AddStep(p) \/ Files(p)
          \/ Quiet /\ (SetFileHash(p) \/ Patch(p) \/ Clear(p))
    \/ Restart

AddsOverlapSpec == Init /\ [][AddsOverlapNext]_vars

-----------------------------------------------------------------------------
(* Properties                                                              *)

\* A search maps labels to documents: no two documents have the same label,
\* whatever crashes and damaged files the labels went through.
LabelsDistinct ==
    stage = "up" => \A id \in byId : label[id] \in Labels /\ owner[label[id]] = id

\* A document whose add has returned is found by search once the store is
\* open: its label leads to its own vector, of the model in use.  A manifest
\* that a restart finds emptied, or mixed up by two adds, and a metadata file
\* that a crash caught emptied are not found out by load.
AckedSearchable ==
    stage = "up" /\ damaged = {} =>
        \A id \in acked : <<id, <<id, model>>>> \in Hits

\* ... and its row is in the metadata file, except while that is rewritten.
AckedListed ==
    \/ "meta" \in damaged
    \/ \E p \in Procs : pc[p] = "rewriting"
    \/ meta # Torn /\ acked \subseteq Named(meta)
=============================================================================
