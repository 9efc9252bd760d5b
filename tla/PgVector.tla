------------------------------ MODULE PgVector ------------------------------
(***************************************************************************)
(* The Postgres vector backend of src/memory/vector/pgvector.ts: one table *)
(* of documents shared by all stores, the id its primary key, and a        *)
(* manifest row per store whose doc_count is kept by a statement of its    *)
(* own.  A backend answers size() from a copy of its manifest row.         *)
(*                                                                         *)
(* One action is one statement; patchMetadataMany, a transaction, is one   *)
(* action per UPDATE and one for COMMIT.  Texts and vectors are left out:  *)
(* a row is its store and the patches its metadata carries.  A backend     *)
(* here runs one call at a time; calls overlap between backends.           *)
(***************************************************************************)
EXTENDS Integers, FiniteSets, SequencesExt

CONSTANTS
    Backends,  \* PgvectorBackend instances, in one process or in several
    Stores, Ids,
    Edits,     \* calls of patchMetadataMany, by what they write
    Named,     \* per edit: the ids it names, in the caller's order
    Batches,   \* bound: the id sequences given to addBatch
    MaxAdds,   \* bound: calls of addWithVector and addBatch
    MaxLost,   \* bound: connections lost
    NoDoc, NotLoaded

ASSUME EditAssumption == Named \in [Edits -> Seq(Ids)]
ASSUME BatchAssumption == Batches \subseteq Seq(Ids)
ASSUME BackendsAssumption == IsFiniteSet(Backends)
ASSUME PgVectorBoundsAssumption == MaxAdds \in Nat /\ MaxLost \in Nat

Doc == [store : Stores, patches : SUBSET Edits]

ASSUME NoDocAssumption == NoDoc \notin Doc /\ NotLoaded \notin Int

VARIABLES
    storeOf,   \* per backend: the store it was constructed for; never changes
    docs,      \* the document table, as committed
    doc_count, \* the manifest table: per store, 0 also when it has no row
    cached,    \* per backend: doc_count of its manifestCache, or NotLoaded
    vpc,       \* per backend: the next statement
    left,      \* per backend: ids it has still to insert or to patch
    bump,      \* per backend: by how much it will raise doc_count
    edit,      \* per backend: the edit of its open transaction
    locked,    \* per backend: rows its open transaction has updated
    begun,     \* history: edits that have been asked for
    owed,      \* history, per edit: rows there for all of its run, uncleared
    crossed,   \* history: stores counted between the DELETE and the zero of a clear
    adds, lost

vectorTables == <<storeOf, docs, doc_count>>
vectorVars == <<storeOf, docs, doc_count, cached, vpc, left, bump, edit, locked,
                begun, owed, crossed, adds, lost>>

Has(id) == docs[id] # NoDoc
InStore(s) == {id \in Ids : Has(id) /\ docs[id].store = s}
Places == {"idle", "fetch", "upsert", "batch", "bump", "patch", "delete", "zero"}

VectorTypeOK ==
    /\ storeOf \in [Backends -> Stores]
    /\ docs \in [Ids -> Doc \union {NoDoc}]
    /\ doc_count \in [Stores -> Int]
    /\ cached \in [Backends -> Nat \union {NotLoaded}]
    /\ vpc \in [Backends -> Places]
    /\ left \in [Backends -> Seq(Ids)]
    /\ bump \in [Backends -> Nat]
    /\ edit \in [Backends -> SUBSET Edits]
    /\ locked \in [Backends -> SUBSET Ids]
    /\ begun \in SUBSET Edits /\ owed \in [Edits -> SUBSET Ids]
    /\ crossed \in SUBSET Stores
    /\ adds \in 0 .. MaxAdds /\ lost \in 0 .. MaxLost

VectorInit ==
    /\ storeOf \in [Backends -> Stores]
    /\ docs = [id \in Ids |-> NoDoc]
    /\ doc_count = [s \in Stores |-> 0]
    /\ cached = [b \in Backends |-> NotLoaded]
    /\ vpc = [b \in Backends |-> "idle"]
    /\ left = [b \in Backends |-> <<>>]
    /\ bump = [b \in Backends |-> 0]
    /\ edit = [b \in Backends |-> {}]
    /\ locked = [b \in Backends |-> {}]
    /\ begun = {} /\ owed = [x \in Edits |-> {}] /\ crossed = {}
    /\ adds = 0 /\ lost = 0

At(b, place) == vpc' = [vpc EXCEPT ![b] = place]
LockedByOther(b, id) == \E c \in Backends \ {b} : id \in locked[c]

\* The call is over.
Done(b) ==
    /\ At(b, "idle")
    /\ left' = [left EXCEPT ![b] = <<>>]
    /\ bump' = [bump EXCEPT ![b] = 0]
    /\ edit' = [edit EXCEPT ![b] = {}]
    /\ locked' = [locked EXCEPT ![b] = {}]

\* Rows that are gone or written anew no longer owe their patches.
Forgive(ids) == owed' = [x \in Edits |-> owed[x] \ ids]

-----------------------------------------------------------------------------
(* load: the probe of the table, then fetchManifest or an empty manifest.  *)

Load(b) ==
    /\ vpc[b] = "idle" /\ cached[b] = NotLoaded
    /\ At(b, "fetch")
    /\ UNCHANGED <<vectorTables, cached, left, bump, edit, locked, begun, owed, adds, lost, crossed>>

FetchManifest(b) ==
    /\ vpc[b] = "fetch"
    /\ cached' = [cached EXCEPT ![b] = doc_count[storeOf[b]]]
    /\ At(b, "idle")
    /\ UNCHANGED <<vectorTables, left, bump, edit, locked, begun, owed, adds, lost, crossed>>

-----------------------------------------------------------------------------
(* addWithVector and addBatch                                              *)

Loaded(b) == vpc[b] = "idle" /\ cached[b] # NotLoaded

AddStart(b, place, ids) ==
    /\ Loaded(b) /\ adds < MaxAdds
    /\ adds' = adds + 1
    /\ At(b, place)
    /\ left' = [left EXCEPT ![b] = ids]
    /\ bump' = [bump EXCEPT ![b] = Len(ids)]
    /\ UNCHANGED <<vectorTables, cached, edit, locked, begun, owed, lost, crossed>>

\* INSERT ... ON CONFLICT (id) DO UPDATE: text, vector and metadata are
\* replaced, the store is not.
Upsert(b) ==
    LET id == Head(left[b]) IN
    /\ vpc[b] = "upsert" /\ ~LockedByOther(b, id)
    /\ docs' = [docs EXCEPT ![id] =
          [store |-> IF Has(id) THEN docs[id].store ELSE storeOf[b], patches |-> {}]]
    /\ Forgive({id})
    /\ At(b, "bump")
    /\ UNCHANGED <<storeOf, doc_count, cached, left, bump, edit, locked, begun, adds, lost, crossed>>

Inserted(b, ids) ==
    [id \in Ids |-> IF id \in ids /\ ~Has(id)
                    THEN [store |-> storeOf[b], patches |-> {}] ELSE docs[id]]

\* Fewer than 100 documents: one INSERT ... DO NOTHING each.  It waits for a
\* locked row it conflicts with only to leave it alone.
InsertNext(b) ==
    /\ vpc[b] = "batch" /\ left[b] # <<>>
    /\ docs' = Inserted(b, {Head(left[b])})
    /\ left' = [left EXCEPT ![b] = Tail(@)]
    /\ UNCHANGED <<storeOf, doc_count, cached, vpc, bump, edit, locked, begun, owed, adds, lost, crossed>>

BatchDone(b) ==
    /\ vpc[b] = "batch" /\ left[b] = <<>>
    /\ At(b, "bump")
    /\ UNCHANGED <<vectorTables, cached, left, bump, edit, locked, begun, owed, adds, lost, crossed>>

\* 100 or more (copyInDocs): all of them in one transaction.
CopyIn(b) ==
    /\ vpc[b] = "batch" /\ Len(left[b]) = bump[b]
    /\ docs' = Inserted(b, ToSet(left[b]))
    /\ left' = [left EXCEPT ![b] = <<>>]
    /\ At(b, "bump")
    /\ UNCHANGED <<storeOf, doc_count, cached, bump, edit, locked, begun, owed, adds, lost, crossed>>

Raise(n, delta) == IF n + delta > 0 THEN n + delta ELSE 0

\* A clear of store s has deleted its rows and not yet zeroed its count.
Clearing(s) == \E b \in Backends : storeOf[b] = s /\ vpc[b] = "zero"

\* What a clear is about to zero counts a call it did not wait for.
NoteCrossing(s) == crossed' = IF Clearing(s) THEN crossed \union {s} ELSE crossed

\* Mutant: the count is written from the backend's copy of it.
BumpFromCache(b) ==
    LET s == storeOf[b] IN
    /\ vpc[b] = "bump"
    /\ doc_count' = [doc_count EXCEPT ![s] = cached[b] + bump[b]]
    /\ cached' = [cached EXCEPT ![b] = Raise(@, bump[b])]
    /\ Done(b) /\ NoteCrossing(s)
    /\ UNCHANGED <<storeOf, docs, begun, owed, adds, lost>>

\* bumpManifest, by the number of documents asked for, whether or not the
\* INSERT changed a row.
BumpManifest(b) ==
    LET s == storeOf[b] IN
    /\ vpc[b] = "bump"
    /\ doc_count' = [doc_count EXCEPT ![s] = @ + bump[b]]
    /\ cached' = [cached EXCEPT ![b] = Raise(@, bump[b])]
    /\ Done(b) /\ NoteCrossing(s)
    /\ UNCHANGED <<storeOf, docs, begun, owed, adds, lost>>

-----------------------------------------------------------------------------
(* patchMetadataMany: one transaction, one UPDATE per patch.               *)

PatchStart(b, x) ==
    /\ Loaded(b) /\ x \notin begun
    /\ begun' = begun \union {x}
    /\ owed' = [owed EXCEPT ![x] = ToSet(Named[x]) \intersect InStore(storeOf[b])]
    /\ edit' = [edit EXCEPT ![b] = {x}]
    /\ left' = [left EXCEPT ![b] = Named[x]]
    /\ At(b, "patch")
    /\ UNCHANGED <<vectorTables, cached, bump, locked, adds, lost, crossed>>

\* Mutant: each UPDATE is committed on its own.
PatchRowCommitted(b) ==
    LET id == Head(left[b]) IN
    /\ vpc[b] = "patch" /\ left[b] # <<>> /\ ~LockedByOther(b, id)
    /\ docs' = IF id \in InStore(storeOf[b])
               THEN [docs EXCEPT ![id].patches = @ \union edit[b]] ELSE docs
    /\ left' = [left EXCEPT ![b] = Tail(@)]
    /\ UNCHANGED <<storeOf, doc_count, cached, vpc, bump, edit, locked, begun, owed, adds, lost, crossed>>

\* WHERE id AND store: a row of another store, or none, is null in the answer.
PatchRow(b) ==
    LET id == Head(left[b]) IN
    /\ vpc[b] = "patch" /\ left[b] # <<>> /\ ~LockedByOther(b, id)
    /\ locked' = IF id \in InStore(storeOf[b])
                 THEN [locked EXCEPT ![b] = @ \union {id}] ELSE locked
    /\ left' = [left EXCEPT ![b] = Tail(@)]
    /\ UNCHANGED <<vectorTables, cached, vpc, bump, edit, begun, owed, adds, lost, crossed>>

PatchCommit(b) ==
    /\ vpc[b] = "patch" /\ left[b] = <<>>
    /\ docs' = [id \in Ids |-> IF id \in locked[b]
                  THEN [docs[id] EXCEPT !.patches = @ \union edit[b]] ELSE docs[id]]
    /\ Done(b)
    /\ UNCHANGED <<storeOf, doc_count, cached, begun, owed, adds, lost, crossed>>

\* Two patches that name the same rows in different orders.
Awaits(b, c) == vpc[b] = "patch" /\ left[b] # <<>> /\ Head(left[b]) \in locked[c]

DeadlockVictim(b) ==
    /\ \E c \in Backends \ {b} : Awaits(b, c) /\ Awaits(c, b)
    /\ owed' = [x \in Edits |-> IF x \in edit[b] THEN {} ELSE owed[x]]
    /\ Done(b)
    /\ UNCHANGED <<vectorTables, cached, begun, adds, lost, crossed>>

-----------------------------------------------------------------------------
(* clear: the rows, then the manifest row, then the copy.                  *)

ClearStart(b) ==
    /\ vpc[b] = "idle"
    /\ At(b, "delete")
    /\ UNCHANGED <<vectorTables, cached, left, bump, edit, locked, begun, owed, adds, lost, crossed>>

\* DELETE WHERE store.  It waits for rows an open transaction has locked; that
\* it takes its own locks one by one is left out.
Delete(b) ==
    LET gone == InStore(storeOf[b]) IN
    /\ vpc[b] = "delete" /\ \A id \in gone : ~LockedByOther(b, id)
    /\ docs' = [id \in Ids |-> IF id \in gone THEN NoDoc ELSE docs[id]]
    /\ Forgive(gone)
    /\ At(b, "zero")
    /\ UNCHANGED <<storeOf, doc_count, cached, left, bump, edit, locked, begun, adds, lost, crossed>>

\* manifestCache becomes the empty manifest, which also serves as loaded only
\* if load() has run: `loaded` is not set.
Zero(b) ==
    /\ vpc[b] = "zero"
    /\ doc_count' = [doc_count EXCEPT ![storeOf[b]] = 0]
    /\ cached' = [cached EXCEPT ![b] = IF @ = NotLoaded THEN NotLoaded ELSE 0]
    /\ At(b, "idle")
    /\ UNCHANGED <<storeOf, docs, left, bump, edit, locked, begun, owed, adds, lost, crossed>>

-----------------------------------------------------------------------------
\* The connection or the process is lost between two statements.
Lose(b) ==
    /\ lost < MaxLost /\ vpc[b] # "idle"
    /\ lost' = lost + 1
    /\ owed' = [x \in Edits |-> IF x \in edit[b] THEN {} ELSE owed[x]]
    /\ Done(b)
    /\ UNCHANGED <<vectorTables, cached, begun, adds, crossed>>

VectorStep(b) ==
    \/ FetchManifest(b)
    \/ Upsert(b) \/ InsertNext(b) \/ BatchDone(b) \/ CopyIn(b) \/ BumpManifest(b)
    \/ PatchRow(b) \/ PatchCommit(b) \/ DeadlockVictim(b)
    \/ Delete(b) \/ Zero(b)

VectorNext ==
    \E b \in Backends :
        \/ Load(b)
        \/ \E id \in Ids : AddStart(b, "upsert", <<id>>)
        \/ \E ids \in Batches : AddStart(b, "batch", ids)
        \/ \E x \in Edits : PatchStart(b, x)
        \/ ClearStart(b)
        \/ VectorStep(b)
        \/ Lose(b)

VectorSpec == VectorInit /\ [][VectorNext]_vectorVars

-----------------------------------------------------------------------------
(* Properties                                                              *)

Counting(s) == {b \in Backends : storeOf[b] = s /\ vpc[b] \in {"upsert", "batch", "bump"}}

\* The documents that calls on store s have been given and not yet counted.
InFlight(s) == Cardinality(UNION {{b} \X (1 .. bump[b]) : b \in Counting(s)})

\* The manifest table never says fewer documents than there are, counting the
\* ones a call is still adding, however adds and clears of all backends overlap.
\* Two things alone break it: a client that dies between its rows and its bump,
\* and a bump that falls between the DELETE and the zero of a clear, which wipes
\* it.  It may say more: an id that was there is counted again.
CountCovers ==
    lost = 0 => \A s \in Stores \ crossed :
        doc_count[s] + InFlight(s) >= Cardinality(InStore(s))

\* A patch of several documents is seen on all of them or on none, whatever is
\* added, cleared or patched meanwhile: a supersession that resolveConflicts
\* writes is never seen half done.
PatchAllOrNone ==
    \A x \in Edits :
        LET patched == {id \in owed[x] : x \in docs[id].patches}
        IN patched \in {{}, owed[x]}
=============================================================================
