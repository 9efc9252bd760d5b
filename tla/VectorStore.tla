---------------------------- MODULE VectorStore ----------------------------
(***************************************************************************)
(* The default vector backend, src/memory/vector/index.ts: all documents   *)
(* in memory, a JSONL file behind them, appended to by add and addBatch    *)
(* and rewritten through a temporary file by patchMetadataMany.            *)
(*                                                                         *)
(* A document is its id and the set of metadata patches it carries; the    *)
(* text, the vector and the manifest's counters play no part here (the     *)
(* manifest write is kept as the last await before an operation returns).  *)
(*                                                                         *)
(* rewriteAll(this.docs) keeps a reference to the array it was called      *)
(* with.  held[p] = Live says that it is still this.docs, so later pushes  *)
(* and patches show through; once another rewrite has replaced this.docs   *)
(* the old array is never touched again, and held[p] is its content.       *)
(***************************************************************************)
EXTENDS Naturals, FiniteSets

CONSTANTS
    Procs,       \* concurrent callers of one VectorStore
    Ids,
    Patches,     \* calls of patchMetadataMany, by what they write
    Scope,       \* per patch: the ids it names
    MaxCrashes,  \* bound: crashes of the process
    NoRow,
    NoFile,      \* the temporary file does not exist
    Torn,        \* a file whose lines two writers mixed up: it does not parse
    Live         \* the array a rewrite holds is this.docs itself

ASSUME NoRowAssumption == NoRow \notin Ids \union Patches /\ \A row \in SUBSET Patches : NoRow # row
ASSUME ScopeAssumption == Scope \in [Patches -> SUBSET Ids]
ASSUME MaxCrashesAssumption == MaxCrashes \in Nat

VARIABLES
    docs, loaded,      \* memory: this.docs / this.byId
    store, tmp,        \* files: <name>.jsonl and <name>.jsonl.<pid>.tmp
    pc,                \* per process: where its operation awaits
    batch,             \* per process: the ids its operation adds or patches
    current,           \* per process: the id being appended
    todo,              \* per process: ids of the batch still to be pushed
    patch,             \* per process: the patch it applies
    held,              \* per process: the array its rewriteAll holds
    stream,            \* per process: the file its write stream is open on
    unsaved,           \* history: documents in memory whose append failed
    acked,             \* history: what callers were told is stored
    crashes

memory == <<docs, loaded>>
files == <<store, tmp>>
locals == <<batch, current, todo, patch>>
control == <<pc, locals, held, stream>>
vars == <<memory, files, control, unsaved, acked, crashes>>

DS == INSTANCE DocStore WITH rows <- store
Content == DS!Content
Has(m, id) == DS!Has(m, id)
NoRows == DS!NoRows

ASSUME MarksAssumption == {NoFile, Torn, Live} \intersect Content = {}

Streams == {"none", "tmp", "store", "orphan"}
Places == {"idle", "loading", "ready", "append", "appended", "clearing",
           "opening", "writing", "renaming", "swapping", "manifest"}

TypeOK ==
    /\ docs \in Content /\ loaded \in BOOLEAN
    /\ store \in Content \union {Torn}
    /\ tmp \in Content \union {Torn, NoFile}
    /\ pc \in [Procs -> Places]
    /\ batch \in [Procs -> SUBSET Ids] /\ todo \in [Procs -> SUBSET Ids]
    /\ current \in [Procs -> Ids \union {NoRow}]
    /\ patch \in [Procs -> Patches \union {NoRow}]
    /\ held \in [Procs -> Content \union {Live, Torn}]
    /\ stream \in [Procs -> Streams]
    /\ unsaved \subseteq Ids /\ acked \in Content
    /\ crashes \in 0 .. MaxCrashes

Init ==
    /\ docs = NoRows /\ loaded = FALSE
    /\ store = NoRows /\ tmp = NoFile
    /\ pc = [p \in Procs |-> "idle"]
    /\ batch = [p \in Procs |-> {}] /\ todo = [p \in Procs |-> {}]
    /\ current = [p \in Procs |-> NoRow]
    /\ patch = [p \in Procs |-> NoRow]
    /\ held = [p \in Procs |-> Live]
    /\ stream = [p \in Procs |-> "none"]
    /\ unsaved = {} /\ acked = NoRows
    /\ crashes = 0

At(p, place) == pc' = [pc EXCEPT ![p] = place]

NoLocals(p) ==
    /\ batch' = [batch EXCEPT ![p] = {}]
    /\ current' = [current EXCEPT ![p] = NoRow]
    /\ todo' = [todo EXCEPT ![p] = {}]
    /\ patch' = [patch EXCEPT ![p] = NoRow]

-----------------------------------------------------------------------------
(* load: as in the source, nothing marks it as under way.  A file that does *)
(* not parse makes it throw, and every operation with it.                   *)

LoadRead(p) ==
    /\ pc[p] = "idle"
    /\ ~loaded
    /\ store # Torn
    /\ held' = [held EXCEPT ![p] = store]
    /\ At(p, "loading")
    /\ UNCHANGED <<memory, files, locals, stream, unsaved, acked, crashes>>

LoadApply(p) ==
    /\ pc[p] = "loading"
    /\ docs' = [id \in Ids |-> IF Has(held[p], id) THEN held[p][id] ELSE docs[id]]
    /\ loaded' = TRUE
    /\ held' = [held EXCEPT ![p] = Live]
    /\ At(p, "ready")
    /\ UNCHANGED <<files, locals, stream, unsaved, acked, crashes>>

CanStart(p) == pc[p] = "ready" \/ (pc[p] = "idle" /\ loaded)

-----------------------------------------------------------------------------
(* addWithVector, addBatch: push, append, and again for the next document. *)

\* ids no document has or is being given (randomUUID).
Fresh(ids) ==
    /\ \A id \in ids : ~Has(docs, id) /\ (store = Torn \/ ~Has(store, id))
    /\ \A id \in ids : ~Has(acked, id)
    /\ \A q \in Procs : batch[q] \intersect ids = {}

PushOne(p, ids) ==
    \E id \in ids :
        /\ docs' = [docs EXCEPT ![id] = {}]
        /\ current' = [current EXCEPT ![p] = id]
        /\ todo' = [todo EXCEPT ![p] = ids \ {id}]

\* Mutant: the append is not awaited, and lost.
AddUnwritten(p, ids) ==
    /\ CanStart(p)
    /\ Fresh(ids)
    /\ PushOne(p, ids)
    /\ batch' = [batch EXCEPT ![p] = ids]
    /\ At(p, "appended")
    /\ UNCHANGED <<loaded, files, patch, held, stream, unsaved, acked, crashes>>

Add(p, ids) ==
    /\ CanStart(p)
    /\ Fresh(ids)
    /\ PushOne(p, ids)
    /\ batch' = [batch EXCEPT ![p] = ids]
    /\ At(p, "append")
    /\ UNCHANGED <<loaded, files, patch, held, stream, unsaved, acked, crashes>>

\* appendFile(path): whatever file has that name at the time.
Append(p) ==
    /\ pc[p] = "append"
    /\ store' = IF store = Torn THEN Torn ELSE [store EXCEPT ![current[p]] = {}]
    /\ At(p, "appended")
    /\ UNCHANGED <<memory, tmp, locals, held, stream, unsaved, acked, crashes>>

\* The append is refused: the caller sees an error, and the document, pushed
\* before, stays in memory.  The rest of a batch is never pushed.
AppendFails(p) ==
    /\ pc[p] = "append"
    /\ unsaved' = unsaved \union {current[p]}
    /\ NoLocals(p)
    /\ At(p, "idle")
    /\ UNCHANGED <<memory, files, held, stream, acked, crashes>>

AppendNext(p) ==
    /\ pc[p] = "appended"
    /\ PushOne(p, todo[p])
    /\ At(p, "append")
    /\ UNCHANGED <<loaded, files, batch, patch, held, stream, unsaved, acked, crashes>>

BumpManifest(p) ==
    /\ pc[p] = "appended"
    /\ todo[p] = {}
    /\ At(p, "manifest")
    /\ UNCHANGED <<memory, files, locals, held, stream, unsaved, acked, crashes>>

-----------------------------------------------------------------------------
(* patchMetadataMany and rewriteAll                                        *)

\* Ids that no document has are skipped; if all are, nothing is written.
Patch(p, x) ==
    /\ CanStart(p)
    /\ \E id \in Scope[x] : Has(docs, id)
    /\ docs' = DS!Patched(docs, Scope[x], x)
    /\ batch' = [batch EXCEPT ![p] = {id \in Scope[x] : Has(docs, id)}]
    /\ patch' = [patch EXCEPT ![p] = x]
    /\ At(p, "opening")
    /\ UNCHANGED <<loaded, files, current, todo, held, stream, unsaved, acked, crashes>>

\* The content of the array p's rewrite holds.
Rows(p) == IF held[p] = Live THEN docs ELSE held[p]
Holding(p) == pc[p] \in {"opening", "writing", "renaming", "swapping"}

\* createWriteStream(tmp) truncates; the name is the same for every rewrite.
OpenTmp(p) ==
    /\ pc[p] = "opening"
    /\ tmp' = NoRows
    /\ stream' = [stream EXCEPT ![p] = "tmp"]
    /\ At(p, "writing")
    /\ UNCHANGED <<memory, store, locals, held, unsaved, acked, crashes>>

\* Lines written from the start of a file that already holds others replace
\* them, or leave a remainder behind.
Written(old, new) == IF old \in {NoRows, new} THEN {new} ELSE {new, Torn}

\* The rows are turned into text somewhere between the call and the last write;
\* here, at the write.
WriteRows(p) ==
    /\ pc[p] = "writing"
    /\ tmp' \in IF stream[p] = "tmp" THEN Written(tmp, Rows(p)) ELSE {tmp}
    /\ store' \in IF stream[p] = "store" THEN Written(store, Rows(p)) ELSE {store}
    /\ stream' = [stream EXCEPT ![p] = "none"]
    /\ At(p, "renaming")
    /\ UNCHANGED <<memory, locals, held, unsaved, acked, crashes>>

\* Mutant: a copy, stopped half-way.
RenameByCopy(p) ==
    /\ pc[p] = "renaming"
    /\ tmp \notin {NoFile, Torn} /\ store # Torn
    /\ \E ids \in SUBSET Ids : store' = [id \in Ids |-> IF id \in ids THEN tmp[id] ELSE store[id]]
    /\ tmp' = NoFile
    /\ At(p, "swapping")
    /\ UNCHANGED <<memory, locals, held, stream, unsaved, acked, crashes>>

\* rename(tmp, path): a stream open on either file follows its file.
Rename(p) ==
    /\ pc[p] = "renaming"
    /\ tmp # NoFile
    /\ store' = tmp
    /\ tmp' = NoFile
    /\ stream' = [q \in Procs |-> CASE stream[q] = "tmp" -> "store"
                                   [] stream[q] = "store" -> "orphan"
                                   [] OTHER -> stream[q]]
    /\ unsaved' = {id \in unsaved : tmp = Torn \/ ~Has(tmp, id)}
    /\ At(p, "swapping")
    /\ UNCHANGED <<memory, locals, held, acked, crashes>>

\* Another rewrite renamed the temporary file first: ENOENT, the caller sees
\* an error, the patched memory stays.
RenameFails(p) ==
    /\ pc[p] = "renaming"
    /\ tmp = NoFile
    /\ held' = [held EXCEPT ![p] = Live]
    /\ NoLocals(p)
    /\ At(p, "idle")
    /\ UNCHANGED <<memory, files, stream, unsaved, acked, crashes>>

\* Arrays still held by other rewrites when this.docs is replaced.
Frozen(p) ==
    [q \in Procs |-> IF q # p /\ Holding(q) /\ held[q] = Live THEN docs
                     ELSE IF q = p THEN Live ELSE held[q]]

\* this.docs = [...docs]; byId is rebuilt from it.
Swap(p) ==
    /\ pc[p] = "swapping"
    /\ docs' = Rows(p)
    /\ held' = Frozen(p)
    /\ At(p, "manifest")
    /\ UNCHANGED <<loaded, files, locals, stream, unsaved, acked, crashes>>

-----------------------------------------------------------------------------
(* clear                                                                   *)

\* Mutant: the file is left as it is.
ClearMemory(p) ==
    /\ pc[p] \in {"idle", "ready"}
    /\ docs' = NoRows
    /\ held' = Frozen(p)
    /\ unsaved' = {} /\ acked' = NoRows
    /\ At(p, "manifest")
    /\ UNCHANGED <<loaded, files, locals, stream, crashes>>

Clear(p) ==
    /\ pc[p] \in {"idle", "ready"}
    /\ docs' = NoRows
    /\ held' = Frozen(p)
    /\ unsaved' = {} /\ acked' = NoRows
    /\ At(p, "clearing")
    /\ UNCHANGED <<loaded, files, locals, stream, crashes>>

Truncate(p) ==
    /\ pc[p] = "clearing"
    /\ store' = NoRows
    /\ At(p, "manifest")
    /\ UNCHANGED <<memory, tmp, locals, held, stream, unsaved, acked, crashes>>

-----------------------------------------------------------------------------
(* The operation returns: its caller now relies on what it did.            *)

Acked(p) ==
    [id \in Ids |->
        IF id \notin batch[p] THEN acked[id]
        ELSE (IF Has(acked, id) THEN acked[id] ELSE {}) \union ({patch[p]} \ {NoRow})]

Return(p) ==
    /\ pc[p] = "manifest"
    /\ acked' = Acked(p)
    /\ NoLocals(p)
    /\ At(p, "idle")
    /\ UNCHANGED <<memory, files, held, stream, unsaved, crashes>>

\* The process dies; the next one has another pid and another tmp.
Crash ==
    /\ crashes < MaxCrashes
    /\ crashes' = crashes + 1
    /\ docs' = NoRows /\ loaded' = FALSE
    /\ tmp' = NoFile
    /\ pc' = [p \in Procs |-> "idle"]
    /\ batch' = [p \in Procs |-> {}] /\ todo' = [p \in Procs |-> {}]
    /\ current' = [p \in Procs |-> NoRow]
    /\ patch' = [p \in Procs |-> NoRow]
    /\ held' = [p \in Procs |-> Live]
    /\ stream' = [p \in Procs |-> "none"]
    /\ unsaved' = {}
    /\ UNCHANGED <<store, acked>>

NonEmpty(S) == SUBSET S \ {{}}

Step(p) ==
    \/ LoadApply(p)
    \/ Append(p) \/ AppendFails(p) \/ AppendNext(p) \/ BumpManifest(p)
    \/ OpenTmp(p) \/ WriteRows(p) \/ Rename(p) \/ Swap(p)
    \/ Truncate(p)
    \/ Return(p)

Next ==
    \/ \E p \in Procs :
          \/ LoadRead(p) \/ Clear(p)
          \/ \E ids \in NonEmpty(Ids) : Add(p, ids)
          \/ \E x \in Patches : Patch(p, x)
          \/ Step(p) \/ RenameFails(p)
    \/ Crash

Spec == Init /\ [][Next]_vars

-----------------------------------------------------------------------------
(* The discipline under which the store is durable.  The code takes no     *)
(* lock: a caller must keep load, patches and clears away from everything  *)
(* else.  Adds may overlap each other.                                     *)

Rewriting(q) == Holding(q) \/ pc[q] \in {"loading", "clearing"}
Alone(p) == \A q \in Procs \ {p} : pc[q] \in {"idle", "ready"}

ExclusiveNext ==
    \/ \E p \in Procs :
          \/ Alone(p) /\ LoadRead(p)
          \/ Alone(p) /\ Clear(p)
          \/ /\ \A q \in Procs : ~Rewriting(q)
             /\ \E ids \in NonEmpty(Ids) : Add(p, ids)
          \/ /\ Alone(p)
             /\ \E x \in Patches : Patch(p, x)
          \/ Step(p)
    \/ Crash

ExclusiveSpec == Init /\ [][ExclusiveNext]_vars

-----------------------------------------------------------------------------
(* Properties                                                              *)

Holds(m, promised) ==
    \A id \in Ids : Has(promised, id) => Has(m, id) /\ promised[id] \subseteq m[id]

\* What add and patchMetadataMany reported as done is in the file at every
\* moment, in the middle of a later rewrite and after a crash there, and in
\* memory whenever the store is loaded.
AckedDurable ==
    /\ store # Torn /\ Holds(store, acked)
    /\ loaded => Holds(docs, acked)

\* Between operations memory and file are the same documents, but for those
\* whose append failed: they are in memory only, until a rewrite saves them, a
\* clear drops them or the process ends.
MemoryMatchesFile ==
    (loaded /\ \A p \in Procs : pc[p] \in {"idle", "ready"}) =>
        \A id \in Ids : IF id \in unsaved THEN Has(docs, id) /\ ~Has(store, id)
                        ELSE docs[id] = store[id]

\* index.ts:339, "Rewrite the entire store file atomically": a rename never
\* takes a document, or a patch, out of the file.
RewriteKeepsRows ==
    [][\A p \in Procs : Rename(p) /\ store # Torn =>
          store' # Torn /\ Holds(store', store)]_vars

\* The file behaves like a DocStore: a patch of many documents reaches all of
\* them at once, and nothing but a clear takes a document out.
ImplementsDocStore == DS!Spec
=============================================================================
