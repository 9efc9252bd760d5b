------------------------- MODULE VectorStoreProofs -------------------------
(***************************************************************************)
(* The durability of the JSONL vector store, for every number of callers,  *)
(* documents, patches and crashes, under ExclusiveSpec: loads, patches and *)
(* clears are kept apart from everything else, adds only from those.  From *)
(* one inductive invariant: what was acknowledged is in the file at every  *)
(* moment, memory and file agree between operations, a rewrite loses no    *)
(* row, and the file implements DocStore.                                  *)
(***************************************************************************)
EXTENDS VectorStore, TLAPS

Quiet(p) == pc[p] \in {"idle", "ready"}
Unwritten(p) == pc[p] \in {"opening", "writing", "renaming"}

\* A load, a rewrite or a clear has the store for itself.
Solitary == \A p, q \in Procs : p # q /\ Rewriting(p) => Quiet(q)

\* No rewrite holds an array that another has replaced, and the only stream
\* ever open is that of the rewrite that writes.
Unshared ==
    \A p \in Procs :
        /\ held[p] = IF pc[p] = "loading" THEN store ELSE Live
        /\ stream[p] = IF pc[p] = "writing" THEN "tmp" ELSE "none"

\* Before the load is over memory is empty and only loads and clears run.
ColdMemory ==
    /\ ~loaded => /\ docs = NoRows /\ unsaved = {}
                  /\ \A p \in Procs : pc[p] \in {"idle", "loading", "clearing", "manifest"}
                  /\ \A p \in Procs : batch[p] = {}
    /\ \A p \in Procs : pc[p] = "loading" => ~loaded

\* How far a batch has come: what is still to be pushed is nowhere, what was
\* pushed before is in memory and in the file.
Pushing(p) ==
    /\ todo[p] \subseteq batch[p] /\ current[p] \in batch[p] \ todo[p]
    /\ patch[p] = NoRow /\ batch[p] \intersect unsaved = {}
    /\ \A id \in todo[p] : ~Has(docs, id) /\ ~Has(store, id)
    /\ \A id \in batch[p] \ todo[p] :
          Has(docs, id) /\ (id # current[p] => Has(store, id))
    /\ IF pc[p] = "append" THEN docs[current[p]] = {} /\ ~Has(store, current[p])
       ELSE Has(store, current[p])

\* What is about to be acknowledged is there, with the patch if it is one.
Reported(m, p) ==
    \A id \in batch[p] : Has(m, id) /\ (patch[p] # NoRow => patch[p] \in m[id])

BatchOf(p) ==
    /\ Quiet(p) \/ pc[p] \in {"loading", "clearing"} => batch[p] = {} /\ patch[p] = NoRow
    /\ pc[p] \in {"append", "appended"} => Pushing(p)
    /\ Holding(p) => patch[p] \in Patches /\ Reported(docs, p)
    /\ pc[p] = "manifest" => Reported(docs, p) /\ Reported(store, p)

BatchState == \A p \in Procs : BatchOf(p)

BatchesApart == \A p, q \in Procs : p # q => batch[p] \intersect batch[q] = {}

\* A document whose append failed is in memory, as it was pushed, and not in
\* the file.
Unsaved(id) == id \in unsaved /\ docs[id] = {} /\ ~Has(store, id)
Saved(id) == id \notin unsaved /\ docs[id] = store[id]
Appending(id) == id \notin unsaved /\ \E p \in Procs : pc[p] = "append" /\ current[p] = id

\* How the file lags behind memory: by the documents whose append failed and
\* the patch of the rewrite in progress, by everything while a clear is, and
\* else by those documents and the ones being appended.
FileLags ==
    /\ \A p \in Procs : Unwritten(p) =>
          docs = DS!Patched(DS!Joined(store, unsaved), Scope[patch[p]], patch[p])
    /\ (loaded /\ \A p \in Procs : ~Unwritten(p) /\ pc[p] # "clearing") =>
          \A id \in Ids : Saved(id) \/ Appending(id) \/ Unsaved(id)
    /\ \A p \in Procs : pc[p] = "swapping" => unsaved = {}

\* A clear has taken back every promise before it touches the file.
NothingOwed ==
    \A p \in Procs : pc[p] = "clearing" => docs = NoRows /\ acked = NoRows /\ unsaved = {}

\* What is renamed is what memory holds.
TmpIsMemory ==
    \A p \in Procs : /\ pc[p] = "writing" => tmp = NoRows
                     /\ pc[p] = "renaming" => tmp = docs

DurableInv ==
    /\ TypeOK /\ Solitary /\ Unshared /\ ColdMemory /\ BatchState
    /\ BatchesApart /\ FileLags /\ NothingOwed /\ TmpIsMemory /\ AckedDurable

-----------------------------------------------------------------------------
(* Types                                                                   *)

\* Contents are functions on Ids, the empty one included, and no mark is one.
LEMMA ContentFacts ==
    /\ NoRows \in Content /\ \A id \in Ids : ~Has(NoRows, id)
    /\ Torn \notin Content /\ NoFile \notin Content /\ Live \notin Content
    /\ \A m \in Content, id \in Ids : Has(m, id) => m[id] \in SUBSET Patches
    /\ \A m \in Content, id \in Ids : [m EXCEPT ![id] = {}] \in Content
BY MarksAssumption, NoRowAssumption
   DEF Content, NoRows, Has, DS!Content, DS!NoRows, DS!Row, DS!Has

LEMMA PatchedContent ==
    ASSUME NEW m \in Content, NEW x \in Patches
    PROVE  /\ DS!Patched(m, Scope[x], x) \in Content
           /\ \A id \in Ids : Has(m, id) => /\ Has(DS!Patched(m, Scope[x], x), id)
                                            /\ m[id] \subseteq DS!Patched(m, Scope[x], x)[id]
           /\ \A id \in Scope[x] \intersect Ids : Has(m, id) => x \in DS!Patched(m, Scope[x], x)[id]
           /\ \A id \in Ids : ~Has(m, id) => ~Has(DS!Patched(m, Scope[x], x), id)
BY NoRowAssumption DEF Content, DS!Content, DS!Row, DS!Patched, DS!Has, Has

LEMMA JoinedContent ==
    ASSUME NEW m \in Content, NEW ids \in SUBSET Ids
    PROVE  /\ DS!Joined(m, ids) \in Content
           /\ \A id \in Ids : Has(m, id) => DS!Joined(m, ids)[id] = m[id]
           /\ \A id \in Ids : Has(m, id) \/ id \in ids => Has(DS!Joined(m, ids), id)
BY NoRowAssumption DEF Content, DS!Content, DS!Row, DS!Joined, DS!Has, Has

LEMMA InitDurable == Init => DurableInv
<1> SUFFICES ASSUME Init PROVE DurableInv
  OBVIOUS
<1>1. TypeOK
  <2>1. crashes \in 0 .. MaxCrashes
    BY MaxCrashesAssumption DEF Init
  <2> QED
    BY <2>1, ContentFacts DEF Init, TypeOK, Places, Streams
<1>2. Solitary /\ Unshared /\ ColdMemory /\ BatchState /\ BatchesApart /\ TmpIsMemory /\ NothingOwed
  BY DEF Init, NothingOwed, Solitary, Unshared, ColdMemory, BatchState, BatchOf, BatchesApart, TmpIsMemory,
         Rewriting, Holding, Quiet
<1>3. FileLags /\ AckedDurable
  BY ContentFacts DEF Init, FileLags, Saved, Unsaved, Appending, AckedDurable, Holds, Unwritten
<1> QED
  BY <1>1, <1>2, <1>3 DEF DurableInv

-----------------------------------------------------------------------------
(* Loading and clearing                                                    *)

LEMMA LoadReadDurable ==
    ASSUME DurableInv, NEW p \in Procs, Alone(p), LoadRead(p)
    PROVE  DurableInv'
<1> USE DEF LoadRead, At, memory, files, locals
<1>1. TypeOK'
  BY DEF DurableInv, TypeOK, Places
<1>2. Solitary' /\ Unshared' /\ ColdMemory' /\ BatchState' /\ BatchesApart'
      /\ TmpIsMemory' /\ NothingOwed'
  BY DEF DurableInv, TypeOK, Solitary, Unshared, ColdMemory, BatchState, BatchOf, BatchesApart,
         TmpIsMemory, NothingOwed, Rewriting, Holding, Quiet, Alone, Reported
<1>3. FileLags' /\ AckedDurable'
  BY DEF DurableInv, TypeOK, FileLags, Saved, Unsaved, Appending, AckedDurable, Unwritten, Alone
<1> QED
  BY <1>1, <1>2, <1>3 DEF DurableInv

LEMMA LoadApplyDurable ==
    ASSUME DurableInv, NEW p \in Procs, LoadApply(p)
    PROVE  DurableInv'
<1> USE DEF LoadApply, At, files, locals
<1>1. store \in Content /\ held[p] = store /\ docs = NoRows /\ ~loaded /\ unsaved = {}
  BY DEF DurableInv, TypeOK, Unshared, ColdMemory, AckedDurable
<1>2. docs' = store
  BY <1>1, ContentFacts DEF Content, NoRows, Has, DS!Content, DS!NoRows, DS!Has
<1>3. \A q \in Procs \ {p} : Quiet(q)
  BY DEF DurableInv, Solitary, Rewriting
<1>4. TypeOK'
  BY <1>1, <1>2 DEF DurableInv, TypeOK, Places
<1>5. Solitary' /\ Unshared' /\ ColdMemory' /\ BatchState' /\ BatchesApart'
      /\ TmpIsMemory' /\ NothingOwed'
  BY <1>3 DEF DurableInv, TypeOK, Solitary, Unshared, ColdMemory, BatchState, BatchOf, BatchesApart,
         TmpIsMemory, NothingOwed, Rewriting, Holding, Quiet
<1>6. FileLags' /\ AckedDurable'
  BY <1>1, <1>2, <1>3 DEF DurableInv, TypeOK, FileLags, Saved, AckedDurable, Unwritten, Quiet
<1> QED
  BY <1>4, <1>5, <1>6 DEF DurableInv

LEMMA ClearDurable ==
    ASSUME DurableInv, NEW p \in Procs, Alone(p), Clear(p)
    PROVE  DurableInv'
<1> USE DEF Clear, At, files, locals
<1>1. held' = held
  BY DEF DurableInv, TypeOK, Unshared, Frozen, Alone, Holding
<1>2. \A q \in Procs : Quiet(q)
  BY DEF Alone, Quiet
<1>3. TypeOK'
  BY <1>1, ContentFacts DEF DurableInv, TypeOK, Places
<1>4. Solitary' /\ Unshared' /\ ColdMemory' /\ BatchState' /\ BatchesApart'
      /\ TmpIsMemory' /\ NothingOwed'
  BY <1>1, <1>2 DEF DurableInv, TypeOK, Solitary, Unshared, ColdMemory, BatchState, BatchOf,
         BatchesApart, TmpIsMemory, NothingOwed, Rewriting, Holding, Quiet
<1>5. FileLags' /\ AckedDurable'
  BY <1>2, ContentFacts DEF DurableInv, TypeOK, FileLags, Saved, Unsaved, Appending, AckedDurable, Unwritten, Quiet, Holds
<1> QED
  BY <1>3, <1>4, <1>5 DEF DurableInv

LEMMA TruncateDurable ==
    ASSUME DurableInv, NEW p \in Procs, Truncate(p)
    PROVE  DurableInv'
<1> USE DEF Truncate, At, memory, locals
<1>1. \A q \in Procs \ {p} : Quiet(q)
  BY DEF DurableInv, Solitary, Rewriting
<1>2. TypeOK'
  BY ContentFacts DEF DurableInv, TypeOK, Places
<1>3. Solitary' /\ Unshared' /\ ColdMemory' /\ BatchesApart'
      /\ TmpIsMemory' /\ NothingOwed'
  BY <1>1 DEF DurableInv, TypeOK, Solitary, Unshared, ColdMemory,
         BatchesApart, TmpIsMemory, NothingOwed, Rewriting, Holding, Quiet
<1>4. BatchState'
  BY <1>1 DEF DurableInv, TypeOK, BatchState, BatchOf, Holding, Quiet, Reported
<1>5. FileLags' /\ AckedDurable'
  BY <1>1, ContentFacts DEF DurableInv, TypeOK, NothingOwed, FileLags, Saved, AckedDurable,
                            Unwritten, Quiet, Holds
<1> QED
  BY <1>2, <1>3, <1>4, <1>5 DEF DurableInv

-----------------------------------------------------------------------------
(* Adding                                                                  *)

\* Everybody who is not quiet is adding, or about to return.
LEMMA NobodyRewrites ==
    ASSUME DurableInv, NEW p \in Procs, pc[p] \notin {"idle", "ready"}, ~Rewriting(p)
    PROVE  \A q \in Procs : ~Rewriting(q)
BY DEF DurableInv, Solitary, Quiet

\* What others do to other documents leaves a batch as it is.
LEMMA BatchUndisturbed ==
    ASSUME NEW q \in Procs, BatchOf(q), TypeOK, batch[q] \in SUBSET Ids,
           pc'[q] = pc[q], batch'[q] = batch[q], todo'[q] = todo[q],
           current'[q] = current[q], patch'[q] = patch[q],
           \A id \in batch[q] : docs'[id] = docs[id] /\ store'[id] = store[id],
           pc[q] \in {"append", "appended"} => batch[q] \intersect unsaved' \subseteq unsaved
    PROVE  BatchOf(q)'
BY DEF BatchOf, Quiet, Holding, Pushing, Reported, Has, DS!Has

\* The push of the next document of a batch, be it the first or a later one.
LEMMA PushDurable ==
    ASSUME DurableInv, NEW p \in Procs, \A q \in Procs : ~Rewriting(q), loaded,
           NEW ids \in SUBSET Ids, PushOne(p, ids),
           \A id \in ids : ~Has(docs, id) /\ ~Has(store, id),
           \A q \in Procs \ {p} : batch[q] \intersect ids = {},
           batch' \in [Procs -> SUBSET Ids],
           \A q \in Procs \ {p} : batch'[q] = batch[q],
           ids \subseteq batch'[p], batch[p] \subseteq batch'[p],
           batch'[p] \subseteq batch[p] \union ids,
           \A id \in batch[p] \ ids : Has(docs, id) /\ Has(store, id),
           patch[p] = NoRow, pc[p] # "append",
           pc' = [pc EXCEPT ![p] = "append"],
           UNCHANGED <<loaded, files, patch, held, stream, unsaved, acked, crashes>>
    PROVE  DurableInv'
<1> USE DEF files
<1>1. PICK id \in ids : /\ docs' = [docs EXCEPT ![id] = {}]
                        /\ current' = [current EXCEPT ![p] = id]
                        /\ todo' = [todo EXCEPT ![p] = ids \ {id}]
  BY DEF PushOne
<1>2. /\ docs' \in Content /\ Has(docs', id) /\ docs'[id] = {}
      /\ \A i \in Ids \ {id} : docs'[i] = docs[i]
  BY <1>1, ContentFacts, NoRowAssumption
     DEF DurableInv, TypeOK, Content, DS!Content, Has, DS!Has
<1>3. TypeOK'
  BY <1>1, <1>2 DEF DurableInv, TypeOK, Places
<1>4. Solitary' /\ Unshared' /\ ColdMemory' /\ TmpIsMemory' /\ NothingOwed' /\ BatchesApart'
  BY <1>1 DEF DurableInv, TypeOK, Solitary, Unshared, ColdMemory, TmpIsMemory,
              NothingOwed, BatchesApart, Rewriting, Holding, Quiet
<1>5. batch'[p] \intersect unsaved = {}
  <2>1. \A i \in Ids : Saved(i) \/ Appending(i) \/ Unsaved(i)
    BY DEF DurableInv, TypeOK, Rewriting, Holding, Unwritten, FileLags
  <2>2. \A i \in batch'[p] : i \in Ids /\ ~Unsaved(i)
    BY NoRowAssumption DEF Unsaved, Has, DS!Has
  <2> QED
    BY <2>1, <2>2 DEF Saved, Appending
<1>6. BatchState'
  <2> SUFFICES ASSUME NEW q \in Procs PROVE BatchOf(q)'
    BY DEF BatchState
  <2>1. CASE q = p
    BY <1>1, <1>2, <1>5, <2>1 DEF DurableInv, TypeOK, BatchOf, Quiet, Holding, Pushing, Has, DS!Has
  <2>2. CASE q # p
    <3>1. \A i \in batch[q] : docs'[i] = docs[i]
      BY <1>2, <2>2 DEF DurableInv, TypeOK
    <3> QED
      BY <1>1, <2>2, <3>1, BatchUndisturbed DEF DurableInv, TypeOK, BatchState
  <2> QED
    BY <2>1, <2>2
<1>7. FileLags'
  <2>1. \A q \in Procs : ~Unwritten(q) /\ ~Unwritten(q)' /\ pc'[q] \notin {"clearing", "swapping"} /\ pc[q] # "clearing"
    BY DEF DurableInv, TypeOK, Rewriting, Holding, Unwritten
  <2>2. \A i \in Ids : Saved(i) \/ Appending(i) \/ Unsaved(i)
    BY <2>1 DEF DurableInv, FileLags
  <2>3. \A q \in Procs : pc[q] = "append" => pc'[q] = "append" /\ current'[q] = current[q]
    BY <1>1 DEF DurableInv, TypeOK
  <2>4. pc'[p] = "append" /\ current'[p] = id
    BY <1>1 DEF DurableInv, TypeOK
  <2>5. id \notin unsaved
    BY <1>1, <1>5
  <2>6. \A i \in Ids \ {id} : (Saved(i) \/ Appending(i) \/ Unsaved(i))'
    BY <1>2, <2>2, <2>3 DEF Saved, Appending, Unsaved, Has, DS!Has
  <2>7. Appending(id)'
    BY <2>4, <2>5 DEF Appending
  <2> QED
    BY <2>1, <2>6, <2>7 DEF FileLags
<1>8. AckedDurable'
  BY <1>2 DEF DurableInv, AckedDurable, Holds, Has, DS!Has
<1> QED
  BY <1>3, <1>4, <1>5, <1>6, <1>7, <1>8 DEF DurableInv

LEMMA AddDurable ==
    ASSUME DurableInv, NEW p \in Procs, \A q \in Procs : ~Rewriting(q),
           NEW ids \in NonEmpty(Ids), Add(p, ids)
    PROVE  DurableInv'
<1> USE DEF Add, At
<1>1. ids \in SUBSET Ids /\ loaded
  BY DEF NonEmpty, DurableInv, ColdMemory, CanStart
<1>2. /\ \A i \in ids : ~Has(docs, i) /\ ~Has(store, i)
      /\ \A q \in Procs : batch[q] \intersect ids = {}
  BY DEF Fresh, DurableInv, AckedDurable
<1>3. batch[p] = {} /\ patch[p] = NoRow /\ pc[p] # "append"
  BY DEF CanStart, DurableInv, BatchState, BatchOf, Quiet
<1>4. batch' \in [Procs -> SUBSET Ids] /\ batch'[p] = ids /\ \A q \in Procs \ {p} : batch'[q] = batch[q]
  BY <1>1 DEF DurableInv, TypeOK
<1> QED
  BY <1>1, <1>2, <1>3, <1>4, PushDurable

LEMMA AppendNextDurable ==
    ASSUME DurableInv, NEW p \in Procs, AppendNext(p)
    PROVE  DurableInv'
<1> USE DEF AppendNext, At
<1>1. Pushing(p) /\ todo[p] \in SUBSET Ids
  BY DEF DurableInv, TypeOK, BatchState, BatchOf
<1>2. loaded /\ \A q \in Procs : ~Rewriting(q)
  BY NobodyRewrites DEF DurableInv, ColdMemory, Rewriting, Holding
<1>3. \A q \in Procs \ {p} : batch[q] \intersect todo[p] = {}
  BY <1>1 DEF DurableInv, BatchesApart, Pushing
<1>4. \A id \in batch[p] \ todo[p] : Has(docs, id) /\ Has(store, id)
  BY <1>1 DEF Pushing
<1>5. batch' \in [Procs -> SUBSET Ids] /\ batch' = batch
  BY DEF DurableInv, TypeOK
<1> QED
  BY <1>1, <1>2, <1>3, <1>4, <1>5, PushDurable DEF Pushing

LEMMA AppendDurable ==
    ASSUME DurableInv, NEW p \in Procs, Append(p)
    PROVE  /\ DurableInv'
           /\ ~Has(store, current[p]) /\ store' = [store EXCEPT ![current[p]] = {}]
<1> USE DEF Append, At, memory, locals
<1> DEFINE id == current[p]
<1>1. Pushing(p) /\ id \in Ids /\ docs[id] = {} /\ ~Has(store, id)
  BY DEF DurableInv, TypeOK, BatchState, BatchOf, Pushing
<1>2. /\ store \in Content /\ store' = [store EXCEPT ![id] = {}]
      /\ store' \in Content /\ Has(store', id)
      /\ \A i \in Ids \ {id} : store'[i] = store[i]
  BY <1>1, ContentFacts, NoRowAssumption
     DEF DurableInv, TypeOK, AckedDurable, Content, DS!Content, Has, DS!Has
<1>3. loaded /\ \A q \in Procs : ~Rewriting(q)
  BY NobodyRewrites DEF DurableInv, ColdMemory, Rewriting, Holding
<1>4. TypeOK'
  BY <1>2 DEF DurableInv, TypeOK, Places
<1>5. Solitary' /\ Unshared' /\ ColdMemory' /\ BatchesApart' /\ TmpIsMemory' /\ NothingOwed'
  BY <1>3 DEF DurableInv, TypeOK, Solitary, Unshared, ColdMemory, TmpIsMemory, BatchesApart,
              NothingOwed, Rewriting, Holding, Quiet
<1>6. BatchState'
  <2> SUFFICES ASSUME NEW q \in Procs PROVE BatchOf(q)'
    BY DEF BatchState
  <2>1. CASE q = p
    BY <1>1, <1>2, <2>1 DEF DurableInv, TypeOK, BatchOf, Quiet, Holding, Pushing, Has, DS!Has
  <2>2. CASE q # p
    <3>1. id \notin batch[q]
      BY <1>1, <2>2 DEF DurableInv, BatchesApart, Pushing
    <3> QED
      BY <1>2, <2>2, <3>1, BatchUndisturbed DEF DurableInv, TypeOK, BatchState
  <2> QED
    BY <2>1, <2>2
<1>7. FileLags'
  <2>1. \A q \in Procs : ~Unwritten(q) /\ ~Unwritten(q)' /\ pc'[q] \notin {"clearing", "swapping"} /\ pc[q] # "clearing"
    BY <1>3 DEF DurableInv, TypeOK, Rewriting, Holding, Unwritten
  <2>2. \A i \in Ids : Saved(i) \/ Appending(i) \/ Unsaved(i)
    BY <1>3, <2>1 DEF DurableInv, FileLags
  <2>3. \A i \in Ids \ {id} : (Saved(i) \/ Appending(i) \/ Unsaved(i))'
    BY <1>2, <2>2 DEF DurableInv, TypeOK, Saved, Appending, Unsaved, Has, DS!Has
  <2>4. id \notin unsaved /\ docs[id] = store'[id]
    BY <1>1, <1>2 DEF DurableInv, TypeOK, Content, DS!Content, Pushing
  <2> QED
    BY <2>1, <2>3, <2>4 DEF FileLags, Saved
<1>8. AckedDurable'
  BY <1>1, <1>2, ContentFacts DEF DurableInv, AckedDurable, Holds, Has, DS!Has
<1> QED
  BY <1>1, <1>2, <1>4, <1>5, <1>6, <1>7, <1>8 DEF DurableInv

LEMMA AppendFailsDurable ==
    ASSUME DurableInv, NEW p \in Procs, AppendFails(p)
    PROVE  DurableInv'
<1> USE DEF AppendFails, NoLocals, At, memory, files
<1> PICK id : id = current[p]
  OBVIOUS
<1>1. Pushing(p) /\ id \in Ids /\ docs[id] = {} /\ ~Has(store, id)
  BY DEF DurableInv, TypeOK, BatchState, BatchOf, Pushing
<1>2. loaded /\ \A q \in Procs : ~Rewriting(q)
  BY NobodyRewrites DEF DurableInv, ColdMemory, Rewriting, Holding
<1>3. TypeOK'
  BY <1>1 DEF DurableInv, TypeOK, Places
<1>4. Solitary' /\ Unshared' /\ ColdMemory' /\ BatchesApart' /\ TmpIsMemory' /\ NothingOwed'
  BY <1>2 DEF DurableInv, TypeOK, Solitary, Unshared, ColdMemory, TmpIsMemory, BatchesApart,
              NothingOwed, Rewriting, Holding, Quiet
<1>5. BatchState'
  <2> SUFFICES ASSUME NEW q \in Procs PROVE BatchOf(q)'
    BY DEF BatchState
  <2>1. CASE q = p
    BY <2>1 DEF DurableInv, TypeOK, BatchOf, Quiet, Holding
  <2>2. CASE q # p
    <3>1. pc[q] \in {"append", "appended"} => id \notin batch[q]
      BY <1>1, <2>2 DEF DurableInv, BatchesApart, Pushing
    <3> QED
      BY <2>2, <3>1, BatchUndisturbed DEF DurableInv, TypeOK, BatchState
  <2> QED
    BY <2>1, <2>2
<1>6. FileLags'
  <2>1. \A q \in Procs : ~Unwritten(q) /\ ~Unwritten(q)' /\ pc'[q] \notin {"clearing", "swapping"} /\ pc[q] # "clearing"
    BY <1>2 DEF DurableInv, TypeOK, Rewriting, Holding, Unwritten
  <2>2. \A i \in Ids : Saved(i) \/ Appending(i) \/ Unsaved(i)
    BY <1>2, <2>1 DEF DurableInv, FileLags
  <2>3. \A i \in Ids \ {id} : (Saved(i) \/ Appending(i) \/ Unsaved(i))'
    BY <2>2 DEF DurableInv, TypeOK, Saved, Appending, Unsaved, Has, DS!Has
  <2>4. Unsaved(id)'
    BY <1>1 DEF Unsaved, Has, DS!Has
  <2> QED
    BY <2>1, <2>3, <2>4 DEF FileLags
<1>7. AckedDurable'
  BY DEF DurableInv, AckedDurable
<1> QED
  BY <1>3, <1>4, <1>5, <1>6, <1>7 DEF DurableInv

LEMMA BumpManifestDurable ==
    ASSUME DurableInv, NEW p \in Procs, BumpManifest(p)
    PROVE  DurableInv'
<1> USE DEF BumpManifest, At, memory, files, locals
<1>1. Pushing(p) /\ loaded
  BY DEF DurableInv, BatchState, BatchOf, ColdMemory
<1>2. TypeOK'
  BY DEF DurableInv, TypeOK, Places
<1>3. Solitary' /\ Unshared' /\ ColdMemory' /\ BatchesApart' /\ TmpIsMemory' /\ NothingOwed'
  BY <1>1 DEF DurableInv, TypeOK, Solitary, Unshared, ColdMemory, TmpIsMemory, BatchesApart,
              NothingOwed, Rewriting, Holding, Quiet
<1>4. BatchState'
  BY <1>1 DEF DurableInv, TypeOK, BatchState, BatchOf, Quiet, Holding, Pushing, Reported
<1>5. FileLags' /\ AckedDurable'
  BY DEF DurableInv, TypeOK, FileLags, Unwritten, Saved, Unsaved, Appending, AckedDurable
<1> QED
  BY <1>2, <1>3, <1>4, <1>5 DEF DurableInv

-----------------------------------------------------------------------------
(* A rewrite                                                               *)

LEMMA PatchDurable ==
    ASSUME DurableInv, NEW p \in Procs, Alone(p), NEW x \in Patches, Patch(p, x)
    PROVE  DurableInv'
<1> USE DEF Patch, At, files
<1>1. loaded /\ Quiet(p) /\ \A q \in Procs : Quiet(q)
  BY DEF CanStart, Alone, Quiet, DurableInv, ColdMemory
<1>2. docs \in Content /\ docs = DS!Joined(store, unsaved)
  <2>1. docs \in Content /\ store \in Content
    BY DEF DurableInv, TypeOK, AckedDurable
  <2>2. \A id \in Ids : Saved(id) \/ Unsaved(id)
    BY <1>1 DEF DurableInv, FileLags, Unwritten, Quiet, Appending
  <2> QED
    BY <2>1, <2>2 DEF Content, DS!Content, DS!Joined, Saved, Unsaved, Has, DS!Has
<1>3. TypeOK'
  BY <1>2, PatchedContent, ScopeAssumption DEF DurableInv, TypeOK, Places
<1>4. Solitary' /\ Unshared' /\ ColdMemory' /\ TmpIsMemory' /\ NothingOwed'
  BY <1>1 DEF DurableInv, TypeOK, Solitary, Unshared, ColdMemory, TmpIsMemory,
              NothingOwed, Rewriting, Holding, Quiet
<1>5. BatchesApart'
  BY <1>1 DEF DurableInv, TypeOK, BatchesApart, BatchState, BatchOf
<1>6. BatchState'
  <2> SUFFICES ASSUME NEW q \in Procs PROVE BatchOf(q)'
    BY DEF BatchState
  <2>1. CASE q = p
    <3>1. \A id \in batch'[p] : id \in Scope[x] \intersect Ids /\ Has(docs, id)
      BY ScopeAssumption DEF DurableInv, TypeOK
    <3>2. Reported(docs, p)'
      BY <1>2, <3>1, PatchedContent DEF DurableInv, TypeOK, Reported, Has, DS!Has
    <3> QED
      BY <2>1, <3>2 DEF DurableInv, TypeOK, BatchOf, Holding, Quiet
  <2>2. CASE q # p
    BY <1>1, <2>2 DEF DurableInv, TypeOK, BatchState, BatchOf, Holding, Quiet
  <2> QED
    BY <2>1, <2>2
<1>7. FileLags'
  BY <1>1, <1>2 DEF DurableInv, TypeOK, FileLags, Unwritten, Quiet, DS!Patched, DS!Has
<1>8. AckedDurable'
  BY <1>2, PatchedContent DEF DurableInv, AckedDurable, Holds
<1> QED
  BY <1>3, <1>4, <1>5, <1>6, <1>7, <1>8 DEF DurableInv

\* A rewrite is alone with the store from its start to its swap.
LEMMA RewriteIsAlone ==
    ASSUME DurableInv, NEW p \in Procs, Rewriting(p)
    PROVE  /\ \A q \in Procs \ {p} : Quiet(q)
           /\ Holding(p) => /\ loaded /\ Rows(p) = docs /\ docs \in Content
                            /\ patch[p] \in Patches /\ store \in Content
           /\ \A q \in Procs \ {p} : held[q] = Live /\ stream[q] = "none" /\ batch[q] = {}
BY DEF DurableInv, TypeOK, Solitary, ColdMemory, Unshared, BatchState, BatchOf, AckedDurable,
       Rewriting, Holding, Rows, Quiet

LEMMA OpenTmpDurable ==
    ASSUME DurableInv, NEW p \in Procs, OpenTmp(p)
    PROVE  DurableInv'
<1> USE DEF OpenTmp, At, memory, locals
<1>1. \A q \in Procs \ {p} : Quiet(q)
  BY RewriteIsAlone DEF Rewriting, Holding
<1>2. TypeOK'
  BY ContentFacts DEF DurableInv, TypeOK, Places, Streams
<1>3. Solitary' /\ Unshared' /\ ColdMemory' /\ BatchesApart' /\ TmpIsMemory' /\ NothingOwed'
  BY <1>1 DEF DurableInv, TypeOK, Solitary, Unshared, ColdMemory, TmpIsMemory, BatchesApart,
              NothingOwed, Rewriting, Holding, Quiet
<1>4. BatchState'
  BY <1>1 DEF DurableInv, TypeOK, BatchState, BatchOf, Quiet, Holding, Reported
<1>5. FileLags' /\ AckedDurable'
  BY <1>1 DEF DurableInv, TypeOK, FileLags, Unwritten, Saved, Unsaved, Appending, AckedDurable, Quiet
<1> QED
  BY <1>2, <1>3, <1>4, <1>5 DEF DurableInv

LEMMA WriteRowsDurable ==
    ASSUME DurableInv, NEW p \in Procs, WriteRows(p)
    PROVE  DurableInv' /\ store' = store
<1> USE DEF WriteRows, At, memory, locals
<1>1. \A q \in Procs \ {p} : Quiet(q)
  BY RewriteIsAlone DEF Rewriting, Holding
<1>2. stream[p] = "tmp" /\ tmp = NoRows /\ Rows(p) = docs /\ docs \in Content
  BY RewriteIsAlone DEF DurableInv, Unshared, TmpIsMemory, Rewriting, Holding
<1>3. tmp' = docs /\ store' = store
  BY <1>2 DEF Written
<1>4. TypeOK'
  BY <1>2, <1>3 DEF DurableInv, TypeOK, Places, Streams
<1>5. Solitary' /\ Unshared' /\ ColdMemory' /\ BatchesApart' /\ TmpIsMemory' /\ NothingOwed'
  BY <1>1, <1>3 DEF DurableInv, TypeOK, Solitary, Unshared, ColdMemory, TmpIsMemory,
              BatchesApart, NothingOwed, Rewriting, Holding, Quiet
<1>6. BatchState'
  BY <1>1, <1>3 DEF DurableInv, TypeOK, BatchState, BatchOf, Quiet, Holding, Reported
<1>7. FileLags' /\ AckedDurable'
  BY <1>1, <1>3 DEF DurableInv, TypeOK, FileLags, Unwritten, Saved, Unsaved, Appending, AckedDurable, Quiet
<1> QED
  BY <1>3, <1>4, <1>5, <1>6, <1>7 DEF DurableInv

LEMMA RenameDurable ==
    ASSUME DurableInv, NEW p \in Procs, Rename(p)
    PROVE  /\ DurableInv'
           /\ patch[p] \in Patches
           /\ store' = DS!Patched(DS!Joined(store, unsaved), Scope[patch[p]], patch[p])
           /\ Holds(store', store)
<1> USE DEF Rename, At, memory, locals
<1>1. /\ \A q \in Procs \ {p} : Quiet(q)
      /\ patch[p] \in Patches /\ docs \in Content /\ store \in Content
  BY RewriteIsAlone DEF Rewriting, Holding
<1>2. store' = docs /\ docs = DS!Patched(DS!Joined(store, unsaved), Scope[patch[p]], patch[p])
  BY DEF DurableInv, TmpIsMemory, FileLags, Unwritten
<1>3. Holds(store', store) /\ \A id \in unsaved : Has(docs, id)
  <2> DEFINE joined == DS!Joined(store, unsaved)
             patched == DS!Patched(joined, Scope[patch[p]], patch[p])
  <2>1. unsaved \in SUBSET Ids
    BY DEF DurableInv, TypeOK
  <2>2. /\ joined \in Content
        /\ \A id \in Ids : Has(store, id) => joined[id] = store[id]
        /\ \A id \in Ids : Has(store, id) \/ id \in unsaved => Has(joined, id)
    BY <1>1, <2>1, JoinedContent
  <2> HIDE DEF joined
  <2>3. \A id \in Ids : Has(joined, id) => Has(patched, id) /\ joined[id] \subseteq patched[id]
    BY <1>1, <2>2, PatchedContent
  <2>4. store' = patched /\ docs = patched
    BY <1>2 DEF joined
  <2> HIDE DEF patched
  <2>5. Holds(store', store)
    BY <2>2, <2>3, <2>4 DEF Holds
  <2> QED
    BY <2>1, <2>2, <2>3, <2>4, <2>5
<1>4. unsaved' = {}
  <2>1. tmp = docs
    BY DEF DurableInv, TmpIsMemory
  <2>2. docs # Torn
    BY <1>1, ContentFacts
  <2> QED
    BY <1>3, <2>1, <2>2
<1>5. \A q \in Procs : stream[q] = "none"
  BY <1>1 DEF DurableInv, Unshared, Quiet
<1>6. stream' = stream
  BY <1>5 DEF DurableInv, TypeOK
<1>7. TypeOK'
  BY <1>1, <1>2, <1>4, <1>6 DEF DurableInv, TypeOK, Places
<1>8. Solitary' /\ Unshared' /\ ColdMemory' /\ BatchesApart' /\ TmpIsMemory' /\ NothingOwed'
  BY <1>1, <1>5, <1>6 DEF DurableInv, TypeOK, Solitary, Unshared, ColdMemory, TmpIsMemory,
              BatchesApart, NothingOwed, Rewriting, Holding, Quiet
<1>9. BatchState'
  BY <1>1, <1>2 DEF DurableInv, TypeOK, BatchState, BatchOf, Quiet, Holding, Reported
<1>10. FileLags'
  BY <1>1, <1>2, <1>4 DEF DurableInv, TypeOK, Quiet, FileLags, Unwritten, Saved
<1>11. AckedDurable'
  BY <1>1, <1>2, <1>3, ContentFacts DEF DurableInv, AckedDurable, Holds
<1> QED
  BY <1>1, <1>2, <1>3, <1>7, <1>8, <1>9, <1>10, <1>11 DEF DurableInv

LEMMA SwapDurable ==
    ASSUME DurableInv, NEW p \in Procs, Swap(p)
    PROVE  DurableInv'
<1> USE DEF Swap, At, files, locals
<1>1. /\ \A q \in Procs \ {p} : Quiet(q)
      /\ Rows(p) = docs /\ loaded
  BY RewriteIsAlone DEF Rewriting, Holding
<1>2. docs' = docs /\ held' = held
  BY <1>1 DEF DurableInv, TypeOK, Unshared, Frozen, Holding, Quiet
<1>3. TypeOK'
  BY <1>2 DEF DurableInv, TypeOK, Places
<1>4. Solitary' /\ Unshared' /\ ColdMemory' /\ BatchesApart' /\ TmpIsMemory' /\ NothingOwed'
  BY <1>1, <1>2 DEF DurableInv, TypeOK, Solitary, Unshared, ColdMemory, TmpIsMemory,
              BatchesApart, NothingOwed, Rewriting, Holding, Quiet
<1>5. FileLags' /\ AckedDurable'
  BY <1>1, <1>2 DEF DurableInv, TypeOK, FileLags, Unwritten, Saved, Unsaved, Appending, AckedDurable, Quiet,
                    Has, DS!Has
<1>6. \A id \in Ids : docs[id] = store[id]
  BY <1>1 DEF DurableInv, FileLags, Unwritten, Quiet, Saved, Appending, Unsaved
<1>7. BatchState'
  BY <1>1, <1>2, <1>6 DEF DurableInv, TypeOK, BatchState, BatchOf, Quiet, Holding, Reported,
                          Has, DS!Has
<1> QED
  BY <1>3, <1>4, <1>5, <1>7 DEF DurableInv

-----------------------------------------------------------------------------
(* The end of an operation, and of the process                             *)

LEMMA ReturnDurable ==
    ASSUME DurableInv, NEW p \in Procs, Return(p)
    PROVE  DurableInv'
<1> USE DEF Return, NoLocals, At, memory, files
<1>1. Reported(docs, p) /\ Reported(store, p) /\ batch[p] \in SUBSET Ids
  BY DEF DurableInv, TypeOK, BatchState, BatchOf
<1>2. acked' \in Content
  BY ContentFacts DEF DurableInv, TypeOK, Acked, Content, DS!Content, DS!Row, Has, DS!Has
<1>3. TypeOK'
  BY <1>2 DEF DurableInv, TypeOK, Places
<1>4. Solitary' /\ Unshared' /\ ColdMemory' /\ BatchesApart' /\ TmpIsMemory'
  BY DEF DurableInv, TypeOK, Solitary, Unshared, ColdMemory, TmpIsMemory,
              BatchesApart, Rewriting, Holding, Quiet
<1>5. NothingOwed'
  BY DEF DurableInv, TypeOK, Solitary, NothingOwed, Rewriting, Quiet
<1>6. BatchState'
  BY DEF DurableInv, TypeOK, BatchState, BatchOf, Quiet, Holding, Reported, Pushing
<1>7. FileLags'
  BY DEF DurableInv, TypeOK, FileLags, Unwritten, Saved, Unsaved, Appending, Has, DS!Has
<1>8. AckedDurable'
  <2>1. ASSUME NEW m \in Content, Holds(m, acked), Reported(m, p) PROVE Holds(m, acked')
    <3> SUFFICES ASSUME NEW id \in Ids, Has(acked', id)
                 PROVE  Has(m, id) /\ acked'[id] \subseteq m[id]
      BY DEF Holds
    <3>1. CASE id \notin batch[p]
      BY <2>1, <3>1 DEF Acked, Holds, Has, DS!Has
    <3>2. CASE id \in batch[p]
      BY <2>1, <3>2 DEF Acked, Holds, Reported, Has, DS!Has
    <3> QED
      BY <3>1, <3>2
  <2> QED
    BY <1>1, <2>1 DEF DurableInv, TypeOK, AckedDurable
<1> QED
  BY <1>3, <1>4, <1>5, <1>6, <1>7, <1>8 DEF DurableInv

LEMMA CrashDurable ==
    ASSUME DurableInv, Crash
    PROVE  DurableInv'
<1> USE DEF Crash
<1>1. TypeOK'
  <2>1. crashes' \in 0 .. MaxCrashes
    BY MaxCrashesAssumption DEF DurableInv, TypeOK
  <2> QED
    BY <2>1, ContentFacts DEF DurableInv, TypeOK, Places, Streams
<1>2. Solitary' /\ Unshared' /\ ColdMemory' /\ BatchesApart' /\ TmpIsMemory' /\ NothingOwed'
  BY DEF Solitary, Unshared, ColdMemory, TmpIsMemory, BatchesApart, NothingOwed,
         Rewriting, Holding, Quiet
<1>3. BatchState' /\ FileLags' /\ AckedDurable'
  BY DEF DurableInv, BatchState, BatchOf, Quiet, Holding, FileLags, Unwritten, Saved, Unsaved, Appending, AckedDurable
<1> QED
  BY <1>1, <1>2, <1>3 DEF DurableInv

LEMMA StepDurable == DurableInv /\ [ExclusiveNext]_vars => DurableInv'
<1> SUFFICES ASSUME DurableInv, [ExclusiveNext]_vars PROVE DurableInv'
  OBVIOUS
<1>1. ASSUME NEW p \in Procs, Alone(p), LoadRead(p) PROVE DurableInv'
  BY <1>1, LoadReadDurable
<1>2. ASSUME NEW p \in Procs, Alone(p), Clear(p) PROVE DurableInv'
  BY <1>2, ClearDurable
<1>3. ASSUME NEW p \in Procs, \A q \in Procs : ~Rewriting(q),
             NEW ids \in NonEmpty(Ids), Add(p, ids)
      PROVE  DurableInv'
  BY <1>3, AddDurable
<1>4. ASSUME NEW p \in Procs, Alone(p), NEW x \in Patches, Patch(p, x) PROVE DurableInv'
  BY <1>4, PatchDurable
<1>5. ASSUME NEW p \in Procs, Step(p) PROVE DurableInv'
  BY <1>5, LoadApplyDurable, AppendDurable, AppendFailsDurable, AppendNextDurable, BumpManifestDurable,
     OpenTmpDurable, WriteRowsDurable, RenameDurable, SwapDurable, TruncateDurable,
     ReturnDurable DEF Step
<1>6. CASE Crash
  BY <1>6, CrashDurable
<1>7. CASE UNCHANGED vars
  BY <1>7 DEF vars, memory, files, control, locals, DurableInv, TypeOK, Solitary, Unshared,
     ColdMemory, BatchState, BatchOf, BatchesApart, FileLags, NothingOwed, TmpIsMemory,
     AckedDurable, Rewriting, Holding, Quiet, Unwritten, Pushing, Reported, Has, DS!Has, Holds,
     Saved, Unsaved, Appending
<1> QED
  BY <1>1, <1>2, <1>3, <1>4, <1>5, <1>6, <1>7 DEF ExclusiveNext

LEMMA DurableInvariant == ExclusiveSpec => []DurableInv
BY InitDurable, StepDurable, PTL DEF ExclusiveSpec

-----------------------------------------------------------------------------
(* Theorems                                                                *)

\* Memory and files hold contents, operations are where they can be, at most
\* the names the code gives exist.
THEOREM VectorTypes == ExclusiveSpec => []TypeOK
BY DurableInvariant, PTL DEF DurableInv

\* What add and patchMetadataMany reported is in the file at every moment of
\* every later rewrite, and after a crash at any of them.
THEOREM VectorAckedDurable == ExclusiveSpec => []AckedDurable
BY DurableInvariant, PTL DEF DurableInv

\* Between operations memory and file are the same documents, but for those
\* whose append failed, which are in memory only.
THEOREM VectorMemoryMatchesFile == ExclusiveSpec => []MemoryMatchesFile
<1>1. DurableInv => MemoryMatchesFile
  <2> SUFFICES ASSUME DurableInv, loaded, \A p \in Procs : pc[p] \in {"idle", "ready"},
                      NEW id \in Ids
               PROVE  IF id \in unsaved THEN Has(docs, id) /\ ~Has(store, id)
                      ELSE docs[id] = store[id]
    BY DEF MemoryMatchesFile
  <2>1. Saved(id) \/ Unsaved(id)
    BY DEF DurableInv, FileLags, Unwritten, Appending
  <2> QED
    BY <2>1, NoRowAssumption DEF Saved, Unsaved, Has, DS!Has
<1> QED
  BY <1>1, DurableInvariant, PTL

\* index.ts:339, "Rewrite the entire store file atomically", is true of callers
\* that keep rewrites apart: a rename takes no document and no patch away.
THEOREM VectorRewriteKeepsRows == ExclusiveSpec => RewriteKeepsRows
<1>1. DurableInv /\ [ExclusiveNext]_vars =>
          [\A p \in Procs : Rename(p) /\ store # Torn => store' # Torn /\ Holds(store', store)]_vars
  <2> SUFFICES ASSUME DurableInv, NEW p \in Procs, Rename(p)
               PROVE  store' # Torn /\ Holds(store', store)
    OBVIOUS
  <2> QED
    BY RenameDurable, ContentFacts DEF DurableInv, AckedDurable
<1> QED
  BY <1>1, DurableInvariant, PTL DEF ExclusiveSpec, RewriteKeepsRows

\* Every step of the store is a step of DocStore on its file, or leaves the
\* file alone: an append inserts its row, a rename applies its patch to all the
\* rows at once, the truncation of a clear erases them.
THEOREM VectorImplementsDocStore == ExclusiveSpec => ImplementsDocStore
<1>1. Init => DS!Init
  BY DEF Init, DS!Init, NoRows
<1>2. DurableInv /\ [ExclusiveNext]_vars => [DS!Next]_store
  <2> SUFFICES ASSUME DurableInv, [ExclusiveNext]_vars, store' # store PROVE DS!Next
    OBVIOUS
  <2>1. ASSUME NEW p \in Procs, Append(p) PROVE DS!Next
    <3>1. current[p] \in Ids
      BY <2>1 DEF Append, DurableInv, TypeOK, BatchState, BatchOf, Pushing
    <3> QED
      BY <2>1, <3>1, AppendDurable DEF DS!Next, DS!Insert, Has
  <2>2. ASSUME NEW p \in Procs, Rename(p) PROVE DS!Next
    BY <2>2, RenameDurable DEF DS!Next, DS!Amend, DurableInv, TypeOK
  <2>3. ASSUME NEW p \in Procs, Truncate(p) PROVE DS!Next
    BY <2>3 DEF Truncate, DS!Next, DS!Erase, NoRows
  <2>4. ASSUME NEW p \in Procs, WriteRows(p) PROVE FALSE
    BY <2>4, WriteRowsDurable
  <2>5. ASSUME NEW p \in Procs,
               LoadApply(p) \/ AppendFails(p) \/ AppendNext(p) \/ BumpManifest(p) \/ OpenTmp(p) \/ Swap(p) \/ Return(p)
        PROVE  FALSE
    BY <2>5 DEF LoadApply, AppendFails, AppendNext, BumpManifest, OpenTmp, Swap, Return, files
  <2>6. ASSUME NEW p \in Procs, LoadRead(p) \/ Clear(p) PROVE FALSE
    BY <2>6 DEF LoadRead, Clear, files
  <2>7. ASSUME NEW p \in Procs, NEW ids \in NonEmpty(Ids), Add(p, ids) PROVE FALSE
    BY <2>7 DEF Add, files
  <2>8. ASSUME NEW p \in Procs, NEW x \in Patches, Patch(p, x) PROVE FALSE
    BY <2>8 DEF Patch, files
  <2>9. ~Crash /\ ~UNCHANGED vars
    BY DEF Crash, vars, files
  <2> QED
    BY <2>1, <2>2, <2>3, <2>4, <2>5, <2>6, <2>7, <2>8, <2>9 DEF ExclusiveNext, Step
<1> QED
  BY <1>1, <1>2, DurableInvariant, PTL DEF ExclusiveSpec, ImplementsDocStore, DS!Spec
=============================================================================
