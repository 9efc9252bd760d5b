------------------------------- MODULE Retain -------------------------------
(***************************************************************************)
(* retain() and recall() of src/memory/api.ts, over a vector backend whose *)
(* calls (search, addWithVector, patchMetadataMany) each take effect at    *)
(* once and durably, as DocStore states and VectorStore implements.        *)
(*                                                                         *)
(* retain() makes three such calls with awaits in between and holds no     *)
(* lock, so retains of several callers interleave between the search for   *)
(* conflicts, the insertion and the invalidation; and a retain can stop    *)
(* at any of these points, because a call throws or the process dies, with *)
(* what it has done so far left in the store.                              *)
(*                                                                         *)
(* Documents are never deleted, so the store is a sequence and a document  *)
(* is named by its position.  "Similar" (cosine at or above the threshold) *)
(* is "same topic".  A namespace is the set of its key=value pairs.  The   *)
(* time stamps are left out: nothing compares them, and valid_to is set    *)
(* together with superseded_by.                                            *)
(***************************************************************************)
EXTENDS Naturals, Sequences, FiniteSets

CONSTANTS
    Procs,       \* concurrent callers
    Topics, Texts,
    Namespaces,  \* sets of key=value pairs; {} when nothing is configured
    TopK,        \* hits a search returns at most (5 in resolveConflicts)
    MaxDocs      \* bound: documents in the store

ASSUME TopKAssumption == TopK \in Nat \ {0}
ASSUME MaxDocsAssumption == MaxDocs \in Nat
ASSUME NamespacesAssumption == \A ns \in Namespaces : IsFiniteSet(ns)

Request == [topic : Topics, text : Texts, ns : Namespaces]
None == 0
NoRequest == [topic |-> None, text |-> None, ns |-> {}]
Doc == [topic : Topics, text : Texts, ns : Namespaces, supersededBy : Nat]

VARIABLES
    docs,    \* the documents, in the order they were added
    pc,      \* per caller: "idle", "embedding", "adding", "patching", "returning", "recalled"
    req,     \* per caller: what it retains
    found,   \* per caller: toInvalidate (retain) or the hits (recall)
    doc,     \* per caller: the document it added
    solo,    \* history: this retain has run alone and with conflict detection
    settled  \* history: what the retains that ran alone have established

vars == <<docs, pc, req, found, doc, solo, settled>>

Places == {"idle", "embedding", "adding", "patching", "returning", "recalled"}

TypeOK ==
    /\ docs \in Seq(Doc)
    /\ Len(docs) <= MaxDocs
    /\ pc \in [Procs -> Places]
    /\ req \in [Procs -> Request \union {NoRequest}]
    /\ \A p \in Procs : pc[p] \notin {"idle", "recalled"} => req[p] \in Request
    /\ found \in [Procs -> SUBSET DOMAIN docs]
    /\ doc \in [Procs -> Nat]
    /\ solo \in [Procs -> BOOLEAN]
    /\ settled \in SUBSET Request

Init ==
    /\ docs = <<>>
    /\ pc = [p \in Procs |-> "idle"]
    /\ req = [p \in Procs |-> NoRequest]
    /\ found = [p \in Procs |-> {}]
    /\ doc = [p \in Procs |-> None]
    /\ solo = [p \in Procs |-> FALSE]
    /\ settled = {}

Live(d) == d.supersededBy = None

-----------------------------------------------------------------------------
(* search: the topK most similar documents that carry the namespace's       *)
(* pairs.  Ties are broken by position in the file, that is, in any way;    *)
(* invalidated documents are hits like any other.                           *)

\* Mutant: the namespace is not part of the filter.
MatchingAnyTenant(topic, ns) == {i \in DOMAIN docs : docs[i].topic = topic}

Matching(topic, ns) == {i \in DOMAIN docs : docs[i].topic = topic /\ ns \subseteq docs[i].ns}

Hits(topic, ns) ==
    LET m == Matching(topic, ns) IN
    IF Cardinality(m) <= TopK THEN {m} ELSE {h \in SUBSET m : Cardinality(h) = TopK}

-----------------------------------------------------------------------------
(* retain                                                                  *)

At(p, place) == pc' = [pc EXCEPT ![p] = place]

Retaining(q) == pc[q] \notin {"idle", "recalled"}

\* retain() is called and embeds its content.
Begin(p, r) ==
    /\ pc[p] = "idle"
    /\ req' = [req EXCEPT ![p] = r]
    /\ solo' = [q \in Procs |-> IF q = p THEN \A x \in Procs \ {p} : ~Retaining(x)
                                ELSE FALSE]
    /\ At(p, "embedding")
    /\ UNCHANGED <<docs, found, doc, settled>>

\* resolveConflicts under 'auto' and 'supersede' (which it treats alike): the
\* hits that are valid and say something else are to be invalidated.
DetectConflicts(p) ==
    /\ pc[p] = "embedding"
    /\ \E hits \in Hits(req[p].topic, req[p].ns) :
          found' = [found EXCEPT ![p] =
                       {i \in hits : Live(docs[i]) /\ docs[i].text # req[p].text}]
    /\ At(p, "adding")
    /\ UNCHANGED <<docs, req, doc, solo, settled>>

\* resolveConflicts under 'coexist', or when its search threw, which is logged
\* and otherwise ignored: nothing is to be invalidated.
KeepAll(p) ==
    /\ pc[p] = "embedding"
    /\ solo' = [solo EXCEPT ![p] = FALSE]
    /\ At(p, "adding")
    /\ UNCHANGED <<docs, req, found, doc, settled>>

\* Mutant: the id of the document before the new one.
AddPreviousId(p) ==
    /\ pc[p] = "adding"
    /\ Len(docs) < MaxDocs
    /\ docs' = Append(docs, [topic |-> req[p].topic, text |-> req[p].text,
                             ns |-> req[p].ns, supersededBy |-> None])
    /\ doc' = [doc EXCEPT ![p] = Len(docs)]
    /\ settled' = {s \in settled : s.topic # req[p].topic}
    /\ At(p, "patching")
    /\ UNCHANGED <<req, found, solo>>

\* addWithVector: the document is stored, valid.
Add(p) ==
    /\ pc[p] = "adding"
    /\ Len(docs) < MaxDocs
    /\ docs' = Append(docs, [topic |-> req[p].topic, text |-> req[p].text,
                             ns |-> req[p].ns, supersededBy |-> None])
    /\ doc' = [doc EXCEPT ![p] = Len(docs) + 1]
    /\ settled' = {s \in settled : s.topic # req[p].topic}
    /\ At(p, "patching")
    /\ UNCHANGED <<req, found, solo>>

\* Mutant: only the best match is invalidated.
SupersededFirst(ds, ids, by) ==
    [i \in DOMAIN ds |-> IF i \in ids /\ \A j \in ids : j <= i
                         THEN [ds[i] EXCEPT !.supersededBy = by] ELSE ds[i]]

Superseded(ds, ids, by) ==
    [i \in DOMAIN ds |-> IF i \in ids THEN [ds[i] EXCEPT !.supersededBy = by] ELSE ds[i]]

\* patchMetadataMany: the conflicts are invalidated, in favour of the new
\* document, whatever has become of them since the search.
Patch(p) ==
    /\ pc[p] = "patching"
    /\ docs' = Superseded(docs, found[p], doc[p])
    /\ At(p, "returning")
    /\ UNCHANGED <<req, found, doc, solo, settled>>

Leave(p) ==
    /\ pc' = [pc EXCEPT ![p] = "idle"]
    /\ req' = [req EXCEPT ![p] = NoRequest]
    /\ found' = [found EXCEPT ![p] = {}]
    /\ doc' = [doc EXCEPT ![p] = None]
    /\ solo' = [solo EXCEPT ![p] = FALSE]
    /\ UNCHANGED docs

\* proposeInbound, if asked for, and the audit entry are behind: retain returns.
Return(p) ==
    /\ pc[p] = "returning"
    /\ settled' = IF solo[p] THEN settled \union {req[p]} ELSE settled
    /\ Leave(p)

\* A call of retain throws (embed, add, patch, propose), or its process dies.
Abort(p) ==
    /\ Retaining(p)
    /\ Leave(p)
    /\ UNCHANGED settled

-----------------------------------------------------------------------------
(* recall: retrieveInner's vector source, with the namespace as its only    *)
(* filter.                                                                  *)

Recall(p, topic, ns) ==
    /\ pc[p] = "idle"
    /\ \E hits \in Hits(topic, ns) : found' = [found EXCEPT ![p] = hits]
    /\ At(p, "recalled")
    /\ UNCHANGED <<docs, req, doc, solo, settled>>

Answer(p) ==
    /\ pc[p] = "recalled"
    /\ Leave(p)
    /\ UNCHANGED settled

Next ==
    \E p \in Procs :
        \/ \E r \in Request : Begin(p, r)
        \/ DetectConflicts(p) \/ KeepAll(p)
        \/ Add(p) \/ Patch(p)
        \/ Return(p) \/ Abort(p)
        \/ \E topic \in Topics, ns \in Namespaces : Recall(p, topic, ns)
        \/ Answer(p)

Spec == Init /\ [][Next]_vars

-----------------------------------------------------------------------------
(* Properties                                                              *)

\* superseded_by always names a document that is in the store and was added
\* later.  So no crash between two calls of retain leaves a dangling successor,
\* and no number of racing retains closes a circle of supersessions: every
\* chain ends in a valid document.
SuccessorLater ==
    \A i \in DOMAIN docs :
        ~Live(docs[i]) => docs[i].supersededBy \in (i + 1) .. Len(docs)

\* A document gives way only to one that speaks of the same topic, differs from
\* it and carries no more of a namespace than it does; "tenant A's retain
\* shouldn't supersede tenant B's docs" (api.ts:195).
SupersededByItsOwn ==
    \A i \in DOMAIN docs :
        ~Live(docs[i]) =>
            LET s == docs[docs[i].supersededBy] IN
            /\ s.topic = docs[i].topic
            /\ s.text # docs[i].text
            /\ s.ns \subseteq docs[i].ns

\* The valid documents of a retain's scope that say something else than it did.
Contradicting(r) == {i \in Matching(r.topic, r.ns) : Live(docs[i]) /\ docs[i].text # r.text}

\* A retain that ran alone has the last word, as far as its search could see:
\* until something is added on its topic again, valid documents contradict it
\* only in so far as TopK others of its scope, valid or not, crowded them out.
\* None does when there were TopK or fewer before it, whatever duplicates
\* crashes and races had left behind.
LastRetainWins ==
    \A r \in settled :
        Contradicting(r) # {} =>
            Cardinality(Contradicting(r)) + (TopK + 1) <= Cardinality(Matching(r.topic, r.ns))

\* Audit trail: a document is never removed, altered or made valid again.
HistoryKept ==
    [][\A i \in DOMAIN docs :
          /\ i \in DOMAIN docs'
          /\ [docs'[i] EXCEPT !.supersededBy = None] = [docs[i] EXCEPT !.supersededBy = None]
          /\ Live(docs'[i]) => Live(docs[i])]_vars

=============================================================================
