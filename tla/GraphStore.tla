----------------------------- MODULE GraphStore -----------------------------
(***************************************************************************)
(* The temporal knowledge graph of src/memory/graph.ts: maps in memory and *)
(* an append-only JSONL file of node and edge events behind them.          *)
(*                                                                         *)
(* Every operation changes memory synchronously and then awaits            *)
(* appendJsonl, so other operations run in between.  An operation of a     *)
(* process is therefore a chain of actions: it starts (the synchronous     *)
(* part), its event reaches the file (Flush), and it resumes (Resume),     *)
(* which for a superseding addEdge is once per retired edge.               *)
(*                                                                         *)
(* load() replays the file, and the last event of an edge id wins, so the  *)
(* file is represented by the map its replay yields: appending an event    *)
(* overwrites the entry of its id.                                         *)
(***************************************************************************)
EXTENDS Naturals, FiniteSets

CONSTANTS
    Procs,        \* concurrent callers of one GraphStore
    Nodes, EdgeIds,
    Subjects,     \* bound: the nodes that edges start from
    SingleRels,   \* relations with one value per subject: always superseded
    MultiRels,    \* relations with many
    MaxTime,      \* bound: the instants that edges start and end at
    MaxCrashes,   \* bound: crashes of the process
    NoEdge, NoId, Forever

Rels == SingleRels \union MultiRels
Times == 0 .. MaxTime

ASSUME RelsAssumption == SingleRels \intersect MultiRels = {}
ASSUME SubjectsAssumption == Subjects \subseteq Nodes
ASSUME TimeAssumption == MaxTime \in Nat /\ MaxCrashes \in Nat
ASSUME NullAssumption == NoId \notin EdgeIds /\ Forever \notin Nat

\* GraphEdge without its id; valid_to = null is Forever.
Edge == [from : Nodes, to : Nodes, rel : Rels, validFrom : Times,
         validTo : Times \union {Forever}, supersededBy : EdgeIds \union {NoId}]

ASSUME NoEdgeAssumption == NoEdge \notin Edge

Entry == [id : EdgeIds, edge : Edge]
NodeEvent == [node : Nodes]

VARIABLES
    nodes, edges, outIdx, inIdx, loaded,   \* memory
    diskNodes, diskEdges,                  \* the file, as load() replays it
    pc,       \* per process: "idle", "loading", "node", "flush", "flushed"
    snapshot, \* per process: what load() read
    pending,  \* per process: the event being appended
    todo,     \* per process: victims of addEdge not retired yet
    newEdge,  \* per process: the entry that ends the operation
    behind,   \* history: <<i, j>>, edge i was given a start before the end of edge j
    crashes

memory == <<nodes, edges, outIdx, inIdx, loaded>>
disk == <<diskNodes, diskEdges>>
control == <<pc, snapshot, pending, todo, newEdge>>
vars == <<memory, disk, control, behind, crashes>>

EdgeMap == [EdgeIds -> Edge \union {NoEdge}]
Snapshot == [nodes : SUBSET Nodes, edges : EdgeMap]
Index == [Nodes -> SUBSET EdgeIds]
Present(m, id) == m[id] # NoEdge
Valid(m, id) == m[id] # NoEdge /\ m[id].validTo = Forever
Key(e) == <<e.from, e.rel>>

NoEdges == [id \in EdgeIds |-> NoEdge]
NoEntries == [n \in Nodes |-> {}]
Idle == "idle"
Busy(p) == pc[p] \in {"flush", "flushed"}

TypeOK ==
    /\ nodes \in SUBSET Nodes /\ diskNodes \in SUBSET Nodes
    /\ edges \in EdgeMap /\ diskEdges \in EdgeMap
    /\ outIdx \in Index /\ inIdx \in Index
    /\ loaded \in BOOLEAN
    /\ pc \in [Procs -> {"idle", "loading", "node", "flush", "flushed"}]
    /\ snapshot \in [Procs -> Snapshot \union {NoEdge}]
    /\ pending \in [Procs -> Entry \union NodeEvent \union {NoEdge}]
    /\ todo \in [Procs -> SUBSET Entry]
    /\ newEdge \in [Procs -> Entry \union {NoEdge}]
    /\ \A p \in Procs :
          /\ pc[p] = "loading" => snapshot[p] \in Snapshot
          /\ pc[p] = "node" => pending[p] \in NodeEvent
          /\ Busy(p) => pending[p] \in Entry /\ newEdge[p] \in Entry
    /\ behind \subseteq EdgeIds \X EdgeIds
    /\ crashes \in 0 .. MaxCrashes

Init ==
    /\ nodes = {} /\ diskNodes = {}
    /\ edges = NoEdges /\ diskEdges = NoEdges
    /\ outIdx = NoEntries /\ inIdx = NoEntries
    /\ loaded = FALSE
    /\ pc = [p \in Procs |-> Idle]
    /\ snapshot = [p \in Procs |-> NoEdge]
    /\ pending = [p \in Procs |-> NoEdge]
    /\ todo = [p \in Procs |-> {}]
    /\ newEdge = [p \in Procs |-> NoEdge]
    /\ behind = {}
    /\ crashes = 0

-----------------------------------------------------------------------------
(* Index maintenance (indexEdge): an id is only ever added.                *)

Indexed(idx, n, id) == [idx EXCEPT ![n] = @ \union {id}]

\* edges.set(id, e) followed by indexEdge(e).
Insert(ent) ==
    /\ edges' = [edges EXCEPT ![ent.id] = ent.edge]
    /\ outIdx' = Indexed(outIdx, ent.edge.from, ent.id)
    /\ inIdx' = Indexed(inIdx, ent.edge.to, ent.id)

\* edges.set(id, e) alone.
Overwrite(ent) ==
    /\ edges' = [edges EXCEPT ![ent.id] = ent.edge]
    /\ UNCHANGED <<outIdx, inIdx>>

-----------------------------------------------------------------------------
(* load(): read the file, then apply it over whatever memory holds by then. *)
(* Nothing marks a load as under way, so two may overlap.                   *)

LoadRead(p) ==
    /\ pc[p] = Idle
    /\ ~loaded
    /\ snapshot' = [snapshot EXCEPT ![p] = [nodes |-> diskNodes, edges |-> diskEdges]]
    /\ pc' = [pc EXCEPT ![p] = "loading"]
    /\ UNCHANGED <<memory, disk, pending, todo, newEdge, behind, crashes>>

LoadApply(p) ==
    /\ pc[p] = "loading"
    /\ LET m == snapshot[p].edges IN
         /\ nodes' = nodes \union snapshot[p].nodes
         /\ edges' = [id \in EdgeIds |-> IF Present(m, id) THEN m[id] ELSE edges[id]]
         /\ outIdx' = [n \in Nodes |-> outIdx[n] \union
                         {id \in EdgeIds : Present(m, id) /\ m[id].from = n}]
         /\ inIdx' = [n \in Nodes |-> inIdx[n] \union
                         {id \in EdgeIds : Present(m, id) /\ m[id].to = n}]
    /\ loaded' = TRUE
    /\ snapshot' = [snapshot EXCEPT ![p] = NoEdge]
    /\ pc' = [pc EXCEPT ![p] = Idle]
    /\ UNCHANGED <<disk, pending, todo, newEdge, behind, crashes>>

\* An operation begins on a loaded store; otherwise it loads it first.
CanStart(p) == pc[p] = Idle /\ loaded

\* The operation returns; its locals are gone.
Return(p) ==
    /\ pc' = [pc EXCEPT ![p] = Idle]
    /\ pending' = [pending EXCEPT ![p] = NoEdge]
    /\ todo' = [todo EXCEPT ![p] = {}]
    /\ newEdge' = [newEdge EXCEPT ![p] = NoEdge]

-----------------------------------------------------------------------------
(* addNode                                                                 *)

\* The node is created, or its labels and props are merged; both persist it.
AddNode(p, n) ==
    /\ CanStart(p)
    /\ nodes' = nodes \union {n}
    /\ pending' = [pending EXCEPT ![p] = [node |-> n]]
    /\ pc' = [pc EXCEPT ![p] = "node"]
    /\ UNCHANGED <<edges, outIdx, inIdx, loaded, disk, snapshot, todo, newEdge, behind, crashes>>

FlushNode(p) ==
    /\ pc[p] = "node"
    /\ diskNodes' = diskNodes \union {pending[p].node}
    /\ Return(p)
    /\ UNCHANGED <<memory, diskEdges, snapshot, behind, crashes>>

-----------------------------------------------------------------------------
(* addEdge                                                                 *)

\* An id no edge has or is being given (randomUUID).
Fresh(id) ==
    /\ ~Present(edges, id) /\ ~Present(diskEdges, id)
    /\ \A q \in Procs : Busy(q) => newEdge[q].id # id

Retired(v, new) ==
    [id |-> v.id, edge |-> [v.edge EXCEPT !.validTo = new.edge.validFrom,
                                          !.supersededBy = new.id]]

\* Mutant: what the comment on AddEdgeOptions says, ({from, to, rel}).
VictimsSameTarget(new) ==
    {[id |-> i, edge |-> edges[i]] : i \in
        {i \in outIdx[new.edge.from] : /\ edges[i].rel = new.edge.rel
                                       /\ edges[i].to = new.edge.to
                                       /\ edges[i].validTo = Forever
                                       /\ i # new.id}}

\* Valid edges of the same subject and relation, copied as they are now.
Victims(new) ==
    {[id |-> i, edge |-> edges[i]] : i \in
        {i \in outIdx[new.edge.from] : /\ edges[i].rel = new.edge.rel
                                       /\ edges[i].validTo = Forever
                                       /\ i # new.id}}

\* The loop of addEdge: retire the next victim from the copy taken at the
\* start, or, when none is left, insert the new edge.
RetireOrInsert(p, victims, new) ==
    \/ \E v \in victims :
         /\ Overwrite(Retired(v, new))
         /\ pending' = [pending EXCEPT ![p] = Retired(v, new)]
         /\ todo' = [todo EXCEPT ![p] = victims \ {v}]
    \/ /\ victims = {}
       /\ Insert(new)
       /\ pending' = [pending EXCEPT ![p] = new]
       /\ todo' = [todo EXCEPT ![p] = {}]

\* For the history: the edges of the same subject and relation that have ended,
\* but later than the new one starts.
EndsAfterStart(new) ==
    {i \in EdgeIds : /\ new.edge.rel \in SingleRels
                     /\ Present(edges, i) /\ Key(edges[i]) = Key(new.edge)
                     /\ edges[i].validTo # Forever
                     /\ new.edge.validFrom < edges[i].validTo}

\* valid_from is the caller's, of any past or future; by default it is the clock's.
AddEdge(p, id, from, to, rel, validFrom, supersede) ==
    LET new == [id |-> id, edge |->
                  [from |-> from, to |-> to, rel |-> rel, validFrom |-> validFrom,
                   validTo |-> Forever, supersededBy |-> NoId]]
    IN /\ CanStart(p)
       /\ {from, to} \subseteq nodes
       /\ Fresh(id)
       /\ RetireOrInsert(p, IF supersede THEN Victims(new) ELSE {}, new)
       /\ newEdge' = [newEdge EXCEPT ![p] = new]
       /\ pc' = [pc EXCEPT ![p] = "flush"]
       /\ behind' = behind \union {<<id, i>> : i \in EndsAfterStart(new)}
       /\ UNCHANGED <<nodes, loaded, disk, snapshot, crashes>>

\* appendJsonl reaches the file.
Flush(p) ==
    /\ pc[p] = "flush"
    /\ diskEdges' = [diskEdges EXCEPT ![pending[p].id] = pending[p].edge]
    /\ pc' = [pc EXCEPT ![p] = "flushed"]
    /\ UNCHANGED <<memory, diskNodes, snapshot, pending, todo, newEdge, behind, crashes>>

\* Mutant: addEdge returns when it has retired the last victim.
ResumeTooSoon(p) ==
    /\ pc[p] = "flushed"
    /\ \/ /\ todo[p] = {}
          /\ Return(p)
          /\ UNCHANGED memory
       \/ /\ todo[p] # {}
          /\ RetireOrInsert(p, todo[p], newEdge[p])
          /\ pc' = [pc EXCEPT ![p] = "flush"]
          /\ UNCHANGED <<nodes, loaded, newEdge>>
    /\ UNCHANGED <<disk, snapshot, behind, crashes>>

\* The promise of appendJsonl resolves: the operation returns, or addEdge goes
\* on with its loop.
Resume(p) ==
    /\ pc[p] = "flushed"
    /\ \/ /\ pending[p].id = newEdge[p].id
          /\ Return(p)
          /\ UNCHANGED memory
       \/ /\ pending[p].id # newEdge[p].id
          /\ RetireOrInsert(p, todo[p], newEdge[p])
          /\ pc' = [pc EXCEPT ![p] = "flush"]
          /\ UNCHANGED <<nodes, loaded, newEdge>>
    /\ UNCHANGED <<disk, snapshot, behind, crashes>>

-----------------------------------------------------------------------------
(* retractEdge, as of any instant: an unknown or already retired edge is    *)
(* left alone.                                                             *)

\* Mutants: the event is not written; an edge already retired is retired again.
RetractInMemory(p, id, at) ==
    /\ CanStart(p)
    /\ Valid(edges, id)
    /\ Overwrite([id |-> id, edge |-> [edges[id] EXCEPT !.validTo = at]])
    /\ pc' = [pc EXCEPT ![p] = Idle]
    /\ UNCHANGED <<nodes, loaded, disk, snapshot, pending, todo, newEdge, behind, crashes>>
RetractAgain(p, id, at) ==
    /\ CanStart(p)
    /\ Present(edges, id)
    /\ LET ent == [id |-> id, edge |-> [edges[id] EXCEPT !.validTo = at]] IN
         /\ Overwrite(ent)
         /\ pending' = [pending EXCEPT ![p] = ent]
         /\ newEdge' = [newEdge EXCEPT ![p] = ent]
    /\ todo' = [todo EXCEPT ![p] = {}]
    /\ pc' = [pc EXCEPT ![p] = "flush"]
    /\ UNCHANGED <<nodes, loaded, disk, snapshot, behind, crashes>>
Retract(p, id, at) ==
    /\ CanStart(p)
    /\ Valid(edges, id)
    /\ LET ent == [id |-> id, edge |-> [edges[id] EXCEPT !.validTo = at]] IN
         /\ Overwrite(ent)
         /\ pending' = [pending EXCEPT ![p] = ent]
         /\ newEdge' = [newEdge EXCEPT ![p] = ent]
    /\ todo' = [todo EXCEPT ![p] = {}]
    /\ pc' = [pc EXCEPT ![p] = "flush"]
    /\ UNCHANGED <<nodes, loaded, disk, snapshot, behind, crashes>>

-----------------------------------------------------------------------------
(* Environment                                                             *)

\* The process dies and a new GraphStore is constructed on the same file; an edge
\* that never reached it is gone with its history.
Crash ==
    /\ crashes < MaxCrashes
    /\ crashes' = crashes + 1
    /\ nodes' = {} /\ edges' = NoEdges
    /\ outIdx' = NoEntries /\ inIdx' = NoEntries
    /\ loaded' = FALSE
    /\ pc' = [p \in Procs |-> Idle]
    /\ snapshot' = [p \in Procs |-> NoEdge]
    /\ pending' = [p \in Procs |-> NoEdge]
    /\ todo' = [p \in Procs |-> {}]
    /\ newEdge' = [p \in Procs |-> NoEdge]
    /\ behind' = {ij \in behind : \A i \in {ij[1], ij[2]} : Present(diskEdges, i)}
    /\ UNCHANGED disk

Start(p) ==
    \/ LoadRead(p)
    \/ \E n \in Nodes : AddNode(p, n)
    \/ \E id \in EdgeIds, from \in Subjects, to \in Nodes, rel \in Rels, supersede \in BOOLEAN :
          /\ rel \in SingleRels => supersede
          /\ \E validFrom \in Times : AddEdge(p, id, from, to, rel, validFrom, supersede)
    \/ \E id \in EdgeIds, at \in Times : Retract(p, id, at)

Step(p) == LoadApply(p) \/ FlushNode(p) \/ Flush(p) \/ Resume(p)

Next ==
    \/ \E p \in Procs : Start(p)
    \/ \E p \in Procs : Step(p)
    \/ Crash

Spec == Init /\ [][Next]_vars

-----------------------------------------------------------------------------
(* The discipline under which the store keeps its promises.  The code has  *)
(* no lock, so it is the caller that must await load() before the first    *)
(* operation, and await an operation on a subject and relation before the  *)
(* next one on it starts.                                                  *)

LoadAlone(p) == \A q \in Procs \ {p} : pc[q] = Idle
NoneOn(p, key) == \A q \in Procs \ {p} : Busy(q) => Key(newEdge[q].edge) # key
Loading == \E q \in Procs : pc[q] = "loading"

\* from and to are not being created at this moment.
NodesSettled(ns) == \A q \in Procs : pc[q] = "node" => pending[q].node \notin ns

SerialStart(p) ==
    \/ LoadAlone(p) /\ LoadRead(p)
    \/ \E n \in Nodes : AddNode(p, n)
    \/ \E id \in EdgeIds, from \in Subjects, to \in Nodes, rel \in Rels, supersede \in BOOLEAN :
          /\ rel \in SingleRels => supersede
          /\ NoneOn(p, <<from, rel>>)
          /\ NodesSettled({from, to})
          /\ \E validFrom \in Times : AddEdge(p, id, from, to, rel, validFrom, supersede)
    \/ \E id \in EdgeIds :
          /\ Present(edges, id)
          /\ NoneOn(p, Key(edges[id]))
          /\ \E at \in Times : Retract(p, id, at)

SerialNext ==
    \/ \E p \in Procs : SerialStart(p)
    \/ \E p \in Procs : Step(p)
    \/ Crash

SerialSpec == Init /\ [][SerialNext]_vars

-----------------------------------------------------------------------------
(* Properties                                                              *)

\* Mutant: the interval is closed.
ValidAtClosed(e, t) == e.validFrom <= t /\ (e.validTo = Forever \/ t <= e.validTo)

\* isEdgeValidAt with an asOf: half-open [valid_from, valid_to).
ValidAt(e, t) == e.validFrom <= t /\ (e.validTo = Forever \/ t < e.validTo)

OneValid(m) ==
    \A i, j \in EdgeIds :
        /\ Valid(m, i) /\ Valid(m, j)
        /\ Key(m[i]) = Key(m[j]) /\ m[i].rel \in SingleRels
        => i = j

\* graph.ts:189: (u, LIVES_IN, Berlin) supersedes any prior (u, LIVES_IN, *),
\* "because LIVES_IN is single-valued per subject".  A subject never has two
\* currently valid values: not while a supersession is half done, and not in
\* what a restart would read back.
SingleValued == OneValid(edges) /\ OneValid(diskEdges)

\* A point-in-time query of a single-valued relation has one answer at most, of
\* the past too, unless a caller dated one of two answers before the end of the
\* other, which addEdge accepts: it retires what is valid now, not what was then.
AsOfUnique ==
    \A i, j \in EdgeIds : \A t \in Times :
        /\ Present(edges, i) /\ Present(edges, j)
        /\ Key(edges[i]) = Key(edges[j]) /\ edges[i].rel \in SingleRels
        /\ ValidAt(edges[i], t) /\ ValidAt(edges[j], t)
        => i = j \/ <<i, j>> \in behind \/ <<j, i>> \in behind

\* Memory and file tell the same story about every edge no operation is busy
\* with: what a caller was told is what a restart finds.
MemoryMatchesFile ==
    loaded => \A id \in EdgeIds :
        (\A p \in Procs : pc[p] = "flush" => pending[p].id # id)
            => edges[id] = diskEdges[id]

\* graph.ts:24, "append-only": once retired, an edge's interval and its
\* successor are never rewritten, in memory or in the file.
RetiredIsFinal ==
    [][\A id \in EdgeIds :
          /\ (Present(edges, id) /\ ~Valid(edges, id)) => edges'[id] \in {edges[id], NoEdge}
          /\ (Present(diskEdges, id) /\ ~Valid(diskEdges, id)) => diskEdges'[id] = diskEdges[id]
      ]_vars

\* The indexes cover every edge, and hold no id that edges.get(id)! would miss.
IndexExact ==
    \A id \in EdgeIds : \A n \in Nodes :
        /\ id \in outIdx[n] <=> Present(edges, id) /\ edges[id].from = n
        /\ id \in inIdx[n] <=> Present(edges, id) /\ edges[id].to = n

\* Nothing that survives a crash refers to a node that did not.
EndpointsDurable ==
    \A id \in EdgeIds : Present(diskEdges, id) =>
        {diskEdges[id].from, diskEdges[id].to} \subseteq diskNodes

\* Unless the process died half-way, every superseded edge names a successor
\* that exists once its operation is over.
SuccessorExists ==
    (crashes = 0 /\ \A p \in Procs : ~Busy(p)) =>
        \A id \in EdgeIds :
            (Present(edges, id) /\ edges[id].supersededBy # NoId)
                => Present(edges, edges[id].supersededBy)
=============================================================================
