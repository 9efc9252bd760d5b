-------------------------- MODULE GraphStoreProofs --------------------------
(***************************************************************************)
(* The safety of the knowledge graph, for every number of callers, nodes,  *)
(* edges and relations. Part 1 asks no discipline of the callers. Parts 2  *)
(* and 3 are under SerialSpec: when they keep operations on one subject    *)
(* and relation apart, a single-valued relation has one valid value now    *)
(* (part 2), and at every time unless one is dated behind the other's end   *)
(* (part 3); memory and file agree, what is retired stays as it is, and    *)
(* what superseded it is there.                                            *)
(***************************************************************************)
EXTENDS GraphStore, TLAPS

-----------------------------------------------------------------------------
(* Under Spec: an edge id stands for one edge wherever it occurs, so the   *)
(* indexes stay exact.                                                     *)

SameShape(e, f) == e.from = f.from /\ e.to = f.to /\ e.rel = f.rel

\* e is what memory, the file, a load in progress or an operation in progress
\* has for id.
Occurs(id, e) ==
    \/ Present(edges, id) /\ e = edges[id]
    \/ Present(diskEdges, id) /\ e = diskEdges[id]
    \/ \E p \in Procs : /\ pc[p] = "loading"
                        /\ Present(snapshot[p].edges, id)
                        /\ e = snapshot[p].edges[id]
    \/ \E p \in Procs : /\ Busy(p)
                        /\ [id |-> id, edge |-> e] \in todo[p] \union {pending[p], newEdge[p]}

OneShape ==
    \A id \in EdgeIds : \A e, f \in Edge :
        Occurs(id, e) /\ Occurs(id, f) => SameShape(e, f)

\* What operations are retiring is in memory; what loads have read is in the file.
Known ==
    \A p \in Procs :
        /\ Busy(p) => /\ Present(edges, pending[p].id)
                      /\ \A v \in todo[p] : Present(edges, v.id)
        /\ pc[p] = "loading" => \A id \in EdgeIds :
              Present(snapshot[p].edges, id) => Present(diskEdges, id)

ShapeInv == TypeOK /\ OneShape /\ Known /\ IndexExact

LEMMA EdgeTypes ==
    ASSUME NEW m \in EdgeMap, NEW id \in EdgeIds, Present(m, id)
    PROVE  m[id] \in Edge
BY DEF EdgeMap, Present

LEMMA InitShape == Init => ShapeInv
<1> SUFFICES ASSUME Init PROVE ShapeInv
  OBVIOUS
<1>1. TypeOK
  <2>1. behind \subseteq EdgeIds \X EdgeIds /\ crashes \in 0 .. MaxCrashes
    BY TimeAssumption DEF Init, Times
  <2>2. edges \in EdgeMap /\ diskEdges \in EdgeMap /\ outIdx \in Index /\ inIdx \in Index
    BY DEF Init, NoEdges, NoEntries, EdgeMap, Index
  <2>3. \A p \in Procs : pc[p] = "idle"
    BY DEF Init, Idle
  <2> QED
    BY <2>1, <2>2, <2>3 DEF Init, TypeOK, Idle, Busy
<1>2. OneShape /\ Known
  BY DEF Init, OneShape, Known, Occurs, NoEdges, Present, Idle, Busy
<1>3. IndexExact
  BY DEF Init, IndexExact, NoEdges, NoEntries, Present
<1> QED
  BY <1>1, <1>2, <1>3 DEF ShapeInv

\* An action that introduces no new shape keeps OneShape.
LEMMA ShapesKept ==
    ASSUME OneShape,
           \A id \in EdgeIds : \A e \in Edge :
               Occurs(id, e)' => \E f \in Edge : Occurs(id, f) /\ SameShape(e, f)
    PROVE  OneShape'
BY DEF OneShape, SameShape

-----------------------------------------------------------------------------
(* Loading                                                                 *)

LEMMA LoadReadShape ==
    ASSUME ShapeInv, NEW p \in Procs, LoadRead(p)
    PROVE  ShapeInv'
<1>1. TypeOK'
  BY DEF ShapeInv, TypeOK, LoadRead, Snapshot, memory, disk, Idle, Busy
<1>2. ASSUME NEW id \in EdgeIds, NEW e \in Edge, Occurs(id, e)' PROVE Occurs(id, e)
  BY <1>2 DEF ShapeInv, TypeOK, LoadRead, memory, disk, Occurs, Busy, Idle, Present
<1>3. OneShape'
  BY <1>2, ShapesKept DEF ShapeInv, SameShape
<1>4. Known'
  BY DEF ShapeInv, TypeOK, LoadRead, memory, disk, Known, Busy, Idle, Present
<1>5. IndexExact'
  BY DEF ShapeInv, LoadRead, memory, IndexExact, Present
<1> QED
  BY <1>1, <1>3, <1>4, <1>5 DEF ShapeInv

LEMMA LoadApplyShape ==
    ASSUME ShapeInv, NEW p \in Procs, LoadApply(p)
    PROVE  ShapeInv'
<1> DEFINE m == snapshot[p].edges
<1>1. /\ m \in EdgeMap /\ edges \in EdgeMap
      /\ snapshot[p].nodes \in SUBSET Nodes
      /\ edges' = [id \in EdgeIds |-> IF Present(m, id) THEN m[id] ELSE edges[id]]
  BY DEF ShapeInv, TypeOK, LoadApply, Snapshot
<1>2. TypeOK'
  BY <1>1 DEF ShapeInv, TypeOK, LoadApply, EdgeMap, Index, disk, Busy, Present, Idle
<1>3. ASSUME NEW id \in EdgeIds, NEW e \in Edge, Occurs(id, e)' PROVE Occurs(id, e)
  BY <1>1, <1>3 DEF ShapeInv, TypeOK, LoadApply, disk, Occurs, Busy, Present, Idle
<1>4. OneShape'
  BY <1>3, ShapesKept DEF ShapeInv, SameShape
<1>5. Known'
  BY <1>1 DEF ShapeInv, TypeOK, LoadApply, disk, Known, Busy, Present, Entry, Idle
<1>6. IndexExact'
  <2> SUFFICES ASSUME NEW id \in EdgeIds, NEW n \in Nodes
               PROVE  /\ id \in outIdx'[n] <=> Present(edges', id) /\ edges'[id].from = n
                      /\ id \in inIdx'[n] <=> Present(edges', id) /\ edges'[id].to = n
    BY DEF IndexExact
  <2>1. /\ id \in outIdx'[n] <=> id \in outIdx[n] \/ (Present(m, id) /\ m[id].from = n)
        /\ id \in inIdx'[n] <=> id \in inIdx[n] \/ (Present(m, id) /\ m[id].to = n)
    BY DEF LoadApply
  <2>2. Present(m, id) /\ Present(edges, id) => SameShape(m[id], edges[id])
    BY <1>1, EdgeTypes DEF ShapeInv, OneShape, Occurs, LoadApply
  <2>3. /\ id \in outIdx[n] <=> Present(edges, id) /\ edges[id].from = n
        /\ id \in inIdx[n] <=> Present(edges, id) /\ edges[id].to = n
    BY DEF ShapeInv, IndexExact
  <2> QED
    BY <1>1, <2>1, <2>2, <2>3 DEF Present, SameShape
<1> QED
  BY <1>2, <1>4, <1>5, <1>6 DEF ShapeInv

-----------------------------------------------------------------------------
(* What edges.set and indexEdge do to the maps                             *)

\* Overwriting an edge by one of its own shape.
LEMMA OverwriteKeeps ==
    ASSUME ShapeInv, NEW ent \in Entry, Overwrite(ent), Present(edges, ent.id),
           SameShape(ent.edge, edges[ent.id])
    PROVE  /\ edges' \in EdgeMap /\ IndexExact'
           /\ outIdx' \in Index /\ inIdx' \in Index
           /\ \A id \in EdgeIds : edges'[id] = IF id = ent.id THEN ent.edge ELSE edges[id]
           /\ Present(edges', ent.id)
<1>1. ent.id \in EdgeIds /\ ent.edge \in Edge /\ ent.edge # NoEdge
  BY NoEdgeAssumption DEF Entry
<1>2. /\ edges' \in EdgeMap
      /\ \A id \in EdgeIds : edges'[id] = IF id = ent.id THEN ent.edge ELSE edges[id]
  BY <1>1 DEF ShapeInv, TypeOK, EdgeMap, Overwrite
<1> QED
  BY <1>1, <1>2 DEF ShapeInv, TypeOK, IndexExact, Overwrite, Present, SameShape

\* Inserting an edge, of its own shape if its id is taken.
LEMMA InsertKeeps ==
    ASSUME ShapeInv, NEW ent \in Entry, Insert(ent),
           Present(edges, ent.id) => SameShape(ent.edge, edges[ent.id])
    PROVE  /\ edges' \in EdgeMap /\ IndexExact'
           /\ outIdx' \in Index /\ inIdx' \in Index
           /\ \A id \in EdgeIds : edges'[id] = IF id = ent.id THEN ent.edge ELSE edges[id]
           /\ Present(edges', ent.id)
<1>1. ent.id \in EdgeIds /\ ent.edge \in Edge /\ ent.edge # NoEdge
  BY NoEdgeAssumption DEF Entry
<1>2. /\ edges' \in EdgeMap
      /\ \A id \in EdgeIds : edges'[id] = IF id = ent.id THEN ent.edge ELSE edges[id]
  BY <1>1 DEF ShapeInv, TypeOK, EdgeMap, Insert
<1>3. ent.edge.from \in Nodes /\ ent.edge.to \in Nodes
  BY <1>1 DEF Edge
<1>4. /\ outIdx' \in Index /\ inIdx' \in Index
      /\ \A n \in Nodes :
            /\ outIdx'[n] = IF n = ent.edge.from THEN outIdx[n] \union {ent.id} ELSE outIdx[n]
            /\ inIdx'[n] = IF n = ent.edge.to THEN inIdx[n] \union {ent.id} ELSE inIdx[n]
  BY <1>1, <1>3 DEF ShapeInv, TypeOK, Index, Insert, Indexed
<1>5. IndexExact'
  <2> SUFFICES ASSUME NEW id \in EdgeIds, NEW n \in Nodes
               PROVE  /\ id \in outIdx'[n] <=> Present(edges', id) /\ edges'[id].from = n
                      /\ id \in inIdx'[n] <=> Present(edges', id) /\ edges'[id].to = n
    BY DEF IndexExact
  <2>1. /\ id \in outIdx[n] <=> Present(edges, id) /\ edges[id].from = n
        /\ id \in inIdx[n] <=> Present(edges, id) /\ edges[id].to = n
    BY DEF ShapeInv, IndexExact
  <2>2. CASE id # ent.id
    <3>1. edges'[id] = edges[id] /\ (Present(edges', id) <=> Present(edges, id))
      BY <1>2, <2>2 DEF Present
    <3>2. (id \in outIdx'[n] <=> id \in outIdx[n]) /\ (id \in inIdx'[n] <=> id \in inIdx[n])
      BY <1>4, <2>2
    <3> QED
      BY <2>1, <3>1, <3>2
  <2>3. CASE id = ent.id
    <3>1. edges'[id] = ent.edge /\ Present(edges', id)
      BY <1>1, <1>2, <2>3 DEF Present
    <3>2. CASE Present(edges, id)
      BY <1>4, <2>1, <2>3, <3>1, <3>2 DEF SameShape
    <3>3. CASE ~Present(edges, id)
      BY <1>4, <2>1, <2>3, <3>1, <3>3
    <3> QED
      BY <3>2, <3>3
  <2> QED
    BY <2>2, <2>3
<1> QED
  BY <1>1, <1>2, <1>4, <1>5 DEF Present

\* A retired edge has the shape it had.
LEMMA RetiredShape ==
    ASSUME NEW v \in Entry, NEW new \in Entry
    PROVE  /\ Retired(v, new) \in Entry
           /\ Retired(v, new).id = v.id
           /\ SameShape(Retired(v, new).edge, v.edge)
           /\ Retired(v, new).edge.validTo = new.edge.validFrom
BY DEF Retired, Entry, Edge, SameShape

\* A fresh id occurs nowhere.
LEMMA FreshOccursNowhere ==
    ASSUME ShapeInv, NEW id \in EdgeIds, Fresh(id), NEW e \in Edge, Occurs(id, e)
    PROVE  FALSE
<1>1. ~Present(edges, id) /\ ~Present(diskEdges, id)
  BY DEF Fresh
<1>2. \A p \in Procs : Busy(p) => /\ newEdge[p].id # id
                                  /\ pending[p].id # id
                                  /\ \A v \in todo[p] : v.id # id
  BY <1>1 DEF Fresh, ShapeInv, Known
<1>3. \A p \in Procs : pc[p] = "loading" => ~Present(snapshot[p].edges, id)
  BY <1>1 DEF ShapeInv, Known
<1> QED
  BY <1>1, <1>2, <1>3 DEF Occurs

-----------------------------------------------------------------------------
(* Operations                                                              *)

\* edges.set(ent) by an operation that will end with new and has rest to retire:
\* the start of addEdge and retractEdge, and each round of addEdge's loop.
LEMMA SetShape ==
    ASSUME ShapeInv, NEW p \in Procs, NEW ent \in Entry, NEW new \in Entry,
           NEW rest \in SUBSET Entry,
           (Overwrite(ent) /\ Present(edges, ent.id)) \/ Insert(ent),
           \A f \in Edge : Occurs(ent.id, f) => SameShape(ent.edge, f),
           \A f \in Edge : Occurs(new.id, f) => SameShape(new.edge, f),
           ent.id = new.id => SameShape(ent.edge, new.edge),
           \A v \in rest : Present(edges, v.id) /\ Occurs(v.id, v.edge),
           pending' = [pending EXCEPT ![p] = ent],
           todo' = [todo EXCEPT ![p] = rest],
           newEdge' = [newEdge EXCEPT ![p] = new],
           pc' = [pc EXCEPT ![p] = "flush"],
           behind' \subseteq EdgeIds \X EdgeIds,
           UNCHANGED <<nodes, loaded, disk, snapshot, crashes>>
    PROVE  ShapeInv'
<1> USE DEF disk
<1>0. TypeOK /\ OneShape /\ Known /\ IndexExact
  BY DEF ShapeInv
<1>1. ent.id \in EdgeIds /\ ent.edge \in Edge /\ new.id \in EdgeIds /\ new.edge \in Edge
  BY DEF Entry
<1>2. Present(edges, ent.id) => SameShape(ent.edge, edges[ent.id])
  BY <1>0, <1>1, EdgeTypes DEF Occurs, TypeOK
<1>3. /\ edges' \in EdgeMap /\ IndexExact'
      /\ outIdx' \in Index /\ inIdx' \in Index
      /\ \A id \in EdgeIds : edges'[id] = IF id = ent.id THEN ent.edge ELSE edges[id]
      /\ Present(edges', ent.id)
  BY <1>2, OverwriteKeeps, InsertKeeps
<1>4. TypeOK'
  BY <1>0, <1>3 DEF TypeOK, Busy
<1>5. Known'
  <2>1. \A id \in EdgeIds : Present(edges, id) => Present(edges', id)
    BY <1>3 DEF Present
  <2>2. \A v \in rest : v.id \in EdgeIds
    BY DEF Entry
  <2>3. \A q \in Procs : Busy(q) => pending[q].id \in EdgeIds /\ \A v \in todo[q] : v.id \in EdgeIds
    BY <1>0 DEF TypeOK, Entry
  <2> QED
    BY <1>0, <1>3, <2>1, <2>2, <2>3 DEF TypeOK, Known, Busy, Present
<1>6. ASSUME NEW id \in EdgeIds, NEW e \in Edge, Occurs(id, e)'
      PROVE  Occurs(id, e) \/ (id = ent.id /\ e = ent.edge) \/ (id = new.id /\ e = new.edge)
  <2>1. CASE Present(edges', id) /\ e = edges'[id]
    BY <1>3, <2>1 DEF Occurs, Present
  <2>2. CASE Present(diskEdges', id) /\ e = diskEdges'[id]
    BY <2>2 DEF Occurs, Present
  <2>3. CASE \E q \in Procs : /\ pc'[q] = "loading"
                              /\ Present(snapshot'[q].edges, id)
                              /\ e = snapshot'[q].edges[id]
    BY <1>0, <2>3 DEF Occurs, Present, TypeOK
  <2>4. ASSUME NEW q \in Procs, Busy(q)',
               [id |-> id, edge |-> e] \in todo'[q] \union {pending'[q], newEdge'[q]}
        PROVE  Occurs(id, e) \/ (id = ent.id /\ e = ent.edge) \/ (id = new.id /\ e = new.edge)
    <3>1. CASE q # p
      BY <1>0, <2>4, <3>1 DEF Occurs, TypeOK, Busy
    <3>2. CASE q = p
      <4>1. [id |-> id, edge |-> e] \in rest \union {ent, new}
        BY <1>0, <2>4, <3>2 DEF TypeOK
      <4>2. CASE [id |-> id, edge |-> e] \in rest
        BY <4>2 DEF Occurs
      <4>3. CASE [id |-> id, edge |-> e] \in {ent, new}
        BY <4>3
      <4> QED
        BY <4>1, <4>2, <4>3
    <3> QED
      BY <3>1, <3>2
  <2>5. \/ Present(edges', id) /\ e = edges'[id]
        \/ Present(diskEdges', id) /\ e = diskEdges'[id]
        \/ \E q \in Procs : /\ pc'[q] = "loading"
                            /\ Present(snapshot'[q].edges, id)
                            /\ e = snapshot'[q].edges[id]
        \/ \E q \in Procs : /\ Busy(q)'
                            /\ [id |-> id, edge |-> e] \in todo'[q] \union {pending'[q], newEdge'[q]}
    BY <1>6 DEF Occurs, Present
  <2> QED
    BY <2>1, <2>2, <2>3, <2>4, <2>5
<1>7. OneShape'
  BY <1>0, <1>1, <1>6 DEF OneShape, SameShape
<1> QED
  BY <1>3, <1>4, <1>5, <1>7 DEF ShapeInv

\* What addEdge is about to retire is in memory.
LEMMA VictimsOccur ==
    ASSUME ShapeInv, NEW new \in Entry
    PROVE  /\ Victims(new) \in SUBSET Entry
           /\ \A v \in Victims(new) : /\ Present(edges, v.id) /\ v.edge = edges[v.id]
                                     /\ v.edge.validTo = Forever
                                     /\ Key(v.edge) = Key(new.edge)
                                     /\ v.id # new.id
<1>1. new.edge.from \in Nodes
  BY DEF Entry, Edge
<1>2. ASSUME NEW i \in outIdx[new.edge.from]
      PROVE  /\ i \in EdgeIds /\ Present(edges, i)
             /\ edges[i] \in Edge /\ edges[i].from = new.edge.from
  <2>1. i \in EdgeIds
    BY <1>1, <1>2 DEF ShapeInv, TypeOK, Index
  <2>2. Present(edges, i) /\ edges[i].from = new.edge.from
    BY <1>1, <1>2, <2>1 DEF ShapeInv, IndexExact
  <2> QED
    BY <2>1, <2>2, EdgeTypes DEF ShapeInv, TypeOK
<1> QED
  BY <1>2 DEF Victims, Entry, Key

\* One round of addEdge's loop keeps the invariant.
LEMMA LoopShape ==
    ASSUME ShapeInv, NEW p \in Procs, NEW victims \in SUBSET Entry, NEW new \in Entry,
           \A v \in victims : Present(edges, v.id) /\ Occurs(v.id, v.edge),
           \A f \in Edge : Occurs(new.id, f) => SameShape(new.edge, f),
           RetireOrInsert(p, victims, new),
           newEdge' = [newEdge EXCEPT ![p] = new],
           pc' = [pc EXCEPT ![p] = "flush"],
           behind' \subseteq EdgeIds \X EdgeIds,
           UNCHANGED <<nodes, loaded, disk, snapshot, crashes>>
    PROVE  ShapeInv'
<1>1. ASSUME NEW v \in victims, Overwrite(Retired(v, new)),
             pending' = [pending EXCEPT ![p] = Retired(v, new)],
             todo' = [todo EXCEPT ![p] = victims \ {v}]
      PROVE  ShapeInv'
  <2>1. /\ Retired(v, new) \in Entry /\ Retired(v, new).id = v.id
        /\ SameShape(Retired(v, new).edge, v.edge)
    BY RetiredShape
  <2>2. v.id \in EdgeIds /\ v.edge \in Edge
    BY DEF Entry
  <2>3. \A f \in Edge : Occurs(v.id, f) => SameShape(v.edge, f)
    BY <2>2 DEF ShapeInv, OneShape
  <2>4. \A f \in Edge : Occurs(Retired(v, new).id, f) => SameShape(Retired(v, new).edge, f)
    BY <2>1, <2>3 DEF SameShape
  <2>5. victims \ {v} \in SUBSET Entry
    OBVIOUS
  <2>6. v.id = new.id => SameShape(Retired(v, new).edge, new.edge)
    BY <2>1, <2>2 DEF SameShape
  <2> QED
    BY <1>1, <2>1, <2>4, <2>5, <2>6, SetShape
<1>2. ASSUME Insert(new), pending' = [pending EXCEPT ![p] = new], todo' = [todo EXCEPT ![p] = {}]
      PROVE  ShapeInv'
  <2>1. {} \in SUBSET Entry /\ SameShape(new.edge, new.edge)
    BY DEF SameShape
  <2> QED
    BY <1>2, <2>1, SetShape
<1> QED
  BY <1>1, <1>2 DEF RetireOrInsert

LEMMA AddEdgeShape ==
    ASSUME ShapeInv, NEW p \in Procs, NEW id \in EdgeIds, NEW from \in Nodes, NEW to \in Nodes,
           NEW rel \in Rels, NEW validFrom \in Times, NEW supersede \in BOOLEAN,
           AddEdge(p, id, from, to, rel, validFrom, supersede)
    PROVE  ShapeInv'
<1> DEFINE new == [id |-> id, edge |->
                     [from |-> from, to |-> to, rel |-> rel, validFrom |-> validFrom,
                      validTo |-> Forever, supersededBy |-> NoId]]
           victims == IF supersede THEN Victims(new) ELSE {}
<1>1. new \in Entry
  BY DEF ShapeInv, TypeOK, Entry, Edge
<1>2. /\ RetireOrInsert(p, victims, new)
      /\ newEdge' = [newEdge EXCEPT ![p] = new]
      /\ pc' = [pc EXCEPT ![p] = "flush"]
      /\ behind' = behind \union {<<id, i>> : i \in EndsAfterStart(new)}
      /\ UNCHANGED <<nodes, loaded, disk, snapshot, crashes>>
      /\ Fresh(id)
  BY DEF AddEdge
<1>3. \A f \in Edge : ~Occurs(new.id, f)
  BY <1>2, FreshOccursNowhere
<1>4. victims \in SUBSET Entry
  BY <1>1, VictimsOccur
<1>5. \A v \in victims : Present(edges, v.id) /\ Occurs(v.id, v.edge)
  BY <1>1, VictimsOccur DEF Occurs
<1>6. behind' \subseteq EdgeIds \X EdgeIds
  BY <1>2 DEF ShapeInv, TypeOK, EndsAfterStart
<1> HIDE DEF new, victims
<1> QED
  BY <1>1, <1>2, <1>3, <1>4, <1>5, <1>6, LoopShape

LEMMA ResumeShape ==
    ASSUME ShapeInv, NEW p \in Procs, Resume(p)
    PROVE  ShapeInv'
<1>1. ASSUME Return(p), UNCHANGED <<memory, disk, snapshot, behind, crashes>> PROVE ShapeInv'
  <2>1. TypeOK'
    BY <1>1 DEF ShapeInv, TypeOK, Return, memory, disk, Idle, Busy
  <2>2. ASSUME NEW id \in EdgeIds, NEW e \in Edge, Occurs(id, e)' PROVE Occurs(id, e)
    BY <1>1, <2>2 DEF ShapeInv, TypeOK, Return, memory, disk, Occurs, Busy, Idle, Present
  <2>3. OneShape'
    BY <2>2, ShapesKept DEF ShapeInv, SameShape
  <2>4. Known'
    BY <1>1 DEF ShapeInv, TypeOK, Return, memory, disk, Known, Busy, Idle, Present
  <2>5. IndexExact'
    BY <1>1 DEF ShapeInv, memory, IndexExact, Present
  <2> QED
    BY <2>1, <2>3, <2>4, <2>5 DEF ShapeInv
<1>2. ASSUME pending[p].id # newEdge[p].id, RetireOrInsert(p, todo[p], newEdge[p]),
             pc[p] = "flushed", pc' = [pc EXCEPT ![p] = "flush"],
             UNCHANGED <<nodes, loaded, newEdge, disk, snapshot, behind, crashes>>
      PROVE  ShapeInv'
  <2>1. /\ newEdge[p] \in Entry /\ todo[p] \in SUBSET Entry
        /\ newEdge' = [newEdge EXCEPT ![p] = newEdge[p]]
    BY <1>2 DEF ShapeInv, TypeOK, Busy
  <2>2. newEdge[p].id \in EdgeIds /\ newEdge[p].edge \in Edge
    BY <2>1 DEF Entry
  <2>3. Occurs(newEdge[p].id, newEdge[p].edge)
    BY <1>2, <2>1 DEF Occurs, Busy, Entry
  <2>4. \A f \in Edge : Occurs(newEdge[p].id, f) => SameShape(newEdge[p].edge, f)
    BY <2>2, <2>3 DEF ShapeInv, OneShape
  <2>5. \A v \in todo[p] : Present(edges, v.id) /\ Occurs(v.id, v.edge)
    BY <1>2, <2>1 DEF ShapeInv, Known, Occurs, Busy, Entry
  <2>6. behind' \subseteq EdgeIds \X EdgeIds
    BY <1>2 DEF ShapeInv, TypeOK
  <2> QED
    BY <1>2, <2>1, <2>4, <2>5, <2>6, LoopShape
<1> QED
  BY <1>1, <1>2 DEF Resume

LEMMA RetractShape ==
    ASSUME ShapeInv, NEW p \in Procs, NEW id \in EdgeIds, NEW at \in Times, Retract(p, id, at)
    PROVE  ShapeInv'
<1> DEFINE ent == [id |-> id, edge |-> [edges[id] EXCEPT !.validTo = at]]
<1>1. /\ Present(edges, id) /\ Overwrite(ent)
      /\ pending' = [pending EXCEPT ![p] = ent]
      /\ newEdge' = [newEdge EXCEPT ![p] = ent]
      /\ todo' = [todo EXCEPT ![p] = {}]
      /\ pc' = [pc EXCEPT ![p] = "flush"]
      /\ UNCHANGED <<nodes, loaded, disk, snapshot, behind, crashes>>
  BY DEF Retract, Valid, Present
<1>2. edges[id] \in Edge /\ Occurs(id, edges[id])
  BY <1>1, EdgeTypes DEF ShapeInv, TypeOK, Occurs
<1>3. ent \in Entry /\ SameShape(ent.edge, edges[id])
  BY <1>2 DEF ShapeInv, TypeOK, Entry, Edge, SameShape
<1>4. \A f \in Edge : Occurs(ent.id, f) => SameShape(ent.edge, f)
  BY <1>2, <1>3 DEF ShapeInv, OneShape, SameShape
<1>5. {} \in SUBSET Entry /\ SameShape(ent.edge, ent.edge) /\ Present(edges, ent.id)
  BY <1>1 DEF SameShape
<1>6. behind' \subseteq EdgeIds \X EdgeIds
  BY <1>1 DEF ShapeInv, TypeOK
<1> HIDE DEF ent
<1> QED
  BY <1>1, <1>3, <1>4, <1>5, <1>6, SetShape

LEMMA NodeShape ==
    ASSUME ShapeInv, NEW p \in Procs,
           (\E n \in Nodes : AddNode(p, n)) \/ FlushNode(p)
    PROVE  ShapeInv'
<1>1. /\ UNCHANGED <<edges, outIdx, inIdx, diskEdges, snapshot>>
      /\ pc[p] \in {"idle", "node"} /\ pc'[p] \in {"idle", "node"}
      /\ \A q \in Procs \ {p} : /\ pc'[q] = pc[q] /\ pending'[q] = pending[q]
                                /\ todo'[q] = todo[q] /\ newEdge'[q] = newEdge[q]
  BY DEF ShapeInv, TypeOK, AddNode, FlushNode, Return, CanStart, memory, disk, Idle
<1>2. TypeOK'
  BY DEF ShapeInv, TypeOK, AddNode, FlushNode, Return, CanStart, memory, disk, Idle, Busy, NodeEvent
<1>3. ASSUME NEW id \in EdgeIds, NEW e \in Edge, Occurs(id, e)' PROVE Occurs(id, e)
  BY <1>1, <1>3 DEF Occurs, Busy, Present
<1>4. OneShape'
  BY <1>3, ShapesKept DEF ShapeInv, SameShape
<1>5. Known'
  BY <1>1 DEF ShapeInv, Known, Busy, Present
<1>6. IndexExact'
  BY <1>1 DEF ShapeInv, IndexExact, Present
<1> QED
  BY <1>2, <1>4, <1>5, <1>6 DEF ShapeInv

LEMMA FlushShape ==
    ASSUME ShapeInv, NEW p \in Procs, Flush(p)
    PROVE  ShapeInv'
<1>1. /\ pending[p] \in Entry /\ pc[p] = "flush" /\ Busy(p)
      /\ pending[p].id \in EdgeIds /\ pending[p].edge \in Edge /\ pending[p].edge # NoEdge
      /\ pending[p] = [id |-> pending[p].id, edge |-> pending[p].edge]
  BY NoEdgeAssumption DEF ShapeInv, TypeOK, Flush, Busy, Entry
<1>2. /\ diskEdges' \in EdgeMap
      /\ \A id \in EdgeIds : diskEdges'[id] = IF id = pending[p].id THEN pending[p].edge ELSE diskEdges[id]
  BY <1>1 DEF ShapeInv, TypeOK, Flush, EdgeMap
<1>3. TypeOK'
  BY <1>2 DEF ShapeInv, TypeOK, Flush, memory, Busy
<1>4. \A q \in Procs : (Busy(q)' <=> Busy(q)) /\ (pc'[q] = "loading" <=> pc[q] = "loading")
  BY <1>1 DEF ShapeInv, TypeOK, Flush, Busy
<1>5. ASSUME NEW id \in EdgeIds, NEW e \in Edge, Occurs(id, e)' PROVE Occurs(id, e)
  <2>1. CASE id = pending[p].id /\ e = pending[p].edge
    BY <1>1, <2>1 DEF Occurs
  <2>2. CASE ~(id = pending[p].id /\ e = pending[p].edge)
    BY <1>2, <1>4, <1>5, <2>2 DEF Occurs, Flush, memory, Present
  <2> QED
    BY <2>1, <2>2
<1>6. OneShape'
  BY <1>5, ShapesKept DEF ShapeInv, SameShape
<1>7. Known'
  BY <1>1, <1>2, <1>4 DEF ShapeInv, Known, Flush, memory, Present
<1>8. IndexExact'
  BY DEF ShapeInv, IndexExact, Flush, memory, Present
<1> QED
  BY <1>3, <1>6, <1>7, <1>8 DEF ShapeInv

LEMMA EnvironmentShape ==
    ASSUME ShapeInv, Crash \/ UNCHANGED vars
    PROVE  ShapeInv'
<1>1. CASE UNCHANGED vars
  <2>1. UNCHANGED <<memory, disk, control, behind, crashes>>
    BY <1>1 DEF vars
  <2>2. TypeOK'
    BY <2>1 DEF ShapeInv, TypeOK, memory, disk, control, Busy
  <2>3. OneShape' /\ Known' /\ IndexExact'
    BY <2>1 DEF ShapeInv, OneShape, Known, IndexExact, Occurs, memory, disk, control, Busy, Present
  <2> QED
    BY <2>2, <2>3 DEF ShapeInv
<1>2. CASE Crash
  <2>1. /\ edges' = NoEdges /\ outIdx' = NoEntries /\ inIdx' = NoEntries
        /\ diskEdges' = diskEdges
        /\ \A p \in Procs : pc'[p] = "idle"
    BY <1>2 DEF Crash, disk, Idle
  <2>2. TypeOK'
    <3>1. edges' \in EdgeMap /\ outIdx' \in Index /\ inIdx' \in Index
      BY <2>1 DEF NoEdges, NoEntries, EdgeMap, Index
    <3>2. crashes' \in 0 .. MaxCrashes
      BY <1>2, TimeAssumption DEF ShapeInv, TypeOK, Crash
    <3> QED
      BY <1>2, <2>1, <3>1, <3>2 DEF ShapeInv, TypeOK, Crash, disk, Idle, Busy
  <2>3. Known'
    BY <2>1 DEF Known, Busy
  <2>4. IndexExact'
    BY <2>1 DEF IndexExact, NoEdges, NoEntries, Present
  <2>5. ASSUME NEW id \in EdgeIds, NEW e \in Edge, Occurs(id, e)' PROVE Occurs(id, e)
    BY <2>1, <2>5 DEF Occurs, NoEdges, Busy, Present
  <2>6. OneShape'
    BY <2>5, ShapesKept DEF ShapeInv, SameShape
  <2> QED
    BY <2>2, <2>3, <2>4, <2>6 DEF ShapeInv
<1> QED
  BY <1>1, <1>2

LEMMA StepShape == ShapeInv /\ [Next]_vars => ShapeInv'
<1> SUFFICES ASSUME ShapeInv, [Next]_vars PROVE ShapeInv'
  OBVIOUS
<1>1. ASSUME NEW p \in Procs, Start(p) PROVE ShapeInv'
  BY <1>1, SubjectsAssumption, LoadReadShape, NodeShape, AddEdgeShape, RetractShape DEF Start
<1>2. ASSUME NEW p \in Procs, Step(p) PROVE ShapeInv'
  BY <1>2, LoadApplyShape, NodeShape, FlushShape, ResumeShape DEF Step
<1> QED
  BY <1>1, <1>2, EnvironmentShape DEF Next

LEMMA GraphShapes == Spec => []ShapeInv
BY InitShape, StepShape, PTL DEF Spec

\* Every variable keeps its type.
THEOREM GraphTypeOK == Spec => []TypeOK
<1>1. ShapeInv => TypeOK
  BY DEF ShapeInv
<1> QED
  BY <1>1, GraphShapes, PTL

\* The two indexes name exactly the edges that memory holds, whatever loads,
\* operations and crashes overlap.
THEOREM GraphIndexExact == Spec => []IndexExact
<1>1. ShapeInv => IndexExact
  BY DEF ShapeInv
<1> QED
  BY <1>1, GraphShapes, PTL

-----------------------------------------------------------------------------
(* Part 2, under SerialSpec: the inductive invariant                       *)

\* Nothing is in memory, and nothing under way, before the only load.
LoadFirst ==
    /\ ~loaded => /\ edges = NoEdges /\ nodes = {}
                  /\ \A p \in Procs : pc[p] \in {"idle", "loading"}
    /\ \A p \in Procs : pc[p] = "loading" =>
          /\ ~loaded
          /\ snapshot[p].nodes = diskNodes /\ snapshot[p].edges = diskEdges
          /\ \A q \in Procs \ {p} : pc[q] = "idle"

\* Operations under way are on different subjects and relations.
Apart ==
    \A p, q \in Procs :
        p # q /\ Busy(p) /\ Busy(q) => Key(newEdge[p].edge) # Key(newEdge[q].edge)

\* An operation keeps to its subject and relation; the edges it has still to
\* retire are as it copied them, and the one it adds does not exist yet.
Round ==
    \A p \in Procs : Busy(p) =>
        /\ Key(pending[p].edge) = Key(newEdge[p].edge)
        /\ \A v \in todo[p] : /\ Key(v.edge) = Key(newEdge[p].edge)
                              /\ edges[v.id] = v.edge
                              /\ v.edge.validTo = Forever
                              /\ v.id # pending[p].id
        /\ pending[p].id # newEdge[p].id =>
              ~Present(edges, newEdge[p].id) /\ ~Present(diskEdges, newEdge[p].id)

\* The file lacks exactly the events being appended, each of which adds or
\* retires an edge.
Mirror ==
    /\ \A p \in Procs : pc[p] = "flush" =>
          /\ edges[pending[p].id] = pending[p].edge
          /\ Present(diskEdges, pending[p].id) => Valid(diskEdges, pending[p].id)
    /\ MemoryMatchesFile

\* A superseding operation has retired the old value before it adds the new.
KeyCleared ==
    \A p \in Procs :
        Busy(p) /\ pending[p].id # newEdge[p].id /\ newEdge[p].edge.rel \in SingleRels =>
            /\ todo[p] = {}
            /\ \A id \in EdgeIds : Valid(edges, id) => Key(edges[id]) # Key(newEdge[p].edge)

\* Nodes are in the file, or on their way, and no edge starts before they are.
NodesKept ==
    loaded => \A n \in nodes :
        n \in diskNodes \/ \E p \in Procs : pc[p] = "node" /\ pending[p].node = n

EndpointsKept ==
    /\ \A id \in EdgeIds : Present(edges, id) => {edges[id].from, edges[id].to} \subseteq diskNodes
    /\ \A p \in Procs : Busy(p) => {newEdge[p].edge.from, newEdge[p].edge.to} \subseteq diskNodes

SerialInv ==
    /\ LoadFirst /\ Apart /\ Round /\ Mirror /\ KeyCleared
    /\ SingleValued
    /\ NodesKept /\ EndpointsKept /\ EndpointsDurable

LEMMA InitSerial == Init => SerialInv
<1> SUFFICES ASSUME Init PROVE SerialInv
  OBVIOUS
<1>1. \A p \in Procs : pc[p] = "idle" /\ ~Busy(p)
  BY DEF Init, Idle, Busy
<1>2. \A id \in EdgeIds : ~Present(edges, id) /\ ~Present(diskEdges, id)
  BY DEF Init, NoEdges, Present
<1>3. LoadFirst
  BY <1>1 DEF Init, LoadFirst
<1>4. Apart /\ Round /\ Mirror /\ KeyCleared
  BY <1>1 DEF Init, Apart, Round, Mirror, MemoryMatchesFile, KeyCleared
<1>5. SingleValued
  BY <1>2 DEF SingleValued, OneValid, Valid, Present
<1>6. NodesKept /\ EndpointsKept /\ EndpointsDurable
  BY <1>1, <1>2 DEF Init, NodesKept, EndpointsKept, EndpointsDurable
<1> QED
  BY <1>3, <1>4, <1>5, <1>6 DEF SerialInv

-----------------------------------------------------------------------------
(* Loading, nodes, appending                                               *)

LEMMA LoadReadSerial ==
    ASSUME ShapeInv, SerialInv, NEW p \in Procs, LoadAlone(p), LoadRead(p)
    PROVE  SerialInv'
<1>1. /\ UNCHANGED <<nodes, edges, loaded, diskNodes, diskEdges, pending, todo, newEdge>>
      /\ ~loaded /\ pc[p] = "idle" /\ pc'[p] = "loading"
      /\ \A q \in Procs \ {p} : pc[q] = "idle" /\ pc'[q] = "idle"
      /\ snapshot'[p].nodes = diskNodes /\ snapshot'[p].edges = diskEdges
  BY DEF ShapeInv, TypeOK, LoadAlone, LoadRead, memory, disk, Idle
<1>2. \A q \in Procs : ~Busy(q)' /\ pc'[q] # "node"
  BY <1>1 DEF Busy
<1>3. LoadFirst'
  BY <1>1 DEF SerialInv, LoadFirst
<1>4. Apart' /\ Round' /\ Mirror' /\ KeyCleared'
  BY <1>1, <1>2 DEF Apart, Round, Mirror, MemoryMatchesFile, KeyCleared, Busy
<1>5. SingleValued' /\ NodesKept' /\ EndpointsKept' /\ EndpointsDurable'
  BY <1>1, <1>2 DEF SerialInv, SingleValued, OneValid, Valid, Present, NodesKept, EndpointsKept,
                    EndpointsDurable
<1> QED
  BY <1>3, <1>4, <1>5 DEF SerialInv

LEMMA LoadApplySerial ==
    ASSUME ShapeInv, SerialInv, NEW p \in Procs, LoadApply(p)
    PROVE  SerialInv'
<1>1. /\ UNCHANGED <<diskNodes, diskEdges>>
      /\ pc[p] = "loading" /\ pc'[p] = "idle" /\ loaded' = TRUE
      /\ \A q \in Procs \ {p} : pc[q] = "idle" /\ pc'[q] = "idle"
      /\ edges = NoEdges /\ nodes' = diskNodes
      /\ snapshot[p].edges = diskEdges
  BY DEF ShapeInv, TypeOK, SerialInv, LoadFirst, LoadApply, disk, Idle
<1>2. edges' = diskEdges
  BY <1>1 DEF ShapeInv, TypeOK, EdgeMap, LoadApply, NoEdges, Present
<1>3. \A q \in Procs : ~Busy(q)' /\ pc'[q] \notin {"node", "loading"}
  BY <1>1 DEF Busy
<1>4. LoadFirst'
  BY <1>1, <1>3 DEF LoadFirst
<1>5. Apart' /\ Round' /\ Mirror' /\ KeyCleared'
  BY <1>1, <1>2, <1>3 DEF Apart, Round, Mirror, MemoryMatchesFile, KeyCleared, Busy
<1>6. SingleValued' /\ NodesKept' /\ EndpointsKept' /\ EndpointsDurable'
  BY <1>1, <1>2, <1>3 DEF SerialInv, SingleValued, OneValid, Valid, Present, NodesKept,
                          EndpointsKept, EndpointsDurable
<1> QED
  BY <1>4, <1>5, <1>6 DEF SerialInv

LEMMA NodeSerial ==
    ASSUME ShapeInv, SerialInv, NEW p \in Procs,
           (\E n \in Nodes : AddNode(p, n)) \/ FlushNode(p)
    PROVE  SerialInv'
<1>1. /\ UNCHANGED <<edges, diskEdges, loaded, snapshot>>
      /\ pc[p] \in {"idle", "node"} /\ pc'[p] \in {"idle", "node"}
      /\ pc'[p] = "idle" => pc[p] = "node"
      /\ \A q \in Procs \ {p} : /\ pc'[q] = pc[q] /\ pending'[q] = pending[q]
                                /\ todo'[q] = todo[q] /\ newEdge'[q] = newEdge[q]
  BY DEF ShapeInv, TypeOK, AddNode, FlushNode, Return, CanStart, memory, disk, Idle
<1>2. loaded
  BY DEF SerialInv, LoadFirst, AddNode, FlushNode, CanStart, Idle
<1>3. \A q \in Procs : Busy(q)' => q # p /\ Busy(q)
  BY <1>1 DEF Busy
<1>4. LoadFirst'
  BY <1>1, <1>2 DEF SerialInv, LoadFirst
<1>5. Apart' /\ Round' /\ KeyCleared'
  BY <1>1, <1>3 DEF SerialInv, Apart, Round, KeyCleared, Valid, Present
<1>6. Mirror'
  BY <1>1 DEF SerialInv, Mirror, MemoryMatchesFile, Valid, Present
<1>7. diskNodes \subseteq diskNodes'
  BY DEF AddNode, FlushNode, disk
<1>8. NodesKept'
  <2>1. ASSUME NEW n \in Nodes, AddNode(p, n) PROVE NodesKept'
    <3>1. nodes' = nodes \union {n} /\ pc'[p] = "node" /\ pending'[p].node = n /\ pc[p] # "node"
      BY <2>1 DEF ShapeInv, TypeOK, AddNode, CanStart, Idle
    <3> QED
      BY <1>1, <1>2, <1>7, <3>1 DEF SerialInv, NodesKept
  <2>2. ASSUME FlushNode(p) PROVE NodesKept'
    <3>1. nodes' = nodes /\ diskNodes' = diskNodes \union {pending[p].node}
      BY <2>2 DEF FlushNode, memory
    <3> QED
      BY <1>1, <1>2, <3>1 DEF SerialInv, NodesKept
  <2> QED
    BY <2>1, <2>2
<1>9. SingleValued' /\ EndpointsKept' /\ EndpointsDurable'
  BY <1>1, <1>3, <1>7 DEF SerialInv, SingleValued, OneValid, Valid, Present, EndpointsKept,
                          EndpointsDurable
<1> QED
  BY <1>4, <1>5, <1>6, <1>8, <1>9 DEF SerialInv

LEMMA FlushSerial ==
    ASSUME ShapeInv, ShapeInv', SerialInv, NEW p \in Procs, Flush(p)
    PROVE  SerialInv'
<1> DEFINE x == pending[p].id
<1>1. /\ pc[p] = "flush" /\ pc'[p] = "flushed" /\ Busy(p)
      /\ UNCHANGED <<nodes, edges, loaded, diskNodes, snapshot, pending, todo, newEdge>>
      /\ \A q \in Procs \ {p} : pc'[q] = pc[q]
      /\ pending[p] \in Entry /\ x \in EdgeIds
      /\ pending[p].edge \in Edge /\ pending[p].edge # NoEdge
  BY NoEdgeAssumption DEF ShapeInv, TypeOK, Flush, memory, Busy, Entry
<1>2. \A id \in EdgeIds : diskEdges'[id] = IF id = x THEN pending[p].edge ELSE diskEdges[id]
  BY <1>1 DEF ShapeInv, TypeOK, Flush, EdgeMap
<1>3. loaded
  BY <1>1 DEF SerialInv, LoadFirst
<1>4. \A q \in Procs : (Busy(q)' <=> Busy(q)) /\ (pc'[q] = "node" <=> pc[q] = "node") /\ pc'[q] # "loading"
  BY <1>1, <1>3 DEF Busy, SerialInv, LoadFirst
<1>5. edges[x] = pending[p].edge
  BY <1>1 DEF SerialInv, Mirror
<1>6. \A q \in Procs \ {p} : pc[q] = "flush" => pending[q].id # x
  <2> SUFFICES ASSUME NEW q \in Procs \ {p}, pc[q] = "flush", pending[q].id = x
               PROVE  FALSE
    OBVIOUS
  <2>1. pending[q].edge = pending[p].edge /\ Busy(q) /\ q \in Procs /\ q # p
    BY <1>5 DEF SerialInv, Mirror, Busy
  <2>2. /\ Key(pending[q].edge) = Key(newEdge[q].edge)
        /\ Key(pending[p].edge) = Key(newEdge[p].edge)
    BY <1>1, <2>1 DEF SerialInv, Round
  <2> QED
    BY <1>1, <2>1, <2>2 DEF SerialInv, Apart
<1>7. LoadFirst'
  BY <1>3, <1>1, <1>4 DEF LoadFirst
<1>8. Apart' /\ KeyCleared'
  BY <1>1, <1>4 DEF SerialInv, Apart, KeyCleared, Valid
<1>9. Mirror'
  <2>1. \A q \in Procs : pc'[q] = "flush" =>
          /\ edges'[pending'[q].id] = pending'[q].edge
          /\ Present(diskEdges', pending'[q].id) => Valid(diskEdges', pending'[q].id)
    <3> SUFFICES ASSUME NEW q \in Procs, pc'[q] = "flush"
                 PROVE  /\ edges'[pending'[q].id] = pending'[q].edge
                        /\ Present(diskEdges', pending'[q].id) => Valid(diskEdges', pending'[q].id)
      OBVIOUS
    <3>1. q # p /\ pc[q] = "flush" /\ pending[q].id # x /\ pending[q].id \in EdgeIds
      BY <1>1, <1>6 DEF ShapeInv, TypeOK, Busy, Entry
    <3> QED
      BY <1>1, <1>2, <3>1 DEF SerialInv, Mirror, Valid, Present
  <2>2. MemoryMatchesFile'
    BY <1>1, <1>2, <1>5 DEF SerialInv, Mirror, MemoryMatchesFile
  <2> QED
    BY <2>1, <2>2 DEF Mirror
<1>10. Round'
  <2> SUFFICES ASSUME NEW q \in Procs, Busy(q), pending[q].id # newEdge[q].id
               PROVE  ~Present(diskEdges', newEdge[q].id)
    BY <1>1, <1>4 DEF SerialInv, Round, Present
  <2>1. ~Present(edges, newEdge[q].id) /\ ~Present(diskEdges, newEdge[q].id)
    BY DEF SerialInv, Round
  <2>2. newEdge[q].id # x /\ newEdge[q].id \in EdgeIds
    BY <1>1, <1>5, <2>1 DEF Present, ShapeInv, TypeOK, Entry
  <2> QED
    BY <1>2, <2>1, <2>2 DEF Present
<1>11. SingleValued'
  <2>1. OneValid(edges)'
    BY <1>1 DEF SerialInv, SingleValued, OneValid, Valid
  <2>2. ASSUME NEW i \in EdgeIds, Valid(diskEdges', i), i # x,
               Valid(diskEdges', x), Key(diskEdges'[i]) = Key(diskEdges'[x])
        PROVE  Valid(edges, i) /\ Key(edges[i]) = Key(edges[x]) /\ edges[i] = diskEdges'[i]
    <3>1. Present(diskEdges, i) /\ diskEdges'[i] = diskEdges[i] /\ diskEdges[i] \in Edge
      BY <1>2, <2>2, EdgeTypes DEF Valid, Present, ShapeInv, TypeOK
    <3>2. Key(diskEdges[i]) = Key(newEdge[p].edge)
      BY <1>1, <1>2, <2>2, <3>1 DEF SerialInv, Round
    <3>3. ASSUME NEW q \in Procs, pc[q] = "flush", pending[q].id = i PROVE FALSE
      <4>1. q # p /\ Busy(q) /\ pending[q] \in Entry
        BY <2>2, <3>3 DEF Busy, ShapeInv, TypeOK
      <4>2. pending[q].edge \in Edge /\ Occurs(i, pending[q].edge) /\ Occurs(i, diskEdges[i])
        BY <3>1, <3>3, <4>1 DEF Occurs, Entry
      <4>3. Key(pending[q].edge) = Key(diskEdges[i])
        BY <3>1, <4>2 DEF ShapeInv, OneShape, SameShape, Key
      <4> QED
        BY <1>1, <3>2, <4>1, <4>3 DEF SerialInv, Round, Apart
    <3>4. edges[i] = diskEdges[i]
      BY <1>3, <3>3 DEF SerialInv, Mirror, MemoryMatchesFile
    <3>5. edges[x] = diskEdges'[x]
      BY <1>1, <1>2, <1>5
    <3> QED
      BY <2>2, <3>1, <3>4, <3>5 DEF Valid, Present
  <2>3. OneValid(diskEdges)'
    <3> SUFFICES ASSUME NEW i \in EdgeIds, NEW j \in EdgeIds,
                        Valid(diskEdges', i), Valid(diskEdges', j),
                        Key(diskEdges'[i]) = Key(diskEdges'[j]), diskEdges'[i].rel \in SingleRels
                 PROVE  i = j
      BY DEF OneValid, Valid
    <3>1. diskEdges'[i].rel = diskEdges'[j].rel
      BY DEF Key
    <3>2. diskEdges'[x] = edges[x]
      BY <1>1, <1>2, <1>5
    <3>3. CASE i # x /\ j # x
      BY <1>2, <3>3 DEF SerialInv, SingleValued, OneValid, Valid, Present
    <3>4. CASE i = x /\ j # x
      <4>1. Valid(edges, x) /\ Valid(edges, j) /\ Key(edges[x]) = Key(edges[j])
        BY <2>2, <3>2, <3>4 DEF Valid, Present
      <4> QED
        BY <1>1, <3>2, <3>4, <4>1 DEF SerialInv, SingleValued, OneValid
    <3>5. CASE i # x /\ j = x
      <4>1. Valid(edges, x) /\ Valid(edges, i) /\ Key(edges[x]) = Key(edges[i])
        BY <2>2, <3>2, <3>5 DEF Valid, Present
      <4> QED
        BY <1>1, <3>1, <3>2, <3>5, <4>1 DEF SerialInv, SingleValued, OneValid
    <3> QED
      BY <3>3, <3>4, <3>5
  <2> QED
    BY <2>1, <2>3 DEF SingleValued
<1>12. NodesKept' /\ EndpointsKept'
  BY <1>1, <1>4 DEF SerialInv, NodesKept, EndpointsKept, Present
<1>13. EndpointsDurable'
  BY <1>1, <1>2, <1>5 DEF SerialInv, EndpointsKept, EndpointsDurable, Present
<1> QED
  BY <1>7, <1>8, <1>9, <1>10, <1>11, <1>12, <1>13 DEF SerialInv

-----------------------------------------------------------------------------
(* Changing an edge in memory                                              *)

\* An edge that no operation is busy with is in the file as it is in memory.
LEMMA InFile ==
    ASSUME ShapeInv, SerialInv, NEW p \in Procs, loaded, pc[p] # "flush",
           NEW id \in EdgeIds, Present(edges, id), NoneOn(p, Key(edges[id]))
    PROVE  diskEdges[id] = edges[id]
<1> SUFFICES ASSUME NEW q \in Procs, pc[q] = "flush", pending[q].id = id PROVE FALSE
  BY DEF SerialInv, Mirror, MemoryMatchesFile
<1>1. q # p /\ Busy(q) /\ pending[q].edge = edges[id]
  BY DEF Busy, SerialInv, Mirror
<1>2. Key(newEdge[q].edge) = Key(edges[id])
  BY <1>1 DEF SerialInv, Round
<1> QED
  BY <1>1, <1>2 DEF NoneOn

\* edges.set(ent) by an operation of p that will end with new and has rest to
\* retire, and what makes it safe.
SetSafely(p, ent, new, rest) ==
    /\ ent \in Entry /\ new \in Entry /\ rest \in SUBSET Entry
    /\ loaded /\ pc[p] \in {"idle", "flushed"}
    /\ NoneOn(p, Key(new.edge)) /\ Key(ent.edge) = Key(new.edge)
    /\ \A id \in EdgeIds : edges'[id] = IF id = ent.id THEN ent.edge ELSE edges[id]
    /\ Present(edges, ent.id) => Valid(edges, ent.id) /\ Key(edges[ent.id]) = Key(new.edge)
    /\ Present(diskEdges, ent.id) => Valid(diskEdges, ent.id)
    /\ \A v \in rest : /\ Key(v.edge) = Key(new.edge) /\ edges[v.id] = v.edge
                       /\ v.edge.validTo = Forever /\ v.id # ent.id
    /\ ent.id # new.id => /\ ~Present(edges, new.id) /\ ~Present(diskEdges, new.id)
                          /\ ent.edge.validTo # Forever
    /\ new.edge.rel \in SingleRels =>
          /\ rest = {}
          /\ ent.id # new.id \/ ent.edge.validTo = Forever =>
                \A id \in EdgeIds : Valid(edges, id) /\ id # ent.id =>
                    Key(edges[id]) # Key(new.edge)
    /\ {ent.edge.from, ent.edge.to} \subseteq diskNodes
    /\ {new.edge.from, new.edge.to} \subseteq diskNodes
    /\ pending' = [pending EXCEPT ![p] = ent]
    /\ todo' = [todo EXCEPT ![p] = rest]
    /\ newEdge' = [newEdge EXCEPT ![p] = new]
    /\ pc' = [pc EXCEPT ![p] = "flush"]
    /\ behind \subseteq behind'
    /\ UNCHANGED <<nodes, loaded, disk, snapshot, crashes>>

LEMMA SetSerial ==
    ASSUME ShapeInv, ShapeInv', SerialInv, NEW p \in Procs, NEW ent, NEW new, NEW rest,
           SetSafely(p, ent, new, rest)
    PROVE  SerialInv'
<1> USE DEF disk, SetSafely
<1>1. /\ pending'[p] = ent /\ todo'[p] = rest /\ newEdge'[p] = new /\ pc'[p] = "flush"
      /\ \A q \in Procs \ {p} : /\ pending'[q] = pending[q] /\ todo'[q] = todo[q]
                                /\ newEdge'[q] = newEdge[q] /\ pc'[q] = pc[q]
  BY DEF ShapeInv, TypeOK
<1>2. \A q \in Procs : Busy(q)' <=> q = p \/ Busy(q)
  BY <1>1 DEF Busy
<1>3. \A q \in Procs \ {p} : Busy(q) => Key(newEdge[q].edge) # Key(new.edge)
  BY DEF NoneOn
<1>4. /\ ent.id \in EdgeIds /\ new.id \in EdgeIds /\ ent.edge \in Edge /\ new.edge \in Edge
      /\ ent.edge # NoEdge
  BY NoEdgeAssumption DEF Entry
<1>5. \A q \in Procs \ {p} : Busy(q) =>
        /\ pending[q] \in Entry /\ newEdge[q] \in Entry /\ todo[q] \in SUBSET Entry
        /\ pending[q].id \in EdgeIds /\ newEdge[q].id \in EdgeIds
        /\ newEdge[q].edge \in Edge
        /\ \A v \in todo[q] : v.id \in EdgeIds
  BY DEF ShapeInv, TypeOK, Entry
<1>6. \A q \in Procs \ {p} : Busy(q) => \A v \in todo[q] : v.id # ent.id
  <2> SUFFICES ASSUME NEW q \in Procs \ {p}, Busy(q), NEW v \in todo[q], v.id = ent.id
               PROVE  FALSE
    OBVIOUS
  <2>1. Present(edges, v.id) /\ edges[v.id] = v.edge /\ Key(v.edge) = Key(newEdge[q].edge)
    BY DEF SerialInv, Round, ShapeInv, Known
  <2> QED
    BY <1>3, <2>1
<1>7. \A q \in Procs \ {p} : Busy(q) => newEdge[q].id # ent.id
  <2> SUFFICES ASSUME NEW q \in Procs \ {p}, Busy(q), newEdge[q].id = ent.id
               PROVE  FALSE
    OBVIOUS
  <2>1. newEdge[q] = [id |-> ent.id, edge |-> newEdge[q].edge]
    BY <1>5 DEF Entry
  <2>2. Occurs(ent.id, newEdge[q].edge)' /\ newEdge'[q] = newEdge[q]
    BY <1>1, <1>2, <2>1 DEF Occurs
  <2>3. Occurs(ent.id, ent.edge)'
    BY <1>4 DEF Occurs, Present
  <2>4. Key(newEdge[q].edge) = Key(ent.edge)
    BY <1>4, <1>5, <2>2, <2>3 DEF ShapeInv, OneShape, SameShape, Key
  <2> QED
    BY <1>3, <2>4
<1>8. \A q \in Procs \ {p} : pc[q] = "flush" => pending[q].id # ent.id
  <2> SUFFICES ASSUME NEW q \in Procs \ {p}, pc[q] = "flush", pending[q].id = ent.id
               PROVE  FALSE
    OBVIOUS
  <2>1. Busy(q) /\ edges[ent.id] = pending[q].edge /\ Present(edges, ent.id)
    BY DEF Busy, SerialInv, Mirror, ShapeInv, Known
  <2>2. Key(pending[q].edge) = Key(newEdge[q].edge)
    BY <2>1 DEF SerialInv, Round
  <2> QED
    BY <1>3, <2>1, <2>2
<1>9. LoadFirst'
  BY <1>1 DEF SerialInv, LoadFirst
<1>10. Apart'
  BY <1>1, <1>2, <1>3 DEF SerialInv, Apart
<1>11. Round'
  <2>1. ASSUME NEW q \in Procs \ {p}, Busy(q)
        PROVE  /\ Key(pending'[q].edge) = Key(newEdge'[q].edge)
               /\ \A v \in todo'[q] : /\ Key(v.edge) = Key(newEdge'[q].edge)
                                      /\ edges'[v.id] = v.edge
                                      /\ v.edge.validTo = Forever
                                      /\ v.id # pending'[q].id
               /\ pending'[q].id # newEdge'[q].id =>
                     ~Present(edges', newEdge'[q].id) /\ ~Present(diskEdges', newEdge'[q].id)
    BY <1>1, <1>5, <1>6, <1>7, <2>1 DEF SerialInv, Round, Present
  <2>2. /\ \A v \in rest : edges'[v.id] = v.edge
        /\ ent.id # new.id => ~Present(edges', new.id)
    BY <1>4 DEF Present, Entry
  <2> QED
    BY <1>1, <1>2, <2>1, <2>2 DEF Round, Present
<1>12. Mirror'
  <2>1. \A q \in Procs : pc'[q] = "flush" =>
          /\ edges'[pending'[q].id] = pending'[q].edge
          /\ Present(diskEdges', pending'[q].id) => Valid(diskEdges', pending'[q].id)
    <3> SUFFICES ASSUME NEW q \in Procs, pc'[q] = "flush"
                 PROVE  /\ edges'[pending'[q].id] = pending'[q].edge
                        /\ Present(diskEdges', pending'[q].id) => Valid(diskEdges', pending'[q].id)
      OBVIOUS
    <3>1. CASE q = p
      BY <1>1, <1>4, <3>1 DEF Present, Valid
    <3>2. CASE q # p
      <4>1. pc[q] = "flush" /\ pending[q].id # ent.id /\ pending[q].id \in EdgeIds
        BY <1>1, <1>5, <1>8, <3>2 DEF Busy
      <4> QED
        BY <1>1, <3>2, <4>1 DEF SerialInv, Mirror, Present, Valid
    <3> QED
      BY <3>1, <3>2
  <2>2. MemoryMatchesFile'
    <3> SUFFICES ASSUME NEW id \in EdgeIds,
                        \A q \in Procs : pc'[q] = "flush" => pending'[q].id # id
                 PROVE  edges'[id] = diskEdges[id]
      BY DEF MemoryMatchesFile
    <3>1. id # ent.id
      BY <1>1
    <3>2. \A q \in Procs : pc[q] = "flush" => pending[q].id # id
      BY <1>1
    <3> QED
      BY <3>1, <3>2 DEF SerialInv, Mirror, MemoryMatchesFile
  <2> QED
    BY <2>1, <2>2 DEF Mirror
<1>13. KeyCleared'
  <2> SUFFICES ASSUME NEW q \in Procs, Busy(q)', pending'[q].id # newEdge'[q].id,
                      newEdge'[q].edge.rel \in SingleRels
               PROVE  /\ todo'[q] = {}
                      /\ \A id \in EdgeIds : Valid(edges', id) => Key(edges'[id]) # Key(newEdge'[q].edge)
    BY DEF KeyCleared
  <2>1. CASE q = p
    BY <1>1, <1>4, <2>1 DEF Valid
  <2>2. CASE q # p
    <3>1. Busy(q) /\ todo[q] = {}
          /\ \A id \in EdgeIds : Valid(edges, id) => Key(edges[id]) # Key(newEdge[q].edge)
      BY <1>1, <1>2, <2>2 DEF SerialInv, KeyCleared
    <3> QED
      BY <1>1, <1>3, <2>2, <3>1 DEF Valid
  <2> QED
    BY <2>1, <2>2
<1>14. SingleValued'
  <2>1. OneValid(diskEdges)'
    BY DEF SerialInv, SingleValued, OneValid, Valid
  <2>2. OneValid(edges)'
    <3> SUFFICES ASSUME NEW i \in EdgeIds, NEW j \in EdgeIds,
                        Valid(edges', i), Valid(edges', j),
                        Key(edges'[i]) = Key(edges'[j]), edges'[i].rel \in SingleRels
                 PROVE  i = j
      BY DEF OneValid, Valid
    <3>1. edges'[i].rel = edges'[j].rel /\ ent.edge.rel = new.edge.rel
      BY DEF Key
    <3>2. CASE i # ent.id /\ j # ent.id
      BY <3>2 DEF SerialInv, SingleValued, OneValid, Valid
    <3>3. CASE i = ent.id /\ j # ent.id
      BY <3>1, <3>3 DEF Valid
    <3>4. CASE i # ent.id /\ j = ent.id
      BY <3>1, <3>4 DEF Valid
    <3> QED
      BY <3>2, <3>3, <3>4
  <2> QED
    BY <2>1, <2>2 DEF SingleValued
<1>15. NodesKept'
  BY <1>1 DEF SerialInv, NodesKept
<1>16. EndpointsKept' /\ EndpointsDurable'
  BY <1>1, <1>2 DEF SerialInv, EndpointsKept, EndpointsDurable, Present
<1> QED
  BY <1>9, <1>10, <1>11, <1>12, <1>13, <1>14, <1>15, <1>16 DEF SerialInv

\* One round of addEdge's loop: victims are the valid edges it has still to
\* retire, all of them if the relation is single-valued.
\* A turn of addEdge's loop by p, which has victims still to retire before new.
LoopSafely(p, victims, new) ==
    /\ victims \in SUBSET Entry /\ new \in Entry
    /\ loaded /\ pc[p] \in {"idle", "flushed"} /\ NoneOn(p, Key(new.edge))
    /\ \A v \in victims : /\ Present(edges, v.id) /\ edges[v.id] = v.edge
                          /\ v.edge.validTo = Forever
                          /\ Key(v.edge) = Key(new.edge) /\ v.id # new.id
    /\ new.edge.rel \in SingleRels =>
           \A id \in EdgeIds : Valid(edges, id) /\ Key(edges[id]) = Key(new.edge) =>
               \E v \in victims : v.id = id
    /\ ~Present(edges, new.id) /\ ~Present(diskEdges, new.id)
    /\ {new.edge.from, new.edge.to} \subseteq diskNodes
    /\ RetireOrInsert(p, victims, new)
    /\ newEdge' = [newEdge EXCEPT ![p] = new]
    /\ pc' = [pc EXCEPT ![p] = "flush"]
    /\ behind \subseteq behind'
    /\ UNCHANGED <<nodes, loaded, disk, snapshot, crashes>>

LEMMA LoopSets ==
    ASSUME ShapeInv, SerialInv, NEW p \in Procs, NEW victims, NEW new,
           LoopSafely(p, victims, new)
    PROVE  \/ victims = {} /\ SetSafely(p, new, new, {})
           \/ \E v \in victims : SetSafely(p, Retired(v, new), new, victims \ {v})
<1> USE DEF LoopSafely
<1>0. /\ new.id \in EdgeIds /\ new.edge \in Edge /\ new.edge.validFrom \in Times
      /\ \A v \in victims : v \in Entry /\ v.id \in EdgeIds /\ v.edge \in Edge
  BY DEF Entry, Edge
<1>1. ASSUME NEW v \in victims, Overwrite(Retired(v, new)),
             pending' = [pending EXCEPT ![p] = Retired(v, new)],
             todo' = [todo EXCEPT ![p] = victims \ {v}]
      PROVE  SetSafely(p, Retired(v, new), new, victims \ {v})
  <2> DEFINE ent == Retired(v, new)
             rest == victims \ {v}
  <2>1. /\ ent \in Entry /\ ent.id = v.id /\ SameShape(ent.edge, v.edge)
        /\ ent.edge.validTo = new.edge.validFrom
    BY RetiredShape
  <2>2. \A id \in EdgeIds : edges'[id] = IF id = ent.id THEN ent.edge ELSE edges[id]
    BY <1>1, <2>1, OverwriteKeeps
  <2>3. Valid(edges, v.id) /\ Key(edges[v.id]) = Key(new.edge)
    BY DEF Valid, Present
  <2>4. Key(ent.edge) = Key(new.edge)
    BY <2>1 DEF SameShape, Key
  <2>5. diskEdges[v.id] = edges[v.id]
    BY <1>0, <2>3, InFile DEF Valid, Present
  <2>6. Present(diskEdges, v.id) => Valid(diskEdges, v.id)
    BY <2>3, <2>5 DEF Valid
  <2>7. rest \in SUBSET Entry
        /\ \A w \in rest : /\ Key(w.edge) = Key(new.edge) /\ edges[w.id] = w.edge
                           /\ w.edge.validTo = Forever /\ w.id # ent.id
    <3>1. \A w \in rest : w.id = v.id => w = v
      <4> SUFFICES ASSUME NEW w \in rest, w.id = v.id PROVE w = v
        OBVIOUS
      <4>1. w.edge = v.edge
        OBVIOUS
      <4>2. w \in Entry /\ v \in Entry
        OBVIOUS
      <4> QED
        BY <4>1, <4>2 DEF Entry
    <3> QED
      BY <2>1, <3>1
  <2>8. ent.edge.validTo # Forever
    BY <1>0, <2>1, NullAssumption, TimeAssumption DEF Times
  <2>9. ASSUME new.edge.rel \in SingleRels
        PROVE  /\ rest = {}
               /\ \A id \in EdgeIds : Valid(edges, id) /\ id # ent.id => Key(edges[id]) # Key(new.edge)
    <3>1. \A id \in EdgeIds : Valid(edges, id) /\ Key(edges[id]) = Key(new.edge) => id = v.id
      BY <1>0, <2>3, <2>9 DEF SerialInv, SingleValued, OneValid, Key
    <3>2. \A w \in rest : Valid(edges, w.id) /\ Key(edges[w.id]) = Key(new.edge) /\ w.id # v.id
      BY <2>1, <2>7 DEF Valid, Present
    <3>3. rest = {}
      BY <1>0, <3>1, <3>2
    <3> QED
      BY <2>1, <3>1, <3>3
  <2>10. {ent.edge.from, ent.edge.to} \subseteq diskNodes
    BY <1>0, <2>1 DEF SameShape, SerialInv, EndpointsKept
  <2> HIDE DEF ent, rest
  <2>11. pending' = [pending EXCEPT ![p] = ent] /\ todo' = [todo EXCEPT ![p] = rest]
    BY <1>1 DEF ent, rest
  <2>12. SetSafely(p, ent, new, rest)
    BY <1>0, <2>1, <2>2, <2>3, <2>4, <2>6, <2>7, <2>8, <2>9, <2>10, <2>11 DEF SetSafely
  <2> QED
    BY <2>12 DEF ent, rest
<1>2. ASSUME victims = {}, Insert(new), pending' = [pending EXCEPT ![p] = new],
             todo' = [todo EXCEPT ![p] = {}]
      PROVE  SetSafely(p, new, new, {})
  <2> DEFINE ent == new
             rest == {}
  <2>1. \A id \in EdgeIds : edges'[id] = IF id = ent.id THEN ent.edge ELSE edges[id]
    BY <1>2, InsertKeeps
  <2>2. new.edge.rel \in SingleRels =>
          /\ rest = {}
          /\ \A id \in EdgeIds : Valid(edges, id) /\ id # ent.id => Key(edges[id]) # Key(new.edge)
    BY <1>2
  <2>3. /\ rest \in SUBSET Entry
        /\ \A v \in rest : /\ Key(v.edge) = Key(new.edge) /\ edges[v.id] = v.edge
                           /\ v.edge.validTo = Forever /\ v.id # ent.id
    OBVIOUS
  <2>4. /\ ent \in Entry /\ ent.id = new.id /\ Key(ent.edge) = Key(new.edge)
        /\ {ent.edge.from, ent.edge.to} \subseteq diskNodes
        /\ ~Present(edges, ent.id) /\ ~Present(diskEdges, ent.id)
    OBVIOUS
  <2>5. pending' = [pending EXCEPT ![p] = ent] /\ todo' = [todo EXCEPT ![p] = rest]
    BY <1>2
  <2> HIDE DEF ent, rest
  <2>6. SetSafely(p, ent, new, rest)
    BY <2>1, <2>2, <2>3, <2>4, <2>5 DEF SetSafely
  <2> QED
    BY <2>6 DEF ent, rest
<1>3. \/ \E v \in victims : /\ Overwrite(Retired(v, new))
                            /\ pending' = [pending EXCEPT ![p] = Retired(v, new)]
                            /\ todo' = [todo EXCEPT ![p] = victims \ {v}]
      \/ /\ victims = {} /\ Insert(new)
         /\ pending' = [pending EXCEPT ![p] = new]
         /\ todo' = [todo EXCEPT ![p] = {}]
  BY DEF RetireOrInsert
<1> QED
  BY <1>1, <1>2, <1>3

LEMMA LoopSerial ==
    ASSUME ShapeInv, ShapeInv', SerialInv, NEW p \in Procs, NEW victims, NEW new,
           LoopSafely(p, victims, new)
    PROVE  SerialInv'
<1>1. CASE SetSafely(p, new, new, {})
  BY <1>1, SetSerial
<1>2. ASSUME NEW v \in victims, SetSafely(p, Retired(v, new), new, victims \ {v})
      PROVE  SerialInv'
  BY <1>2, SetSerial
<1> QED
  BY <1>1, <1>2, LoopSets

LEMMA AddEdgeLoops ==
    ASSUME ShapeInv, SerialInv, NEW p \in Procs, NEW id \in EdgeIds,
           NEW from \in Nodes, NEW to \in Nodes, NEW rel \in Rels,
           NEW validFrom \in Times, NEW supersede \in BOOLEAN, rel \in SingleRels => supersede, NoneOn(p, <<from, rel>>), NodesSettled({from, to}),
           AddEdge(p, id, from, to, rel, validFrom, supersede)
    PROVE  \E victims, new :
              /\ LoopSafely(p, victims, new)
              /\ new.edge.validTo = Forever /\ new.edge.supersededBy = NoId
              /\ behind' = behind \union {<<new.id, i>> : i \in EndsAfterStart(new)}
<1> DEFINE new == [id |-> id, edge |->
                     [from |-> from, to |-> to, rel |-> rel, validFrom |-> validFrom,
                      validTo |-> Forever, supersededBy |-> NoId]]
           victims == IF supersede THEN Victims(new) ELSE {}
<1>1. new \in Entry /\ Key(new.edge) = <<from, rel>> /\ new.edge.rel = rel
      /\ new.edge.from = from /\ new.edge.to = to /\ new.id = id
      /\ new.edge.validTo = Forever /\ new.edge.supersededBy = NoId
  BY DEF ShapeInv, TypeOK, Entry, Edge, Key
<1>2. /\ RetireOrInsert(p, victims, new)
      /\ newEdge' = [newEdge EXCEPT ![p] = new]
      /\ pc' = [pc EXCEPT ![p] = "flush"]
      /\ behind' = behind \union {<<id, i>> : i \in EndsAfterStart(new)}
      /\ UNCHANGED <<nodes, loaded, disk, snapshot, crashes>>
      /\ ~Present(edges, id) /\ ~Present(diskEdges, id)
      /\ {from, to} \subseteq nodes /\ CanStart(p)
  BY DEF AddEdge, Fresh
<1>3. loaded /\ pc[p] \in {"idle", "flushed"}
  BY <1>2 DEF SerialInv, LoadFirst, CanStart, Idle
<1>4. {from, to} \subseteq diskNodes
  BY <1>2, <1>3 DEF SerialInv, NodesKept, NodesSettled
<1>5. /\ victims \in SUBSET Entry
      /\ \A v \in victims : /\ Present(edges, v.id) /\ edges[v.id] = v.edge
                            /\ v.edge.validTo = Forever
                            /\ Key(v.edge) = Key(new.edge) /\ v.id # new.id
  BY <1>1, VictimsOccur
<1>6. ASSUME rel \in SingleRels, NEW i \in EdgeIds, Valid(edges, i), Key(edges[i]) = Key(new.edge)
      PROVE  \E v \in victims : v.id = i
  <2>1. i \in outIdx[from] /\ edges[i].rel = rel /\ edges[i].validTo = Forever
    BY <1>1, <1>6 DEF ShapeInv, IndexExact, Valid, Present, Key
  <2>2. i # new.id
    BY <1>1, <1>2, <1>6 DEF Valid, Present
  <2>3. [id |-> i, edge |-> edges[i]] \in Victims(new)
    BY <1>1, <2>1, <2>2 DEF Victims
  <2>4. victims = Victims(new)
    BY <1>6
  <2> QED
    BY <2>3, <2>4
<1> HIDE DEF new, victims
<1>7. LoopSafely(p, victims, new)
  BY <1>1, <1>2, <1>3, <1>4, <1>5, <1>6 DEF LoopSafely
<1>8. behind' = behind \union {<<new.id, i>> : i \in EndsAfterStart(new)}
  BY <1>1, <1>2
<1> QED
  BY <1>1, <1>7, <1>8

LEMMA ResumeLoops ==
    ASSUME ShapeInv, SerialInv, NEW p \in Procs, Resume(p),
           ~(pending[p].id = newEdge[p].id /\ Return(p) /\ UNCHANGED memory)
    PROVE  LoopSafely(p, todo[p], newEdge[p])
<1>1. pc[p] = "flushed" /\ Busy(p) /\ loaded
  BY DEF Resume, Busy, SerialInv, LoadFirst
<1>2. ASSUME pending[p].id # newEdge[p].id, RetireOrInsert(p, todo[p], newEdge[p]),
             pc' = [pc EXCEPT ![p] = "flush"],
             UNCHANGED <<nodes, loaded, newEdge, disk, snapshot, behind, crashes>>
      PROVE  LoopSafely(p, todo[p], newEdge[p])
  <2>1. /\ newEdge[p] \in Entry /\ todo[p] \in SUBSET Entry
        /\ newEdge' = [newEdge EXCEPT ![p] = newEdge[p]]
    BY <1>1, <1>2 DEF ShapeInv, TypeOK
  <2>2. NoneOn(p, Key(newEdge[p].edge))
    BY <1>1 DEF SerialInv, Apart, NoneOn
  <2>3. ~Present(edges, newEdge[p].id) /\ ~Present(diskEdges, newEdge[p].id)
    BY <1>1, <1>2 DEF SerialInv, Round
  <2>4. \A v \in todo[p] : /\ Present(edges, v.id) /\ edges[v.id] = v.edge
                           /\ v.edge.validTo = Forever
                           /\ Key(v.edge) = Key(newEdge[p].edge) /\ v.id # newEdge[p].id
    BY <1>1, <2>3 DEF SerialInv, Round, ShapeInv, Known
  <2>5. newEdge[p].edge.rel \in SingleRels =>
          \A id \in EdgeIds : Valid(edges, id) /\ Key(edges[id]) = Key(newEdge[p].edge) =>
              \E v \in todo[p] : v.id = id
    BY <1>1, <1>2 DEF SerialInv, KeyCleared
  <2>6. {newEdge[p].edge.from, newEdge[p].edge.to} \subseteq diskNodes
    BY <1>1 DEF SerialInv, EndpointsKept
  <2>7. pc[p] \in {"idle", "flushed"}
    BY <1>1
  <2> QED
    BY <1>1, <1>2, <2>1, <2>2, <2>3, <2>4, <2>5, <2>6, <2>7 DEF LoopSafely
<1> QED
  BY <1>2 DEF Resume

LEMMA ResumeSerial ==
    ASSUME ShapeInv, ShapeInv', SerialInv, NEW p \in Procs, Resume(p)
    PROVE  SerialInv'
<1>1. pc[p] = "flushed" /\ Busy(p) /\ loaded
  BY DEF Resume, Busy, SerialInv, LoadFirst
<1>2. ASSUME Return(p), UNCHANGED <<memory, disk, snapshot, behind, crashes>> PROVE SerialInv'
  <2>1. /\ UNCHANGED <<nodes, edges, loaded, diskNodes, diskEdges, snapshot>>
        /\ pc'[p] = "idle"
        /\ \A q \in Procs \ {p} : /\ pc'[q] = pc[q] /\ pending'[q] = pending[q]
                                  /\ todo'[q] = todo[q] /\ newEdge'[q] = newEdge[q]
    BY <1>2 DEF ShapeInv, TypeOK, Return, memory, disk, Idle
  <2>2. \A q \in Procs : (Busy(q)' => q # p /\ Busy(q)) /\ (pc'[q] # "idle" => q # p)
    BY <2>1 DEF Busy
  <2>3. LoadFirst'
    BY <1>1, <2>1 DEF SerialInv, LoadFirst
  <2>4. Apart' /\ Round' /\ KeyCleared'
    BY <2>1, <2>2 DEF SerialInv, Apart, Round, KeyCleared, Valid, Present
  <2>5. Mirror'
    BY <1>1, <2>1, <2>2 DEF SerialInv, Mirror, MemoryMatchesFile, Valid, Present
  <2>6. SingleValued' /\ EndpointsKept' /\ EndpointsDurable'
    BY <2>1, <2>2 DEF SerialInv, SingleValued, OneValid, Valid, Present, EndpointsKept,
                      EndpointsDurable
  <2>7. NodesKept'
    BY <1>1, <2>1 DEF SerialInv, NodesKept
  <2> QED
    BY <2>3, <2>4, <2>5, <2>6, <2>7 DEF SerialInv
<1>3. CASE LoopSafely(p, todo[p], newEdge[p])
  BY <1>3, LoopSerial
<1> QED
  BY <1>2, <1>3, ResumeLoops DEF Resume

LEMMA RetractSets ==
    ASSUME ShapeInv, SerialInv, NEW p \in Procs, NEW id \in EdgeIds,
           NEW at \in Times, NoneOn(p, Key(edges[id])), Retract(p, id, at)
    PROVE  LET ent == [id |-> id, edge |-> [edges[id] EXCEPT !.validTo = at]]
           IN  SetSafely(p, ent, ent, {})
<1> DEFINE ent == [id |-> id, edge |-> [edges[id] EXCEPT !.validTo = at]]
           rest == {}
<1>1. /\ Valid(edges, id) /\ Present(edges, id) /\ Overwrite(ent) /\ CanStart(p)
      /\ pending' = [pending EXCEPT ![p] = ent]
      /\ newEdge' = [newEdge EXCEPT ![p] = ent]
      /\ todo' = [todo EXCEPT ![p] = rest]
      /\ pc' = [pc EXCEPT ![p] = "flush"]
      /\ UNCHANGED <<nodes, loaded, disk, snapshot, behind, crashes>>
  BY DEF Retract, Valid, Present
<1>2. loaded /\ pc[p] \in {"idle", "flushed"} /\ pc[p] # "flush"
  BY <1>1 DEF SerialInv, LoadFirst, CanStart, Idle
<1>3. edges[id] \in Edge
  BY <1>1, EdgeTypes DEF ShapeInv, TypeOK
<1>4. /\ ent \in Entry /\ ent.id = id /\ Key(ent.edge) = Key(edges[id])
      /\ SameShape(ent.edge, edges[id]) /\ ent.edge.validTo = at
  BY <1>3 DEF ShapeInv, TypeOK, Entry, Edge, Key, SameShape
<1>5. \A i \in EdgeIds : edges'[i] = IF i = ent.id THEN ent.edge ELSE edges[i]
  BY <1>1, <1>4, OverwriteKeeps
<1>6. Present(diskEdges, id) => Valid(diskEdges, id)
  BY <1>1, <1>2, InFile DEF Valid
<1>7. ent.edge.validTo # Forever
  BY <1>4, NullAssumption, TimeAssumption DEF ShapeInv, TypeOK, Times
<1>8. {ent.edge.from, ent.edge.to} \subseteq diskNodes
  BY <1>1, <1>4 DEF SameShape, SerialInv, EndpointsKept
<1>9. /\ rest \in SUBSET Entry /\ rest = {}
      /\ \A v \in rest : /\ Key(v.edge) = Key(ent.edge) /\ edges[v.id] = v.edge
                         /\ v.edge.validTo = Forever /\ v.id # ent.id
  OBVIOUS
<1> HIDE DEF ent, rest
<1>10. SetSafely(p, ent, ent, rest)
  BY <1>1, <1>2, <1>4, <1>5, <1>6, <1>7, <1>8, <1>9 DEF SetSafely
<1> QED
  BY <1>10 DEF ent, rest

LEMMA EnvironmentSerial ==
    ASSUME ShapeInv, SerialInv, Crash \/ UNCHANGED vars
    PROVE  SerialInv'
<1>1. CASE UNCHANGED vars
  <2>1. UNCHANGED <<memory, disk, control>>
    BY <1>1 DEF vars
  <2>2. UNCHANGED <<nodes, edges, loaded, diskNodes, diskEdges, pc, snapshot, pending, todo, newEdge>>
    BY <2>1 DEF memory, disk, control
  <2>3. LoadFirst' /\ Apart' /\ Round' /\ Mirror' /\ KeyCleared'
    BY <2>2 DEF SerialInv, LoadFirst, Apart, Round, Mirror, MemoryMatchesFile, KeyCleared, Busy,
                Valid, Present
  <2>4. SingleValued' /\ NodesKept' /\ EndpointsKept' /\ EndpointsDurable'
    BY <2>2 DEF SerialInv, SingleValued, OneValid, NodesKept, EndpointsKept, EndpointsDurable,
                Busy, Valid, Present
  <2> QED
    BY <2>3, <2>4 DEF SerialInv
<1>2. CASE Crash
  <2>1. /\ nodes' = {} /\ edges' = NoEdges /\ loaded' = FALSE
        /\ UNCHANGED <<diskNodes, diskEdges>>
        /\ \A q \in Procs : pc'[q] = "idle"
    BY <1>2 DEF Crash, disk, Idle
  <2>2. \A q \in Procs : ~Busy(q)'
    BY <2>1 DEF Busy
  <2>3. \A i \in EdgeIds : ~Present(edges', i)
    BY <2>1 DEF NoEdges, Present
  <2>4. LoadFirst'
    BY <2>1 DEF LoadFirst
  <2>5. Apart' /\ Round' /\ Mirror' /\ KeyCleared'
    BY <2>1, <2>2 DEF Apart, Round, Mirror, MemoryMatchesFile, KeyCleared
  <2>6. SingleValued'
    BY <2>1, <2>3 DEF SerialInv, SingleValued, OneValid, Valid, Present
  <2>7. NodesKept' /\ EndpointsKept' /\ EndpointsDurable'
    BY <2>1, <2>2, <2>3 DEF SerialInv, NodesKept, EndpointsKept, EndpointsDurable, Present
  <2> QED
    BY <2>4, <2>5, <2>6, <2>7 DEF SerialInv
<1> QED
  BY <1>1, <1>2

-----------------------------------------------------------------------------
(* Theorems                                                                *)

\* A disciplined step is a step of the graph.
LEMMA SerialIsNext == [SerialNext]_vars => [Next]_vars
BY DEF SerialNext, SerialStart, Next, Start

LEMMA StepSerial ==
    ASSUME ShapeInv, ShapeInv', SerialInv, [SerialNext]_vars
    PROVE  SerialInv'
<1>1. ASSUME NEW p \in Procs, SerialStart(p) PROVE SerialInv'
  <2>1. CASE LoadAlone(p) /\ LoadRead(p)
    BY <2>1, LoadReadSerial
  <2>2. CASE \E n \in Nodes : AddNode(p, n)
    BY <2>2, NodeSerial
  <2>3. ASSUME NEW id \in EdgeIds, NEW from \in Subjects, NEW to \in Nodes, NEW rel \in Rels,
               NEW validFrom \in Times, NEW supersede \in BOOLEAN,
               rel \in SingleRels => supersede, NoneOn(p, <<from, rel>>), NodesSettled({from, to}),
               AddEdge(p, id, from, to, rel, validFrom, supersede)
        PROVE  SerialInv'
    BY <2>3, SubjectsAssumption, AddEdgeLoops, LoopSerial
  <2>4. ASSUME NEW id \in EdgeIds, NEW at \in Times,
             NoneOn(p, Key(edges[id])), Retract(p, id, at) PROVE SerialInv'
    BY <2>4, RetractSets, SetSerial
  <2> QED
    BY <1>1, <2>1, <2>2, <2>3, <2>4 DEF SerialStart
<1>2. ASSUME NEW p \in Procs, Step(p) PROVE SerialInv'
  BY <1>2, LoadApplySerial, NodeSerial, FlushSerial, ResumeSerial DEF Step
<1> QED
  BY <1>1, <1>2, EnvironmentSerial DEF SerialNext

LEMMA SerialInvariant == SerialSpec => [](ShapeInv /\ SerialInv)
<1>1. Init => ShapeInv /\ SerialInv
  BY InitShape, InitSerial
<1>2. ShapeInv /\ SerialInv /\ [SerialNext]_vars => (ShapeInv /\ SerialInv)'
  <2> SUFFICES ASSUME ShapeInv, SerialInv, [SerialNext]_vars PROVE ShapeInv' /\ SerialInv'
    OBVIOUS
  <2>1. ShapeInv'
    BY SerialIsNext, StepShape
  <2> QED
    BY <2>1, StepSerial
<1> QED
  BY <1>1, <1>2, PTL DEF SerialSpec

\* A single-valued relation never has two current values, in memory or in what
\* a restart reads, whatever crashes and whoever else is at work.
THEOREM GraphSingleValued == SerialSpec => []SingleValued
<1>1. SerialInv => SingleValued
  BY DEF SerialInv
<1> QED
  BY <1>1, SerialInvariant, PTL

\* What addEdge and retractEdge have reported done is what a restart finds.
THEOREM GraphMemoryMatchesFile == SerialSpec => []MemoryMatchesFile
<1>1. SerialInv => MemoryMatchesFile
  BY DEF SerialInv, Mirror
<1> QED
  BY <1>1, SerialInvariant, PTL

\* An edge never reaches the file before its two nodes.
THEOREM GraphEndpointsDurable == SerialSpec => []EndpointsDurable
<1>1. SerialInv => EndpointsDurable
  BY DEF SerialInv
<1> QED
  BY <1>1, SerialInvariant, PTL

-----------------------------------------------------------------------------
(* Retired edges are final                                                 *)

FinalInMemory == \A id \in EdgeIds :
    Present(edges, id) /\ ~Valid(edges, id) => edges'[id] \in {edges[id], NoEdge}
FinalInFile == \A id \in EdgeIds :
    Present(diskEdges, id) /\ ~Valid(diskEdges, id) => diskEdges'[id] = diskEdges[id]

\* The loop of addEdge touches valid edges and a new one only.
LEMMA LoopFinal ==
    ASSUME ShapeInv, NEW p \in Procs, NEW victims \in SUBSET Entry, NEW new \in Entry,
           \A v \in victims : Present(edges, v.id) /\ edges[v.id] = v.edge /\ v.edge.validTo = Forever,
           ~Present(edges, new.id), RetireOrInsert(p, victims, new)
    PROVE  FinalInMemory
<1>1. ASSUME NEW v \in victims, Overwrite(Retired(v, new)) PROVE FinalInMemory
  <2>1. /\ Retired(v, new) \in Entry /\ Retired(v, new).id = v.id
        /\ SameShape(Retired(v, new).edge, v.edge)
    BY RetiredShape
  <2>2. \A id \in EdgeIds : id # v.id => edges'[id] = edges[id]
    BY <1>1, <2>1, OverwriteKeeps
  <2> QED
    BY <2>2 DEF FinalInMemory, Valid, Present
<1>2. ASSUME Insert(new) PROVE FinalInMemory
  <2>1. \A id \in EdgeIds : id # new.id => edges'[id] = edges[id]
    BY <1>2, InsertKeeps
  <2> QED
    BY <2>1 DEF FinalInMemory
<1> QED
  BY <1>1, <1>2 DEF RetireOrInsert

LEMMA FinalStep ==
    ASSUME ShapeInv, SerialInv, [SerialNext]_vars
    PROVE  FinalInMemory /\ FinalInFile
<1>1. ASSUME UNCHANGED <<edges, diskEdges>> PROVE FinalInMemory /\ FinalInFile
  BY <1>1 DEF FinalInMemory, FinalInFile
<1>2. ASSUME NEW p \in Procs, LoadApply(p) PROVE FinalInMemory /\ FinalInFile
  <2>1. diskEdges' = diskEdges /\ \A id \in EdgeIds : ~Present(edges, id)
    BY <1>2 DEF LoadApply, disk, SerialInv, LoadFirst, NoEdges, Present
  <2> QED
    BY <2>1 DEF FinalInMemory, FinalInFile
<1>3. ASSUME NEW p \in Procs, Flush(p) PROVE FinalInMemory /\ FinalInFile
  <2>1. /\ edges' = edges /\ pc[p] = "flush"
        /\ \A id \in EdgeIds : id # pending[p].id => diskEdges'[id] = diskEdges[id]
    BY <1>3 DEF Flush, memory, ShapeInv, TypeOK, EdgeMap
  <2>2. Present(diskEdges, pending[p].id) => Valid(diskEdges, pending[p].id)
    BY <2>1 DEF SerialInv, Mirror
  <2> QED
    BY <2>1, <2>2 DEF FinalInMemory, FinalInFile
<1>4. ASSUME NEW p \in Procs, NEW id \in EdgeIds, NEW from \in Nodes, NEW to \in Nodes,
             NEW rel \in Rels, NEW validFrom \in Times, NEW supersede \in BOOLEAN,
             AddEdge(p, id, from, to, rel, validFrom, supersede)
      PROVE  FinalInMemory /\ FinalInFile
  <2> DEFINE new == [id |-> id, edge |->
                       [from |-> from, to |-> to, rel |-> rel, validFrom |-> validFrom,
                        validTo |-> Forever, supersededBy |-> NoId]]
             victims == IF supersede THEN Victims(new) ELSE {}
  <2>1. new \in Entry /\ new.id = id
    BY DEF ShapeInv, TypeOK, Entry, Edge
  <2>2. RetireOrInsert(p, victims, new) /\ ~Present(edges, new.id) /\ diskEdges' = diskEdges
    BY <1>4 DEF AddEdge, Fresh, disk
  <2>3. /\ victims \in SUBSET Entry
        /\ \A v \in victims : Present(edges, v.id) /\ edges[v.id] = v.edge /\ v.edge.validTo = Forever
    BY <2>1, VictimsOccur
  <2> HIDE DEF new, victims
  <2>4. FinalInMemory
    BY <2>1, <2>2, <2>3, LoopFinal
  <2> QED
    BY <2>2, <2>4 DEF FinalInFile
<1>5. ASSUME NEW p \in Procs, Resume(p) PROVE FinalInMemory /\ FinalInFile
  <2>1. diskEdges' = diskEdges /\ Busy(p)
    BY <1>5 DEF Resume, disk, Busy
  <2>2. CASE UNCHANGED memory
    BY <1>1, <2>1, <2>2 DEF memory
  <2>3. CASE pending[p].id # newEdge[p].id /\ RetireOrInsert(p, todo[p], newEdge[p])
    <3>1. newEdge[p] \in Entry /\ todo[p] \in SUBSET Entry /\ ~Present(edges, newEdge[p].id)
      BY <2>1, <2>3 DEF ShapeInv, TypeOK, SerialInv, Round
    <3>2. \A v \in todo[p] : Present(edges, v.id) /\ edges[v.id] = v.edge /\ v.edge.validTo = Forever
      BY <2>1 DEF SerialInv, Round, ShapeInv, Known
    <3>3. FinalInMemory
      BY <2>3, <3>1, <3>2, LoopFinal
    <3> QED
      BY <2>1, <3>3 DEF FinalInFile
  <2> QED
    BY <1>5, <2>2, <2>3 DEF Resume
<1>6. ASSUME NEW p \in Procs, NEW id \in EdgeIds, NEW at \in Times, Retract(p, id, at) PROVE FinalInMemory /\ FinalInFile
  <2>1. /\ diskEdges' = diskEdges /\ Valid(edges, id)
        /\ \A i \in EdgeIds : i # id => edges'[i] = edges[i]
    BY <1>6 DEF Retract, Overwrite, disk, ShapeInv, TypeOK, EdgeMap
  <2> QED
    BY <2>1 DEF FinalInMemory, FinalInFile
<1>7. CASE Crash
  <2>1. diskEdges' = diskEdges /\ \A id \in EdgeIds : edges'[id] = NoEdge
    BY <1>7 DEF Crash, disk, NoEdges
  <2> QED
    BY <2>1 DEF FinalInMemory, FinalInFile
<1>8. CASE UNCHANGED vars
  BY <1>1, <1>8 DEF vars, memory, disk
<1>9. ASSUME NEW p \in Procs, SerialStart(p) PROVE FinalInMemory /\ FinalInFile
  <2>1. CASE LoadRead(p) \/ \E n \in Nodes : AddNode(p, n)
    BY <1>1, <2>1 DEF LoadRead, AddNode, memory, disk
  <2> QED
    BY <1>4, <1>6, <1>9, <2>1, SubjectsAssumption DEF SerialStart
<1>10. ASSUME NEW p \in Procs, Step(p) PROVE FinalInMemory /\ FinalInFile
  <2>1. CASE FlushNode(p)
    BY <1>1, <2>1 DEF FlushNode, memory
  <2> QED
    BY <1>2, <1>3, <1>5, <1>10, <2>1 DEF Step
<1> QED
  BY <1>7, <1>8, <1>9, <1>10 DEF SerialNext

\* Once retired, an edge's interval and successor are never rewritten: no other
\* supersession or retraction, and no late append, touches it.
THEOREM GraphRetiredIsFinal == SerialSpec => RetiredIsFinal
<1> DEFINE Final == \A id \in EdgeIds :
             /\ (Present(edges, id) /\ ~Valid(edges, id)) => edges'[id] \in {edges[id], NoEdge}
             /\ (Present(diskEdges, id) /\ ~Valid(diskEdges, id)) => diskEdges'[id] = diskEdges[id]
<1>1. ShapeInv /\ SerialInv /\ [SerialNext]_vars => [Final]_vars
  BY FinalStep DEF FinalInMemory, FinalInFile
<1>2. SerialSpec => [][Final]_vars
  BY <1>1, SerialInvariant, PTL DEF SerialSpec
<1> QED
  BY <1>2 DEF RetiredIsFinal

-----------------------------------------------------------------------------
(* Part 3, under SerialSpec: the times and the successors of the edges     *)

\* One of two values of a single-valued relation is over when the other starts,
\* or one was dated before the end of the other.
Before(e, f) == e.validTo # Forever /\ e.validTo <= f.validFrom
Backdated(i, j, dated) == <<i, j>> \in dated \/ <<j, i>> \in dated
InSlots(m) ==
    \A i, j \in EdgeIds :
        /\ i # j /\ Present(m, i) /\ Present(m, j)
        /\ Key(m[i]) = Key(m[j]) /\ m[i].rel \in SingleRels
        => Before(m[i], m[j]) \/ Before(m[j], m[i]) \/ Backdated(i, j, behind)

\* What ended on the subject and single-valued relation of a new entry ended before
\* it starts, unless it was dated behind that.
Starts(ent, dated) ==
    /\ ent.edge.validTo = Forever /\ ent.edge.supersededBy = NoId
    /\ \A id \in EdgeIds :
          /\ ent.edge.rel \in SingleRels
          /\ Present(edges, id) /\ Key(edges[id]) = Key(ent.edge)
          /\ edges[id].validTo # Forever
          => edges[id].validTo <= ent.edge.validFrom \/ <<ent.id, id>> \in dated
StartsLater ==
    \A p \in Procs : Busy(p) /\ pending[p].id # newEdge[p].id => Starts(newEdge[p], behind)

TimeInv == InSlots(edges) /\ InSlots(diskEdges) /\ StartsLater

\* A successor is there, or is what an operation will add.
Successors ==
    crashes = 0 =>
        /\ ~loaded => diskEdges = NoEdges
        /\ \A id \in EdgeIds :
              Present(edges, id) /\ edges[id].supersededBy # NoId =>
                  \/ Present(edges, edges[id].supersededBy)
                  \/ \E p \in Procs : Busy(p) /\ newEdge[p].id = edges[id].supersededBy

HistoryInv == TimeInv /\ Successors

\* What an operation sets keeps the times in order.
SetInTime(ent, new) ==
    /\ Present(edges, ent.id) => ent.edge.validFrom = edges[ent.id].validFrom
    /\ ~Present(edges, ent.id) => Starts(ent, behind')
    /\ ent.id # new.id => Starts(new, behind') /\ ent.edge.validTo = new.edge.validFrom

LEMMA TimeTypes ==
    ASSUME TypeOK
    PROVE  /\ Forever \notin Nat
           /\ \A e \in Edge : /\ e.validFrom \in Nat /\ e.validTo \in Nat \union {Forever}
                              /\ e.supersededBy \in EdgeIds \union {NoId}
BY TimeAssumption, NullAssumption DEF TypeOK, Times, Edge

LEMMA InitHistory == Init => HistoryInv
<1> SUFFICES ASSUME Init PROVE HistoryInv
  OBVIOUS
<1>1. \A id \in EdgeIds : ~Present(edges, id) /\ ~Present(diskEdges, id)
  BY DEF Init, NoEdges, Present
<1>2. \A p \in Procs : ~Busy(p)
  BY DEF Init, Idle, Busy
<1> QED
  BY <1>1, <1>2 DEF Init, HistoryInv, TimeInv, InSlots, StartsLater, Successors

\* Operations of others are on other subjects and relations: what one of them
\* will add still starts later.
LEMMA OthersStart ==
    ASSUME ShapeInv, SerialInv, TimeInv, NEW p \in Procs, NEW ent, NEW new, NEW rest,
           SetSafely(p, ent, new, rest), NEW q \in Procs \ {p}, Busy(q)',
           pending'[q].id # newEdge'[q].id
    PROVE  Starts(newEdge[q], behind)'
<1>1. newEdge'[q] = newEdge[q] /\ pending'[q] = pending[q] /\ Busy(q) /\ behind \subseteq behind'
  BY DEF SetSafely, ShapeInv, TypeOK, Busy
<1>2. Starts(newEdge[q], behind) /\ Key(newEdge[q].edge) # Key(new.edge)
  BY <1>1 DEF TimeInv, StartsLater, SetSafely, NoneOn
<1>3. \A id \in EdgeIds : id # ent.id => edges'[id] = edges[id]
  BY DEF SetSafely
<1>4. edges'[ent.id] = ent.edge /\ Key(ent.edge) = Key(new.edge)
  BY DEF SetSafely, Entry
<1> QED
  BY <1>1, <1>2, <1>3, <1>4 DEF Starts, Present

LEMMA SetTime ==
    ASSUME ShapeInv, SerialInv, TimeInv, NEW p \in Procs, NEW ent, NEW new, NEW rest,
           SetSafely(p, ent, new, rest), SetInTime(ent, new)
    PROVE  TimeInv'
<1>1. /\ ent.id \in EdgeIds /\ ent.edge \in Edge /\ ent.edge # NoEdge
      /\ new.id \in EdgeIds /\ new.edge \in Edge /\ Key(ent.edge) = Key(new.edge)
  BY NoEdgeAssumption DEF SetSafely, Entry
<1>2. /\ \A id \in EdgeIds : edges'[id] = IF id = ent.id THEN ent.edge ELSE edges[id]
      /\ diskEdges' = diskEdges /\ behind \subseteq behind'
      /\ pending'[p] = ent /\ newEdge'[p] = new
  BY DEF SetSafely, disk, ShapeInv, TypeOK
<1>4. InSlots(diskEdges)'
  BY <1>2 DEF TimeInv, InSlots, Backdated, Present
<1>5. ASSUME NEW j \in EdgeIds, j # ent.id, Present(edges, j), Key(edges[j]) = Key(ent.edge),
             ent.edge.rel \in SingleRels
      PROVE  Before(edges[j], ent.edge) \/ Backdated(ent.id, j, behind')
  <2>1. CASE Present(edges, ent.id)
    <3>1. /\ Key(edges[ent.id]) = Key(edges[j]) /\ edges[ent.id].validTo = Forever
          /\ ent.edge.validFrom = edges[ent.id].validFrom
      BY <1>1, <1>5, <2>1 DEF SetSafely, SetInTime, Valid
    <3>2. edges[ent.id].rel = ent.edge.rel /\ edges[j].rel = ent.edge.rel
      BY <1>5, <3>1 DEF Key
    <3>3. \/ Before(edges[ent.id], edges[j]) \/ Before(edges[j], edges[ent.id])
          \/ Backdated(ent.id, j, behind)
      BY <1>1, <1>5, <2>1, <3>1, <3>2 DEF TimeInv, InSlots
    <3> QED
      BY <1>2, <3>1, <3>3 DEF Before, Backdated
  <2>2. CASE ~Present(edges, ent.id)
    <3>1. Starts(ent, behind')
      BY <2>2 DEF SetInTime
    <3>2. new.edge.rel = ent.edge.rel
      BY <1>1 DEF Key
    <3>3. \A id \in EdgeIds : Valid(edges, id) /\ id # ent.id => Key(edges[id]) # Key(new.edge)
      BY <1>5, <3>1, <3>2 DEF SetSafely, Starts
    <3>4. edges[j].validTo # Forever
      BY <1>1, <1>5, <3>3 DEF Valid, Present
    <3> QED
      BY <1>5, <3>1, <3>4 DEF Starts, Before, Backdated
  <2> QED
    BY <2>1, <2>2
<1>6. InSlots(edges)'
  <2> SUFFICES ASSUME NEW i \in EdgeIds, NEW j \in EdgeIds, i # j,
                      Present(edges', i), Present(edges', j),
                      Key(edges'[i]) = Key(edges'[j]), edges'[i].rel \in SingleRels
               PROVE  \/ Before(edges'[i], edges'[j]) \/ Before(edges'[j], edges'[i])
                      \/ Backdated(i, j, behind')
    BY DEF InSlots, Present
  <2>1. edges'[i].rel = edges'[j].rel
    BY DEF Key
  <2>2. CASE i = ent.id
    BY <1>2, <1>5, <2>1, <2>2 DEF Present, Backdated
  <2>3. CASE j = ent.id
    BY <1>2, <1>5, <2>1, <2>3 DEF Present, Backdated
  <2>4. CASE i # ent.id /\ j # ent.id
    BY <1>1, <1>2, <2>4 DEF TimeInv, InSlots, Backdated, Present
  <2> QED
    BY <2>2, <2>3, <2>4
<1>7. ASSUME ent.id # new.id PROVE Starts(new, behind)'
  <2>1. Starts(new, behind') /\ ent.edge.validTo = new.edge.validFrom
    BY <1>7 DEF SetInTime
  <2>2. new.edge.validFrom <= new.edge.validFrom
    BY <1>1, TimeTypes DEF ShapeInv
  <2> QED
    BY <1>1, <1>2, <2>1, <2>2 DEF Starts, Present
<1>8. StartsLater'
  BY <1>2, <1>7, OthersStart DEF StartsLater
<1> QED
  BY <1>4, <1>6, <1>8 DEF TimeInv

\* The file gets what memory has; what the file has besides on that subject and
\* relation is what memory has.
LEMMA FlushTime ==
    ASSUME ShapeInv, SerialInv, TimeInv, NEW p \in Procs, Flush(p)
    PROVE  TimeInv'
<1> DEFINE x == pending[p].id
<1>1. /\ pc[p] = "flush" /\ pc'[p] = "flushed" /\ Busy(p)
      /\ UNCHANGED <<edges, behind, pending, newEdge>>
      /\ \A q \in Procs \ {p} : pc'[q] = pc[q]
      /\ pending[p] \in Entry /\ x \in EdgeIds /\ pending[p].edge # NoEdge
      /\ edges[x] = pending[p].edge /\ loaded
  BY NoEdgeAssumption DEF ShapeInv, TypeOK, SerialInv, Mirror, LoadFirst, Flush, memory, Busy, Entry
<1>2. \A id \in EdgeIds : diskEdges'[id] = IF id = x THEN edges[x] ELSE diskEdges[id]
  BY <1>1 DEF ShapeInv, TypeOK, Flush, EdgeMap
<1>3. InSlots(edges)'
  BY <1>1 DEF TimeInv, InSlots, Present
<1>5. ASSUME NEW i \in EdgeIds, i # x, Present(diskEdges, i), Key(diskEdges[i]) = Key(edges[x])
      PROVE  edges[i] = diskEdges[i]
  <2>1. ASSUME NEW q \in Procs, pc[q] = "flush", pending[q].id = i PROVE FALSE
    <3>1. q # p /\ Busy(q) /\ pending[q] \in Entry /\ diskEdges[i] \in Edge
      BY <1>1, <1>5, <2>1, EdgeTypes DEF Busy, ShapeInv, TypeOK
    <3>2. pending[q].edge \in Edge /\ Occurs(i, pending[q].edge) /\ Occurs(i, diskEdges[i])
      BY <1>5, <2>1, <3>1 DEF Occurs, Entry
    <3>3. Key(pending[q].edge) = Key(diskEdges[i])
      BY <3>1, <3>2 DEF ShapeInv, OneShape, SameShape, Key
    <3>4. Key(newEdge[p].edge) = Key(newEdge[q].edge)
      BY <1>1, <1>5, <3>1, <3>3 DEF SerialInv, Round
    <3> QED
      BY <1>1, <3>1, <3>4 DEF SerialInv, Apart
  <2> QED
    BY <1>1, <2>1 DEF SerialInv, Mirror, MemoryMatchesFile
<1>6. ASSUME NEW i \in EdgeIds, i # x, Present(diskEdges, i), Key(diskEdges[i]) = Key(edges[x]),
             edges[x].rel \in SingleRels
      PROVE  \/ Before(diskEdges[i], edges[x]) \/ Before(edges[x], diskEdges[i])
             \/ Backdated(i, x, behind)
  <2>1. edges[i] = diskEdges[i] /\ Present(edges, i) /\ Present(edges, x)
    BY <1>1, <1>5, <1>6 DEF Present
  <2>2. edges[i].rel \in SingleRels /\ x \in EdgeIds
    BY <1>1, <1>6, <2>1 DEF Key
  <2> QED
    BY <1>1, <1>6, <2>1, <2>2 DEF TimeInv, InSlots
<1>7. InSlots(diskEdges)'
  <2> SUFFICES ASSUME NEW i \in EdgeIds, NEW j \in EdgeIds, i # j,
                      Present(diskEdges', i), Present(diskEdges', j),
                      Key(diskEdges'[i]) = Key(diskEdges'[j]), diskEdges'[i].rel \in SingleRels
               PROVE  \/ Before(diskEdges'[i], diskEdges'[j]) \/ Before(diskEdges'[j], diskEdges'[i])
                      \/ Backdated(i, j, behind')
    BY DEF InSlots, Present
  <2>1. diskEdges'[i].rel = diskEdges'[j].rel
    BY DEF Key
  <2>2. CASE i = x
    BY <1>1, <1>2, <1>6, <2>1, <2>2 DEF Present, Backdated
  <2>3. CASE j = x
    BY <1>1, <1>2, <1>6, <2>1, <2>3 DEF Present, Backdated
  <2>4. CASE i # x /\ j # x
    BY <1>1, <1>2, <2>4 DEF TimeInv, InSlots, Backdated, Present
  <2> QED
    BY <2>2, <2>3, <2>4
<1>8. StartsLater'
  <2>1. \A q \in Procs : Busy(q)' => Busy(q)
    BY <1>1 DEF Busy
  <2> QED
    BY <1>1, <2>1 DEF TimeInv, StartsLater, Starts, Present
<1> QED
  BY <1>3, <1>7, <1>8 DEF TimeInv

-----------------------------------------------------------------------------
(* Successors                                                              *)

LEMMA SetSuccessors ==
    ASSUME ShapeInv, SerialInv, Successors, NEW p \in Procs, NEW ent, NEW new, NEW rest,
           SetSafely(p, ent, new, rest), Busy(p) => new.id = newEdge[p].id,
           \/ ent.edge.supersededBy \in {NoId, new.id}
           \/ Present(edges, ent.id) /\ ent.edge.supersededBy = edges[ent.id].supersededBy
    PROVE  Successors'
<1>1. /\ ent.id \in EdgeIds /\ ent.edge # NoEdge
      /\ \A id \in EdgeIds : edges'[id] = IF id = ent.id THEN ent.edge ELSE edges[id]
      /\ UNCHANGED <<crashes, loaded, diskEdges>>
      /\ newEdge'[p] = new /\ Busy(p)'
      /\ \A q \in Procs \ {p} : newEdge'[q] = newEdge[q] /\ (Busy(q)' <=> Busy(q))
  BY NoEdgeAssumption DEF SetSafely, Entry, disk, ShapeInv, TypeOK, Busy
<1>2. \A id \in EdgeIds : Present(edges, id) => Present(edges', id)
  BY <1>1 DEF Present
<1>3. ASSUME NEW s, \E q \in Procs : Busy(q) /\ newEdge[q].id = s
      PROVE  \E q \in Procs : Busy(q)' /\ newEdge'[q].id = s
  BY <1>1, <1>3
<1>4. ASSUME crashes = 0, NEW id \in EdgeIds, Present(edges', id), edges'[id].supersededBy # NoId
      PROVE  \/ Present(edges', edges'[id].supersededBy)
             \/ \E q \in Procs : Busy(q)' /\ newEdge'[q].id = edges'[id].supersededBy
  <2> DEFINE s == edges'[id].supersededBy
  <2>1. CASE id = ent.id /\ s = new.id
    BY <1>1, <2>1
  <2>2. CASE Present(edges, id) /\ s = edges[id].supersededBy
    <3>1. edges[id] \in Edge /\ s \in EdgeIds
      BY <1>4, <2>2, EdgeTypes, TimeTypes DEF ShapeInv, TypeOK
    <3>2. Present(edges, s) \/ \E q \in Procs : Busy(q) /\ newEdge[q].id = s
      BY <1>4, <2>2 DEF Successors
    <3> QED
      BY <1>2, <1>3, <3>1, <3>2
  <2> QED
    BY <1>1, <1>4, <2>1, <2>2 DEF Present
<1> QED
  BY <1>1, <1>4 DEF Successors, Present

\* The loop of addEdge, at its first turn or at a later one.
LEMMA LoopHistory ==
    ASSUME ShapeInv, SerialInv, HistoryInv, NEW p \in Procs, NEW victims, NEW new,
           LoopSafely(p, victims, new), Starts(new, behind'), Busy(p) => new.id = newEdge[p].id
    PROVE  HistoryInv'
<1>1. ASSUME SetSafely(p, new, new, {}) PROVE HistoryInv'
  <2>1. SetInTime(new, new)
    BY DEF SetInTime, Starts, LoopSafely
  <2>2. new.edge.supersededBy = NoId
    BY DEF Starts
  <2> QED
    BY <1>1, <2>1, <2>2, SetTime, SetSuccessors DEF HistoryInv
<1>2. ASSUME NEW v \in victims, SetSafely(p, Retired(v, new), new, victims \ {v})
      PROVE  HistoryInv'
  <2> DEFINE ent == Retired(v, new)
  <2>1. /\ v \in Entry /\ v.edge \in Edge /\ new.edge \in Edge
        /\ Present(edges, v.id) /\ edges[v.id] = v.edge /\ v.id # new.id
    BY DEF LoopSafely, Entry
  <2>2. /\ ent.id = v.id /\ ent.edge.validFrom = v.edge.validFrom
        /\ ent.edge.validTo = new.edge.validFrom /\ ent.edge.supersededBy = new.id
    BY <2>1 DEF Retired, Edge
  <2>4. SetInTime(ent, new)
    BY <2>1, <2>2 DEF SetInTime, Starts
  <2> HIDE DEF ent
  <2>5. SetSafely(p, ent, new, victims \ {v})
    BY <1>2 DEF ent
  <2> QED
    BY <2>2, <2>4, <2>5, SetTime, SetSuccessors DEF HistoryInv
<1> QED
  BY <1>1, <1>2, LoopSets

LEMMA StepHistory ==
    ASSUME ShapeInv, SerialInv, HistoryInv, [SerialNext]_vars
    PROVE  HistoryInv'
<1>1. ASSUME UNCHANGED <<edges, diskEdges, behind, loaded, crashes>>,
             \A p \in Procs : /\ Busy(p)' => Busy(p) /\ pending'[p] = pending[p]
                                                     /\ newEdge'[p] = newEdge[p]
                              /\ Busy(p) /\ ~Busy(p)' => Present(edges, newEdge[p].id)
      PROVE  HistoryInv'
  <2>1. TimeInv'
    BY <1>1 DEF HistoryInv, TimeInv, InSlots, StartsLater, Starts, Present
  <2>2. Successors'
    <3> SUFFICES ASSUME crashes = 0, NEW id \in EdgeIds, Present(edges, id),
                        edges[id].supersededBy # NoId
                 PROVE  \/ Present(edges, edges[id].supersededBy)
                        \/ \E q \in Procs : Busy(q)' /\ newEdge'[q].id = edges[id].supersededBy
      BY <1>1 DEF HistoryInv, Successors, Present
    <3> QED
      BY <1>1 DEF HistoryInv, Successors
  <2> QED
    BY <2>1, <2>2 DEF HistoryInv
<1>2. ASSUME NEW p \in Procs, LoadRead(p) \/ (\E n \in Nodes : AddNode(p, n)) \/ FlushNode(p)
      PROVE  HistoryInv'
  <2>1. UNCHANGED <<edges, diskEdges, behind, loaded, crashes>>
    BY <1>2 DEF LoadRead, AddNode, FlushNode, memory, disk
  <2>2. ~Busy(p) /\ ~Busy(p)'
    BY <1>2 DEF LoadRead, AddNode, FlushNode, CanStart, Return, Busy, Idle, ShapeInv, TypeOK
  <2>3. \A q \in Procs \ {p} : pc'[q] = pc[q] /\ pending'[q] = pending[q] /\ newEdge'[q] = newEdge[q]
    BY <1>2 DEF LoadRead, AddNode, FlushNode, Return, ShapeInv, TypeOK
  <2> QED
    BY <1>1, <2>1, <2>2, <2>3 DEF Busy
<1>3. ASSUME NEW p \in Procs, LoadApply(p) PROVE HistoryInv'
  <2>1. /\ edges' = diskEdges /\ loaded' /\ ~loaded
        /\ UNCHANGED <<diskEdges, behind, crashes>>
    <3>1. /\ pc[p] = "loading" /\ ~loaded /\ edges = NoEdges /\ snapshot[p].edges = diskEdges
          /\ diskEdges \in EdgeMap
      BY <1>3 DEF LoadApply, SerialInv, LoadFirst, ShapeInv, TypeOK
    <3> QED
      BY <1>3, <3>1 DEF LoadApply, EdgeMap, NoEdges, Present, disk
  <2>2. \A q \in Procs : ~Busy(q)'
    BY <1>3 DEF LoadApply, SerialInv, LoadFirst, ShapeInv, TypeOK, Busy, Idle
  <2>3. crashes = 0 => \A id \in EdgeIds : ~Present(edges', id)
    BY <2>1 DEF HistoryInv, Successors, NoEdges, Present
  <2> QED
    BY <2>1, <2>2, <2>3 DEF HistoryInv, TimeInv, InSlots, StartsLater, Successors, Present
<1>4. ASSUME NEW p \in Procs, Flush(p) PROVE HistoryInv'
  <2>1. TimeInv'
    BY <1>4, FlushTime DEF HistoryInv
  <2>2. Successors'
    <3>1. UNCHANGED <<edges, newEdge, loaded, crashes>> /\ loaded
      BY <1>4 DEF Flush, memory, SerialInv, LoadFirst
    <3>2. \A q \in Procs : Busy(q)' <=> Busy(q)
      BY <1>4 DEF Flush, Busy, ShapeInv, TypeOK
    <3> QED
      BY <3>1, <3>2 DEF HistoryInv, Successors, Present
  <2> QED
    BY <2>1, <2>2 DEF HistoryInv
<1>5. ASSUME NEW p \in Procs, Resume(p) PROVE HistoryInv'
  <2>1. Busy(p) /\ UNCHANGED <<diskEdges, behind, crashes>>
    BY <1>5 DEF Resume, Busy, disk
  <2>2. CASE pending[p].id = newEdge[p].id /\ Return(p) /\ UNCHANGED memory
    <3>1. Present(edges, newEdge[p].id) /\ ~Busy(p)'
      BY <2>1, <2>2 DEF ShapeInv, TypeOK, Known, Return, Busy, Idle
    <3>2. \A q \in Procs \ {p} : pc'[q] = pc[q] /\ pending'[q] = pending[q] /\ newEdge'[q] = newEdge[q]
      BY <2>2 DEF Return, ShapeInv, TypeOK
    <3> QED
      BY <1>1, <2>1, <2>2, <3>1, <3>2 DEF memory, Busy
  <2>3. CASE ~(pending[p].id = newEdge[p].id /\ Return(p) /\ UNCHANGED memory)
    <3>1. LoopSafely(p, todo[p], newEdge[p])
      BY <1>5, <2>3, ResumeLoops
    <3>2. pending[p].id # newEdge[p].id
      BY <1>5, <2>3 DEF Resume
    <3>3. Starts(newEdge[p], behind')
      BY <2>1, <3>2 DEF HistoryInv, TimeInv, StartsLater
    <3> QED
      BY <3>1, <3>3, LoopHistory
  <2> QED
    BY <2>2, <2>3
<1>6. ASSUME NEW p \in Procs, NEW id \in EdgeIds, NEW from \in Subjects, NEW to \in Nodes,
             NEW rel \in Rels, NEW validFrom \in Times, NEW supersede \in BOOLEAN,
             rel \in SingleRels => supersede, NoneOn(p, <<from, rel>>), NodesSettled({from, to}),
             AddEdge(p, id, from, to, rel, validFrom, supersede)
      PROVE  HistoryInv'
  <2>1. PICK victims, new : /\ LoopSafely(p, victims, new)
                            /\ new.edge.validTo = Forever /\ new.edge.supersededBy = NoId
                            /\ behind' = behind \union {<<new.id, i>> : i \in EndsAfterStart(new)}
    BY <1>6, SubjectsAssumption, AddEdgeLoops
  <2>2. Starts(new, behind')
    <3>1. new.edge \in Edge /\ \A k \in EdgeIds : Present(edges, k) => edges[k] \in Edge
      BY <2>1, EdgeTypes DEF LoopSafely, Entry, ShapeInv, TypeOK
    <3> QED
      BY <2>1, <3>1, TimeTypes DEF Starts, EndsAfterStart, ShapeInv
  <2>3. ~Busy(p)
    BY <1>6 DEF AddEdge, CanStart, Busy, Idle
  <2> QED
    BY <2>1, <2>2, <2>3, LoopHistory
<1>7. ASSUME NEW p \in Procs, NEW id \in EdgeIds, NEW at \in Times,
             NoneOn(p, Key(edges[id])), Retract(p, id, at)
      PROVE  HistoryInv'
  <2> DEFINE ent == [id |-> id, edge |-> [edges[id] EXCEPT !.validTo = at]]
  <2>1. Present(edges, id) /\ edges[id] \in Edge /\ ~Busy(p)
    BY <1>7, EdgeTypes DEF Retract, Valid, Present, CanStart, Busy, Idle, ShapeInv, TypeOK
  <2>2. /\ ent.id = id /\ ent.edge.validFrom = edges[id].validFrom
        /\ ent.edge.supersededBy = edges[id].supersededBy
    BY <2>1 DEF Edge
  <2>3. SetSafely(p, ent, ent, {})
    BY <1>7, RetractSets
  <2> HIDE DEF ent
  <2>5. SetInTime(ent, ent)
    BY <2>1, <2>2 DEF SetInTime
  <2> QED
    BY <2>1, <2>2, <2>3, <2>5, SetTime, SetSuccessors DEF HistoryInv
<1>9. CASE Crash
  <2>1. /\ \A id \in EdgeIds : ~Present(edges', id)
        /\ UNCHANGED diskEdges /\ crashes' # 0
        /\ \A p \in Procs : ~Busy(p)'
    BY <1>9, TimeAssumption DEF Crash, NoEdges, Present, disk, ShapeInv, TypeOK, Busy, Idle
  <2>2. ASSUME NEW i \in EdgeIds, NEW j \in EdgeIds, Backdated(i, j, behind),
               Present(diskEdges, i), Present(diskEdges, j)
        PROVE  Backdated(i, j, behind')
    BY <1>9, <2>2 DEF Crash, Backdated
  <2>3. InSlots(diskEdges)'
    BY <2>1, <2>2 DEF HistoryInv, TimeInv, InSlots, Present
  <2> QED
    BY <2>1, <2>3 DEF HistoryInv, TimeInv, InSlots, StartsLater, Successors, Present
<1>10. CASE UNCHANGED vars
  BY <1>1, <1>10 DEF vars, memory, disk, control, Busy
<1>11. ASSUME NEW p \in Procs, SerialStart(p) PROVE HistoryInv'
  BY <1>2, <1>6, <1>7, <1>11 DEF SerialStart
<1>12. ASSUME NEW p \in Procs, Step(p) PROVE HistoryInv'
  BY <1>2, <1>3, <1>4, <1>5, <1>12 DEF Step
<1> QED
  BY <1>9, <1>10, <1>11, <1>12 DEF SerialNext

LEMMA SerialHistory == SerialSpec => []HistoryInv
<1>1. Init => HistoryInv
  BY InitHistory
<1>2. ShapeInv /\ SerialInv /\ HistoryInv /\ [SerialNext]_vars => HistoryInv'
  BY StepHistory
<1> QED
  BY <1>1, <1>2, SerialInvariant, PTL DEF SerialSpec

\* A query as of any time finds one value of a single-valued relation at most:
\* the intervals of two of its values overlap only where a caller dated one of
\* them before the end of the other, whatever else is retired, raced or reread.
THEOREM GraphAsOfUnique == SerialSpec => []AsOfUnique
<1>1. ASSUME ShapeInv, HistoryInv PROVE AsOfUnique
  <2> SUFFICES ASSUME NEW i \in EdgeIds, NEW j \in EdgeIds, NEW t \in Times,
                      Present(edges, i), Present(edges, j),
                      Key(edges[i]) = Key(edges[j]), edges[i].rel \in SingleRels,
                      ValidAt(edges[i], t), ValidAt(edges[j], t), i # j,
                      <<i, j>> \notin behind, <<j, i>> \notin behind
               PROVE  FALSE
    BY DEF AsOfUnique
  <2>1. edges[i] \in Edge /\ edges[j] \in Edge /\ t \in Nat
    BY <1>1, EdgeTypes, TimeAssumption DEF ShapeInv, TypeOK, Times
  <2>2. Before(edges[i], edges[j]) \/ Before(edges[j], edges[i]) \/ Backdated(i, j, behind)
    BY <1>1 DEF HistoryInv, TimeInv, InSlots
  <2> QED
    BY <1>1, <2>1, <2>2, TimeTypes DEF ShapeInv, Before, ValidAt, Backdated
<1> QED
  BY <1>1, SerialInvariant, SerialHistory, PTL

\* A superseded edge names an edge that is there, once the operation that
\* superseded it is over; only a crash in the middle of one leaves it dangling.
THEOREM GraphSuccessorExists == SerialSpec => []SuccessorExists
<1>1. HistoryInv => SuccessorExists
  BY DEF HistoryInv, Successors, SuccessorExists
<1> QED
  BY <1>1, SerialHistory, PTL
=============================================================================
