------------------------------ MODULE PgGraph ------------------------------
(***************************************************************************)
(* The Postgres graph backend of src/memory/graph/pg.ts: a node table and  *)
(* an edge table, changed by concurrent clients under READ COMMITTED.      *)
(*                                                                         *)
(* One action is one statement, except the supersede UPDATE, which visits  *)
(* its rows one by one: it waits for a row another transaction has locked  *)
(* and evaluates its WHERE again on what that transaction left.  What a    *)
(* transaction has written and not committed is in `mine`; a row lock is a *)
(* present entry of it.  Postgres itself is external: its key, foreign-key *)
(* and range errors are modelled from the statements and from pg.sql.      *)
(***************************************************************************)
EXTENDS Naturals, Sequences, FiniteSets

CONSTANTS
    Procs,     \* clients of one database, in one process or in several
    Nodes, EdgeIds,
    Facts,     \* what edges say, records [from, to, rel]
    Requests,  \* bound: the addEdge calls made, records [fact, at, supersede]
    MaxTime,   \* bound: timestamps
    MaxDepth,  \* bound: hops of a traversal
    MaxFaults, \* bound: connections lost
    NoEdge, NoId, Forever

Times == 0 .. MaxTime
Fact == [from : Nodes, to : Nodes, rel : {f.rel : f \in Facts}]

ASSUME FactsAssumption == Facts \subseteq Fact
ASSUME RequestsAssumption ==
    Requests \subseteq [fact : Facts, at : Times, supersede : BOOLEAN]
ASSUME PgBoundsAssumption == MaxTime \in Nat /\ MaxDepth \in Nat /\ MaxFaults \in Nat
ASSUME PgNullAssumption == NoId \notin EdgeIds /\ Forever \notin Nat

\* A row of the edge table without its id; valid_to = NULL is Forever.
Edge == [fact : Facts, validFrom : Times, validTo : Times \union {Forever},
         supersededBy : EdgeIds \union {NoId}]

ASSUME PgNoEdgeAssumption == NoEdge \notin Edge

VARIABLES
    node, edge,  \* the tables, as committed
    mine,        \* per client: rows written by its open transaction
    gpc,         \* per client: the next statement
    call,        \* per client: the call it executes
    scan,        \* per client: rows its UPDATE has still to visit
    told,        \* history, per edge id: what addEdge told its callers
    gfaults      \* connections lost so far

graphTables == <<node, edge>>
graphVars == <<node, edge, mine, gpc, call, scan, told, gfaults>>

Table == [EdgeIds -> Edge \union {NoEdge}]
NoRows == [id \in EdgeIds |-> NoEdge]
Present(m, id) == m[id] # NoEdge
Valid(m, id) == m[id] # NoEdge /\ m[id].validTo = Forever
Written(p) == {id \in EdgeIds : Present(mine[p], id)}

\* addEdge(args), its id and valid_from settled.
AddCall == [id : EdgeIds, fact : Facts, at : Times, supersede : BOOLEAN]
InTx == {"from", "to", "supersede", "update", "insert", "commit"}

GraphTypeOK ==
    /\ node \in SUBSET Nodes /\ edge \in Table
    /\ mine \in [Procs -> Table]
    /\ gpc \in [Procs -> InTx \union {"idle"}]
    /\ call \in [Procs -> AddCall \union {NoId}]
    /\ scan \in [Procs -> SUBSET EdgeIds]
    /\ told \in [EdgeIds -> {"nothing", "added", "refused", "unknown"}]
    /\ gfaults \in 0 .. MaxFaults
    /\ \A p \in Procs : gpc[p] \in InTx => call[p] \in AddCall

GraphInit ==
    /\ node = {} /\ edge = NoRows
    /\ mine = [p \in Procs |-> NoRows]
    /\ gpc = [p \in Procs |-> "idle"]
    /\ call = [p \in Procs |-> NoId]
    /\ scan = [p \in Procs |-> {}]
    /\ told = [id \in EdgeIds |-> "nothing"]
    /\ gfaults = 0

-----------------------------------------------------------------------------
(* withTx, and what ends a call                                            *)

\* A committed row that another open transaction has locked.
Locked(p, id) == Present(edge, id) /\ \E q \in Procs \ {p} : Present(mine[q], id)

GReturn(p) ==
    /\ gpc' = [gpc EXCEPT ![p] = "idle"]
    /\ call' = [call EXCEPT ![p] = NoId]
    /\ mine' = [mine EXCEPT ![p] = NoRows]
    /\ scan' = [scan EXCEPT ![p] = {}]

Goto(p, place) == gpc' = [gpc EXCEPT ![p] = place]

\* A later answer to another call with the same id does not undo an earlier one.
Tell(id, answer) ==
    told' = [told EXCEPT ![id] =
        IF @ \in {"added", "unknown"} /\ answer = "refused" THEN @ ELSE answer]

\* Mutant: the statements run on the pool, outside the transaction.
RollbackNothing(p) ==
    /\ edge' = [id \in EdgeIds |-> IF Present(mine[p], id) THEN mine[p][id] ELSE edge[id]]
    /\ Tell(call[p].id, "refused")
    /\ GReturn(p)
    /\ UNCHANGED <<node, gfaults>>

\* A statement failed: ROLLBACK, and the error reaches the caller.
Rollback(p) ==
    /\ Tell(call[p].id, "refused")
    /\ GReturn(p)
    /\ UNCHANGED <<graphTables, gfaults>>

\* What the transaction wrote becomes visible.
Publish(p) ==
    edge' = [id \in EdgeIds |-> IF Present(mine[p], id) THEN mine[p][id] ELSE edge[id]]

-----------------------------------------------------------------------------
(* addNode: one upsert.                                                    *)

GAddNode(p, n) ==
    /\ gpc[p] = "idle"
    /\ node' = node \union {n}
    /\ UNCHANGED <<edge, mine, gpc, call, scan, told, gfaults>>

-----------------------------------------------------------------------------
(* addEdge: one transaction.                                               *)

GAddEdge(p, id, r) ==
    /\ gpc[p] = "idle"
    /\ call' = [call EXCEPT ![p] =
          [id |-> id, fact |-> r.fact, at |-> r.at, supersede |-> r.supersede]]
    /\ Goto(p, "from")
    /\ UNCHANGED <<graphTables, mine, scan, told, gfaults>>

\* assertNodeExists, for one endpoint and then for the other.
AssertNode(p) ==
    \/ /\ gpc[p] = "from" /\ call[p].fact.from \in node
       /\ Goto(p, "to")
       /\ UNCHANGED <<graphTables, mine, call, scan, told, gfaults>>
    \/ /\ gpc[p] = "to" /\ call[p].fact.to \in node
       /\ Goto(p, IF call[p].supersede THEN "supersede" ELSE "insert")
       /\ UNCHANGED <<graphTables, mine, call, scan, told, gfaults>>
    \/ /\ gpc[p] = "from" /\ call[p].fact.from \notin node
       /\ Rollback(p)
    \/ /\ gpc[p] = "to" /\ call[p].fact.to \notin node
       /\ Rollback(p)

\* The WHERE of the supersede UPDATE.
Victim(c, id) ==
    /\ Valid(edge, id) /\ id # c.id
    /\ edge[id].fact.from = c.fact.from /\ edge[id].fact.rel = c.fact.rel

SupersedeStart(p) ==
    /\ gpc[p] = "supersede"
    /\ scan' = [scan EXCEPT ![p] = {id \in EdgeIds : Victim(call[p], id)}]
    /\ Goto(p, "update")
    /\ UNCHANGED <<graphTables, mine, call, told, gfaults>>

\* The next row, once nobody else has it locked: passed over if it is no longer
\* a victim, and an error if the index on tstzrange(valid_from, valid_to) would
\* get an interval that ends before it begins.
SupersedeRow(p, id) ==
    /\ gpc[p] = "update" /\ id \in scan[p] /\ ~Locked(p, id)
    /\ \/ /\ Victim(call[p], id)
          /\ call[p].at < edge[id].validFrom
          /\ Rollback(p)
       \/ /\ Victim(call[p], id) => call[p].at >= edge[id].validFrom
          /\ scan' = [scan EXCEPT ![p] = @ \ {id}]
          /\ mine' = IF Victim(call[p], id)
                     THEN [mine EXCEPT ![p][id] =
                             [edge[id] EXCEPT !.validTo = call[p].at,
                                              !.supersededBy = call[p].id]]
                     ELSE mine
          /\ UNCHANGED <<graphTables, gpc, call, told, gfaults>>

\* superseded_by REFERENCES edge(id), and the constraint is not deferrable: it
\* is checked when the UPDATE ends, and the INSERT comes after.
SuccessorKnown(p) == Written(p) # {} => Present(edge, call[p].id)

SupersedeEnd(p) ==
    /\ gpc[p] = "update" /\ scan[p] = {}
    /\ \/ /\ SuccessorKnown(p)
          /\ Goto(p, "insert")
          /\ UNCHANGED <<graphTables, mine, call, scan, told, gfaults>>
       \/ /\ ~SuccessorKnown(p)
          /\ Rollback(p)

\* The INSERT fails on an id that exists, and waits for a transaction that is
\* inserting it.
GInsert(p) ==
    /\ gpc[p] = "insert"
    /\ \A q \in Procs \ {p} : ~Present(mine[q], call[p].id)
    /\ \/ /\ Present(edge, call[p].id)
          /\ Rollback(p)
       \/ /\ ~Present(edge, call[p].id)
          /\ mine' = [mine EXCEPT ![p][call[p].id] =
                [fact |-> call[p].fact, validFrom |-> call[p].at,
                 validTo |-> Forever, supersededBy |-> NoId]]
          /\ Goto(p, "commit")
          /\ UNCHANGED <<graphTables, call, scan, told, gfaults>>

Commit(p) ==
    /\ gpc[p] = "commit"
    /\ Publish(p)
    /\ Tell(call[p].id, "added")
    /\ GReturn(p)
    /\ UNCHANGED <<node, gfaults>>

-----------------------------------------------------------------------------
(* retractEdge: one UPDATE.  When it changes nothing, the SELECT that       *)
(* follows only reads.                                                      *)

\* Mutant: the UPDATE does not ask for valid_to IS NULL.
RetractAnyRow(p, id, at) ==
    /\ gpc[p] = "idle" /\ ~Locked(p, id)
    /\ Present(edge, id) /\ at >= edge[id].validFrom
    /\ edge' = [edge EXCEPT ![id].validTo = at]
    /\ UNCHANGED <<node, mine, gpc, call, scan, told, gfaults>>

\* It waits for a row that is locked, and fails on an interval that would end
\* before it begins.
GRetract(p, id, at) ==
    /\ gpc[p] = "idle" /\ ~Locked(p, id)
    /\ Valid(edge, id) /\ at >= edge[id].validFrom
    /\ edge' = [edge EXCEPT ![id].validTo = at]
    /\ UNCHANGED <<node, mine, gpc, call, scan, told, gfaults>>

-----------------------------------------------------------------------------
(* Postgres                                                                *)

\* The connection of a transaction is lost: the server rolls back.  Lost while COMMIT is on its
\* way, the transaction may have been committed, and withTx throws all the same.
LoseConnection(p) ==
    /\ gfaults < MaxFaults /\ gpc[p] \in InTx
    /\ gfaults' = gfaults + 1
    /\ \/ edge' = edge
       \/ gpc[p] = "commit" /\ Publish(p)
    /\ Tell(call[p].id, IF gpc[p] = "commit" THEN "unknown" ELSE "refused")
    /\ GReturn(p)
    /\ UNCHANGED node

\* Two superseding transactions that wait for a row of each other.
WaitsFor(p, q) ==
    gpc[p] = "update" /\ \E id \in scan[p] : Present(edge, id) /\ Present(mine[q], id)

DeadlockDetected(p) ==
    /\ \E q \in Procs \ {p} : WaitsFor(p, q) /\ WaitsFor(q, p)
    /\ Rollback(p)

GraphStep(p) ==
    \/ AssertNode(p) \/ SupersedeStart(p) \/ SupersedeEnd(p)
    \/ GInsert(p) \/ Commit(p) \/ DeadlockDetected(p)
    \/ \E id \in EdgeIds : SupersedeRow(p, id)

GraphNext ==
    \E p \in Procs :
        \/ \E n \in Nodes : GAddNode(p, n)
        \/ \E id \in EdgeIds, r \in Requests : GAddEdge(p, id, r)
        \/ \E id \in EdgeIds, at \in Times : GRetract(p, id, at)
        \/ GraphStep(p)
        \/ LoseConnection(p)

GraphSpec == GraphInit /\ [][GraphNext]_graphVars

-----------------------------------------------------------------------------
(* Queries                                                                 *)

\* query and neighbors with an asOf: tstzrange(valid_from, valid_to, '[)') @> t.
\* The default asks for valid_to IS NULL.
ValidAt(id, t) ==
    /\ Present(edge, id)
    /\ IF t = Forever THEN edge[id].validTo = Forever
       ELSE edge[id].validFrom <= t /\ (edge[id].validTo = Forever \/ t < edge[id].validTo)

Directions == {"out", "in", "both"}

\* Where an edge leads to from node n, in a direction.
Ends(n, id, dir) ==
    {m \in Nodes : \/ dir # "in" /\ edge[id].fact.from = n /\ edge[id].fact.to = m
                   \/ dir # "out" /\ edge[id].fact.to = n /\ edge[id].fact.from = m}

\* Mutant: a walk may come back to a node it has visited.
WalksRevisiting(seed, depth, dir, t) ==
    LET step(ws) == {Append(w, m) : w \in ws, m \in Nodes}
        more[k \in 0 .. depth] ==
            IF k = 0 THEN {<<seed>>}
            ELSE {w \in step(more[k - 1]) :
                    \E id \in EdgeIds : ValidAt(id, t) /\ w[k + 1] \in Ends(w[k], id, dir)}
    IN UNION {more[k] : k \in 0 .. depth}

\* The recursive CTE of neighbors: every walk of at most depth hops over valid
\* edges that meets no node twice, as the nodes it visits.
Walks(seed, depth, dir, t) ==
    LET step(ws) == {Append(w, m) : w \in ws, m \in Nodes}
        more[k \in 0 .. depth] ==
            IF k = 0 THEN {<<seed>>}
            ELSE {w \in step(more[k - 1]) :
                    /\ \A i \in 1 .. k : w[i] # w[k + 1]
                    /\ \E id \in EdgeIds : ValidAt(id, t) /\ w[k + 1] \in Ends(w[k], id, dir)}
    IN UNION {more[k] : k \in 0 .. depth}

\* What neighbors returns, without the paths: a row per walk and edge choice
\* whose node fetchNodes finds, ordered by hops.
Hits(seed, depth, dir, t) ==
    {<<w[Len(w)], Len(w) - 1>> : w \in {w \in Walks(seed, depth, dir, t) :
                                          Len(w) > 1 /\ w[Len(w)] \in node}}

\* GraphStore.neighbors (graph.ts), on the same edges: breadth first, each node
\* once, at the depth where it is first met.
Layer(seed, depth, dir, t) ==
    LET seen[k \in 0 .. depth] ==
            IF k = 0 THEN {seed}
            ELSE seen[k - 1] \union
                 {m \in Nodes : \E n \in seen[k - 1], id \in EdgeIds :
                                    ValidAt(id, t) /\ m \in Ends(n, id, dir)}
    IN seen

BfsHits(seed, depth, dir, t) ==
    LET seen == Layer(seed, depth, dir, t)
    IN {h \in Nodes \X (1 .. depth) : h[1] \in seen[h[2]] \ seen[h[2] - 1]}

-----------------------------------------------------------------------------
(* Properties                                                              *)

\* An addEdge happens or it does not.  What a caller was told was added is in
\* the table; what it was told was refused is not, and has retired no other
\* edge: in the JSONL store a crash leaves the victims retired and their
\* successor missing.
AllOrNothing ==
    \A id \in EdgeIds :
        /\ told[id] = "added" => Present(edge, id)
        /\ told[id] \in {"nothing", "refused"} =>
              /\ ~Present(edge, id)
              /\ \A i \in EdgeIds : Present(edge, i) => edge[i].supersededBy # id

\* A retired edge's row never changes again, whatever runs concurrently: the
\* row lock and the second look at valid_to IS NULL see to it, with no
\* discipline asked of the callers.
PgRetiredIsFinal ==
    [][\A id \in EdgeIds :
          Present(edge, id) /\ ~Valid(edge, id) => edge'[id] = edge[id]]_graphVars

\* The two backends reach the same nodes at the same least depth, although the
\* CTE enumerates paths and the in-memory store searches breadth first.
SameReach ==
    (\A p \in Procs : gpc[p] = "idle") =>
    \A seed \in node, depth \in 1 .. MaxDepth, dir \in Directions,
       t \in Times \union {Forever} :
        LET hits == Hits(seed, depth, dir, t) IN
        BfsHits(seed, depth, dir, t) =
            {h \in hits : \A g \in hits : g[1] = h[1] => h[2] <= g[2]}

\* pg.sql: superseded_by is "flipped by supersede() to maintain audit trail".  The
\* supersede UPDATE of an addEdge is accepted by the table's own constraint.
SupersedeAccepted ==
    \A p \in Procs : (gpc[p] = "update" /\ scan[p] = {}) => SuccessorKnown(p)
=============================================================================
