-------------------------- MODULE ServiceProofs ---------------------------
(***************************************************************************)
(* What is safe about the components that talk to a service over a         *)
(* connection. Part 1: the circuit breaker's safety invariants, for every  *)
(* number of callers, threshold and cooldown, which carry over to the      *)
(* networked embedder; and what that adds, slots and billing, for every    *)
(* number of calls and attempts.                                           *)
(* Part 2: the transactions of the Postgres graph backend, for every       *)
(* number of clients, nodes, edges and requests, with connections lost at  *)
(* any point, and the traversal, whose recursion is unfolded by an         *)
(* induction on sets of numbers. Part 3: the rows and the count of the     *)
(* Postgres vector backend, and its patches of several documents. What is  *)
(* proved of one side alone is carried over to the two backends of         *)
(* PgStore.                                                                *)
(***************************************************************************)
EXTENDS EmbedClient, PgStore, FiniteSetTheorems, WellFoundedInduction, TLAPS

-----------------------------------------------------------------------------
(* The breaker                                                             *)

\* The failures counted in `wasted` are those of the current streak while the
\* circuit is closed, and there are none in a half_open phase: the first ends it.
WasteAccounted ==
    /\ state = "closed" => wasted <= consecutiveFailures
    /\ state = "half_open" => wasted = 0

IInv == TypeOK /\ ClosedIffBudgetLeft /\ WasteAccounted /\ WasteBounded

LEMMA CapType ==
    /\ Threshold \in Nat \ {0} /\ Cooldown \in Nat /\ FailureCap \in Nat
    /\ FailureCap >= Threshold
BY ThresholdAssumption, CooldownAssumption, FailureCapAssumption

\* A set of running calls is finite, and has no more members than Calls.
LEMMA RunningFinite ==
    ASSUME NEW R \in SUBSET Calls
    PROVE  /\ IsFiniteSet(R)
           /\ Cardinality(R) \in Nat /\ Cardinality(Calls) \in Nat
           /\ Cardinality(R) <= Cardinality(Calls)
BY CallsAssumption, FS_Subset, FS_CardinalityType

\* A call that settles leaves one fewer running.
LEMMA RunningShrinks ==
    ASSUME NEW R \in SUBSET Calls, NEW c \in R
    PROVE  Cardinality(R \ {c}) = Cardinality(R) - 1
BY RunningFinite, FS_RemoveElement

LEMMA InitIInv == Init => IInv
<1> SUFFICES ASSUME Init PROVE IInv
  OBVIOUS
<1>1. TypeOK
  BY CapType DEF Init, TypeOK, States
<1>2. ClosedIffBudgetLeft
  BY CapType DEF Init, ClosedIffBudgetLeft
<1>3. WasteAccounted
  BY DEF Init, WasteAccounted
<1>4. WasteBounded
  BY CapType, CallsAssumption, FS_EmptySet, FS_CardinalityType DEF Init, WasteBounded
<1> QED
  BY <1>1, <1>2, <1>3, <1>4 DEF IInv

LEMMA StepIInv == IInv /\ [Next]_vars => IInv'
<1> SUFFICES ASSUME IInv, [Next]_vars PROVE IInv'
  OBVIOUS
<1> USE CapType
<1>0. /\ TypeOK /\ ClosedIffBudgetLeft /\ WasteAccounted /\ WasteBounded
      /\ Cardinality(running) \in Nat /\ Cardinality(Calls) \in Nat
      /\ Cardinality(running) <= Cardinality(Calls)
  BY RunningFinite DEF IInv, TypeOK
<1>1. ASSUME NEW c \in Calls, ExecPass(c) PROVE IInv'
  <2>1. TypeOK' /\ ClosedIffBudgetLeft' /\ WasteAccounted'
    BY <1>0, <1>1 DEF ExecPass, TypeOK, ClosedIffBudgetLeft, WasteAccounted
  <2>2. Cardinality(running') \in Nat /\ Cardinality(running') <= Cardinality(Calls)
    BY <2>1, RunningFinite DEF TypeOK
  <2>3. wasted <= Threshold - 1
    BY <1>0, <1>1 DEF ExecPass, TypeOK, States, ClosedIffBudgetLeft, WasteAccounted
  <2>4. WasteBounded'
    BY <1>0, <1>1, <2>2, <2>3 DEF ExecPass, TypeOK, WasteBounded
  <2> QED
    BY <2>1, <2>4 DEF IInv
<1>2. ASSUME NEW c \in Calls, ExecTrial(c) PROVE IInv'
  <2>1. TypeOK' /\ ClosedIffBudgetLeft' /\ WasteAccounted'
    BY <1>0, <1>2 DEF ExecTrial, TypeOK, States, ClosedIffBudgetLeft, WasteAccounted
  <2>2. Cardinality(running') \in Nat /\ Cardinality(running') <= Cardinality(Calls)
    BY <2>1, RunningFinite DEF TypeOK
  <2>3. WasteBounded'
    BY <1>0, <1>2, <2>2 DEF ExecTrial, WasteBounded
  <2> QED
    BY <2>1, <2>3 DEF IInv
<1>3. ASSUME NEW c \in Calls, Succeed(c) PROVE IInv'
  <2>1. TypeOK' /\ ClosedIffBudgetLeft' /\ WasteAccounted'
    BY <1>0, <1>3 DEF Succeed, TypeOK, States, ClosedIffBudgetLeft, WasteAccounted
  <2>2. Cardinality(running') \in Nat /\ Cardinality(running') <= Cardinality(Calls)
    BY <2>1, RunningFinite DEF TypeOK
  <2>3. WasteBounded'
    BY <1>0, <1>3, <2>2 DEF Succeed, WasteBounded
  <2> QED
    BY <2>1, <2>3 DEF IInv
<1>4. ASSUME NEW c \in Calls, Fail(c) PROVE IInv'
  <2>1. TypeOK'
    BY <1>0, <1>4 DEF Fail, TypeOK, States, MinOf
  <2>2. ClosedIffBudgetLeft' /\ WasteAccounted'
    BY <1>0, <1>4 DEF Fail, Trips, TypeOK, States, MinOf, ClosedIffBudgetLeft, WasteAccounted
  <2>3. Cardinality(running') = Cardinality(running) - 1
    BY <1>0, <1>4, RunningShrinks DEF Fail, TypeOK
  <2>4. WasteBounded'
    BY <1>0, <1>4, <2>3 DEF Fail, TypeOK, WasteBounded
  <2> QED
    BY <2>1, <2>2, <2>4 DEF IInv
<1>5. ASSUME NEW c \in Calls, FailUncounted(c) PROVE IInv'
  <2>1. TypeOK' /\ ClosedIffBudgetLeft' /\ WasteAccounted'
    BY <1>0, <1>5 DEF FailUncounted, TypeOK, ClosedIffBudgetLeft, WasteAccounted
  <2>2. Cardinality(running') = Cardinality(running) - 1
    BY <1>0, <1>5, RunningShrinks DEF FailUncounted, TypeOK
  <2>3. WasteBounded'
    BY <1>0, <1>5, <2>2 DEF FailUncounted, TypeOK, WasteBounded
  <2> QED
    BY <2>1, <2>3 DEF IInv
<1>6. ASSUME Reset PROVE IInv'
  <2>1. TypeOK' /\ ClosedIffBudgetLeft' /\ WasteAccounted'
    BY <1>0, <1>6 DEF Reset, TypeOK, States, ClosedIffBudgetLeft, WasteAccounted
  <2>2. WasteBounded'
    BY <1>0, <1>6 DEF Reset, WasteBounded
  <2> QED
    BY <2>1, <2>2 DEF IInv
<1>7. CASE Tick
  BY <1>0, <1>7 DEF Tick, IInv, TypeOK, ClosedIffBudgetLeft, WasteAccounted, WasteBounded
<1>8. CASE Heal
  BY <1>0, <1>8 DEF Heal, IInv, TypeOK, ClosedIffBudgetLeft, WasteAccounted, WasteBounded
<1>9. CASE UNCHANGED vars
  BY <1>0, <1>9 DEF vars, IInv, TypeOK, ClosedIffBudgetLeft, WasteAccounted, WasteBounded
<1> QED
  BY <1>1, <1>2, <1>3, <1>4, <1>5, <1>6, <1>7, <1>8, <1>9 DEF Next, Exec, Settle

\* The strengthened invariant holds of every behaviour of the breaker.
THEOREM BreakerInvariant == Spec => []IInv
BY InitIInv, StepIInv, PTL DEF Spec

\* Every variable keeps its type.
THEOREM BreakerTypeOK == Spec => []TypeOK
<1>1. IInv => TypeOK
  BY DEF IInv
<1> QED
  BY <1>1, BreakerInvariant, PTL

\* The circuit is closed exactly while the failure streak is below the
\* threshold, whatever settles late.
THEOREM BreakerBudget == Spec => []ClosedIffBudgetLeft
<1>1. IInv => ClosedIffBudgetLeft
  BY DEF IInv
<1> QED
  BY <1>1, BreakerInvariant, PTL

\* A broken upstream costs at most Threshold - 1 failures plus one for every
\* concurrent caller between two recoveries.
THEOREM BreakerWaste == Spec => []WasteBounded
<1>1. IInv => WasteBounded
  BY DEF IInv
<1> QED
  BY <1>1, BreakerInvariant, PTL

-----------------------------------------------------------------------------
(* The embedder                                                            *)

LEMMA ClientStepRefines == [ClientNext]_allVars => [Next]_vars
<1> SUFFICES ASSUME [ClientNext]_allVars PROVE [Next]_vars
  OBVIOUS
<1>1. ASSUME NEW c \in Calls, Embed(c) PROVE Next
  BY <1>1 DEF Embed, Next, Exec
<1>2. ASSUME NEW c \in Calls, Progress(c) PROVE [Next]_vars
  BY <1>2 DEF Progress, Respond, Backoff, Retry, GiveUp, Refused, Meter, Next, Settle
<1>3. ASSUME Reset \/ Tick \/ Heal PROVE Next
  BY <1>3 DEF Next
<1>4. CASE UNCHANGED allVars
  BY <1>4 DEF allVars
<1> QED
  BY <1>1, <1>2, <1>3, <1>4 DEF ClientNext

\* What a client does to the breaker is what its callers may do.
LEMMA ClientIsBreaker == ClientSpec => Spec
<1>1. ClientInit => Init
  BY DEF ClientInit
<1> QED
  BY <1>1, ClientStepRefines, PTL DEF ClientSpec, Spec

\* The bound on what a broken upstream costs holds with retries in the loop.
THEOREM ClientWaste == ClientSpec => []WasteBounded
BY ClientIsBreaker, BreakerWaste, PTL

\* A late success or failure never leaves the circuit closed with its budget
\* spent or shut with one left, with retries in the loop.
THEOREM ClientBudget == ClientSpec => []ClosedIffBudgetLeft
BY ClientIsBreaker, BreakerBudget, PTL

-----------------------------------------------------------------------------
(* Slots and billing                                                       *)

\* Whoever filled the usage box is still to be billed.
BoxUnbilled == usageBox # NoUsage => usageBox \in unbilled

\* A backoff is always followed by an attempt that is within the limit.
AttemptLeft == \A c \in Calls : phase[c] = "backoff" => attempt[c] < MaxAttempts

ClientIInv == ClientTypeOK /\ InFlightAgrees /\ BoxUnbilled /\ AttemptLeft

LEMMA ClientInitIInv == ClientInit => ClientIInv
<1> SUFFICES ASSUME ClientInit PROVE ClientIInv
  OBVIOUS
<1>1. TypeOK
  BY InitIInv DEF ClientInit, IInv
<1>2. ClientTypeOK
  BY <1>1, MaxAttemptsAssumption DEF ClientInit, ClientTypeOK
<1>3. InFlightAgrees /\ BoxUnbilled /\ AttemptLeft
  BY DEF ClientInit, Init, InFlightAgrees, BoxUnbilled, AttemptLeft
<1> QED
  BY <1>2, <1>3 DEF ClientIInv

LEMMA ClientStepIInv == ClientIInv /\ TypeOK' /\ [ClientNext]_allVars => ClientIInv'
<1> SUFFICES ASSUME ClientIInv, TypeOK', [ClientNext]_allVars PROVE ClientIInv'
  OBVIOUS
<1> USE MaxAttemptsAssumption, NoUsageAssumption
<1>0. ClientTypeOK /\ InFlightAgrees /\ BoxUnbilled /\ AttemptLeft
  BY DEF ClientIInv
<1>1. ASSUME NEW c \in Calls, Embed(c) PROVE ClientIInv'
  <2>1. ClientTypeOK' /\ BoxUnbilled' /\ AttemptLeft'
    BY <1>0, <1>1 DEF Embed, GoTo, ClientTypeOK, AttemptLeft, BoxUnbilled
  <2>2. running' = running \union {c}
    BY <1>1 DEF Embed, ExecPass, ExecTrial
  <2>3. InFlightAgrees'
    BY <1>0, <1>1, <2>2 DEF Embed, GoTo, ClientTypeOK, InFlightAgrees
  <2> QED
    BY <2>1, <2>3 DEF ClientIInv
<1>2. ASSUME NEW c \in Calls, Respond(c) PROVE ClientIInv'
  <2>1. ClientTypeOK' /\ BoxUnbilled' /\ AttemptLeft'
    BY <1>0, <1>2 DEF Respond, Reports, GoTo, ClientTypeOK, AttemptLeft, BoxUnbilled
  <2>2. running' = running \ {c}
    BY <1>2 DEF Respond, Succeed
  <2>3. InFlightAgrees'
    BY <1>0, <1>2, <2>2 DEF Respond, GoTo, ClientTypeOK, InFlightAgrees
  <2> QED
    BY <2>1, <2>3 DEF ClientIInv
<1>3. ASSUME NEW c \in Calls, Backoff(c) \/ Retry(c) PROVE ClientIInv'
  <2>1. running' = running
    BY <1>3 DEF Backoff, Retry, vars
  <2>2. ClientTypeOK' /\ BoxUnbilled' /\ InFlightAgrees' /\ AttemptLeft'
    <3>1. CASE Backoff(c)
      BY <1>0, <2>1, <3>1 DEF Backoff, GoTo, ClientTypeOK, AttemptLeft, BoxUnbilled, InFlightAgrees
    <3>2. CASE Retry(c)
      <4>1. attempt[c] < MaxAttempts
        BY <1>0, <3>2 DEF Retry, AttemptLeft
      <4> QED
        BY <1>0, <2>1, <3>2, <4>1 DEF Retry, GoTo, ClientTypeOK, AttemptLeft, BoxUnbilled, InFlightAgrees
    <3> QED
      BY <1>3, <3>1, <3>2
  <2> QED
    BY <2>2 DEF ClientIInv
<1>4. ASSUME NEW c \in Calls, GiveUp(c) \/ Refused(c) PROVE ClientIInv'
  <2>1. running' = running \ {c}
    BY <1>4 DEF GiveUp, Refused, Fail, FailUncounted
  <2>2. ClientTypeOK' /\ BoxUnbilled' /\ InFlightAgrees' /\ AttemptLeft'
    BY <1>0, <1>4, <2>1 DEF GiveUp, Refused, Reports, GoTo, ClientTypeOK, AttemptLeft, BoxUnbilled,
                                 InFlightAgrees
  <2> QED
    BY <2>2 DEF ClientIInv
<1>5. ASSUME NEW c \in Calls, Meter(c) PROVE ClientIInv'
  <2>1. running' = running
    BY <1>5 DEF Meter, vars
  <2>2. ClientTypeOK' /\ BoxUnbilled' /\ InFlightAgrees' /\ AttemptLeft'
    BY <1>0, <1>5, <2>1 DEF Meter, GoTo, ClientTypeOK, AttemptLeft, BoxUnbilled, InFlightAgrees
  <2> QED
    BY <2>2 DEF ClientIInv
<1>6. ASSUME Reset \/ Tick \/ Heal, UNCHANGED clientVars PROVE ClientIInv'
  <2>1. running' = running
    BY <1>6 DEF Reset, Tick, Heal
  <2> QED
    BY <1>0, <1>6, <2>1 DEF clientVars, ClientIInv, ClientTypeOK, AttemptLeft, BoxUnbilled, InFlightAgrees
<1>7. CASE UNCHANGED allVars
  BY <1>0, <1>7 DEF allVars, vars, clientVars, ClientIInv, ClientTypeOK, AttemptLeft, BoxUnbilled, InFlightAgrees
<1> QED
  BY <1>1, <1>2, <1>3, <1>4, <1>5, <1>6, <1>7 DEF ClientNext, Progress

LEMMA ClientInvariant == ClientSpec => []ClientIInv
<1>1. IInv => TypeOK
  BY DEF IInv
<1> QED
  BY <1>1, ClientInitIInv, ClientStepIInv, ClientIsBreaker, BreakerInvariant, PTL DEF ClientSpec

\* Every variable of the embedder keeps its type.
THEOREM ClientTypes == ClientSpec => []ClientTypeOK
<1>1. ClientIInv => ClientTypeOK
  BY DEF ClientIInv
<1> QED
  BY <1>1, ClientInvariant, PTL

\* The breaker counts a call as in flight exactly while its retry loop runs.
THEOREM ClientInFlight == ClientSpec => []InFlightAgrees
<1>1. ClientIInv => InFlightAgrees
  BY DEF ClientIInv
<1> QED
  BY <1>1, ClientInvariant, PTL

\* No usage report is billed twice.
THEOREM ClientBilling == ClientSpec => NoDoubleBilling
<1>1. ClientIInv /\ [ClientNext]_allVars =>
        [\A c \in Calls : Meter(c) => usageBox = NoUsage \/ usageBox \in unbilled]_allVars
  BY DEF ClientIInv, BoxUnbilled
<1> QED
  BY <1>1, ClientInvariant, PTL DEF ClientSpec, NoDoubleBilling

-----------------------------------------------------------------------------
(* Part 2.  The graph tables of Postgres                                   *)

\* Nothing is written outside a transaction.
IdleClean == \A p \in Procs : gpc[p] = "idle" => mine[p] = NoRows

\* A row is written by one open transaction at most, and one that is in the
\* table is valid there until that transaction commits.
RowLocks ==
    \A p \in Procs, id \in EdgeIds : Present(mine[p], id) =>
        /\ \A q \in Procs \ {p} : ~Present(mine[q], id)
        /\ Present(edge, id) => Valid(edge, id)

\* A transaction writes the edge it adds, and rows of the table that it retires
\* in favour of that edge.
WritesOwn ==
    \A p \in Procs, id \in EdgeIds : Present(mine[p], id) =>
        \/ id = call[p].id /\ mine[p][id].supersededBy = NoId
        \/ Present(edge, id) /\ mine[p][id].supersededBy = call[p].id

\* What is about to be committed holds the edge.
CommitsItsEdge ==
    \A p \in Procs : gpc[p] = "commit" => Present(mine[p], call[p].id)

PgIInv == /\ GraphTypeOK /\ IdleClean /\ RowLocks /\ WritesOwn
          /\ CommitsItsEdge /\ AllOrNothing

-----------------------------------------------------------------------------
(* Types                                                                   *)

LEMMA NoRowsType == NoRows \in Table /\ \A id \in EdgeIds : ~Present(NoRows, id)
BY DEF NoRows, Table, Present

LEMMA CallType ==
    ASSUME GraphTypeOK, NEW p \in Procs, gpc[p] \in InTx
    PROVE  /\ call[p] \in AddCall /\ call[p].id \in EdgeIds /\ call[p].id # NoId
           /\ call[p].fact \in Facts /\ call[p].at \in Times
           /\ call[p].supersede \in BOOLEAN
BY PgNullAssumption DEF GraphTypeOK, AddCall

\* The two ways of ending a call, and COMMIT, keep the types.
LEMMA ReturnType ==
    ASSUME GraphTypeOK, NEW p \in Procs, GReturn(p)
    PROVE  /\ mine' \in [Procs -> Table]
           /\ gpc' \in [Procs -> InTx \union {"idle"}]
           /\ call' \in [Procs -> AddCall \union {NoId}]
           /\ scan' \in [Procs -> SUBSET EdgeIds]
           /\ \A q \in Procs : gpc'[q] \in InTx => call'[q] \in AddCall
BY NoRowsType DEF GraphTypeOK, GReturn, InTx

LEMMA TellType ==
    ASSUME GraphTypeOK, NEW id \in EdgeIds,
           NEW answer \in {"added", "refused", "unknown"}, Tell(id, answer)
    PROVE  told' \in [EdgeIds -> {"nothing", "added", "refused", "unknown"}]
BY DEF GraphTypeOK, Tell

LEMMA PublishType ==
    ASSUME GraphTypeOK, NEW p \in Procs, Publish(p)
    PROVE  edge' \in Table
BY DEF GraphTypeOK, Publish, Table, Present

LEMMA RollbackTypes ==
    ASSUME GraphTypeOK, NEW p \in Procs, gpc[p] \in InTx, Rollback(p)
    PROVE  GraphTypeOK'
<1>1. told' \in [EdgeIds -> {"nothing", "added", "refused", "unknown"}]
  BY CallType, TellType DEF Rollback
<1>2. UNCHANGED <<node, edge, gfaults>>
  BY DEF Rollback, graphTables
<1> QED
  BY <1>1, <1>2, ReturnType DEF Rollback, GraphTypeOK

LEMMA InsertedType ==
    ASSUME NEW c \in AddCall
    PROVE  [fact |-> c.fact, validFrom |-> c.at, validTo |-> Forever,
            supersededBy |-> NoId] \in Edge
BY DEF AddCall, Edge

LEMMA RetiredType ==
    ASSUME NEW e \in Edge, NEW at \in Times, NEW by \in EdgeIds
    PROVE  /\ [e EXCEPT !.validTo = at, !.supersededBy = by] \in Edge
           /\ [e EXCEPT !.validTo = at, !.supersededBy = by].supersededBy = by
           /\ [e EXCEPT !.validTo = at] \in Edge
           /\ [e EXCEPT !.validTo = at].supersededBy = e.supersededBy
           /\ [e EXCEPT !.validTo = at].validTo = at
BY DEF Edge

LEMMA RowType ==
    ASSUME NEW m \in Table, NEW id \in EdgeIds, Present(m, id)
    PROVE  m[id] \in Edge
BY DEF Table, Present

LEMMA TypesInit == GraphInit => GraphTypeOK
BY NoRowsType, PgBoundsAssumption, PgNullAssumption
   DEF GraphInit, GraphTypeOK, InTx

LEMMA TypesStep == GraphTypeOK /\ [GraphNext]_graphVars => GraphTypeOK'
<1> SUFFICES ASSUME GraphTypeOK, [GraphNext]_graphVars PROVE GraphTypeOK'
  OBVIOUS
<1>1. ASSUME NEW p \in Procs, NEW n \in Nodes, GAddNode(p, n) PROVE GraphTypeOK'
  BY <1>1 DEF GAddNode, GraphTypeOK
<1>2. ASSUME NEW p \in Procs, NEW id \in EdgeIds, NEW r \in Requests, GAddEdge(p, id, r)
      PROVE  GraphTypeOK'
  <2>1. call'[p] \in AddCall /\ call' \in [Procs -> AddCall \union {NoId}]
    BY <1>2, RequestsAssumption DEF GAddEdge, GraphTypeOK, AddCall
  <2>2. /\ gpc' \in [Procs -> InTx \union {"idle"}]
        /\ \A q \in Procs : gpc'[q] \in InTx => call'[q] \in AddCall
    BY <1>2, <2>1 DEF GAddEdge, Goto, GraphTypeOK, InTx
  <2> QED
    BY <1>2, <2>1, <2>2 DEF GAddEdge, graphTables, GraphTypeOK
<1>3. ASSUME NEW p \in Procs, NEW id \in EdgeIds, NEW at \in Times, GRetract(p, id, at)
      PROVE  GraphTypeOK'
  <2>1. edge[id] \in Edge
    BY <1>3, RowType DEF GRetract, Valid, Present, GraphTypeOK
  <2>2. edge' \in Table
    BY <1>3, <2>1, RetiredType DEF GRetract, GraphTypeOK, Table
  <2> QED
    BY <1>3, <2>2 DEF GRetract, GraphTypeOK
<1>4. ASSUME NEW p \in Procs, AssertNode(p) PROVE GraphTypeOK'
  <2>1. CASE Rollback(p) /\ gpc[p] \in InTx
    BY <2>1, RollbackTypes
  <2>2. CASE \E place \in InTx : /\ gpc[p] \in InTx /\ Goto(p, place)
                               /\ UNCHANGED <<graphTables, mine, call, scan, told, gfaults>>
    BY <2>2 DEF Goto, graphTables, GraphTypeOK
  <2> QED
    BY <1>4, <2>1, <2>2 DEF AssertNode, InTx
<1>5. ASSUME NEW p \in Procs, SupersedeStart(p) PROVE GraphTypeOK'
  BY <1>5 DEF SupersedeStart, Goto, graphTables, GraphTypeOK, InTx
<1>6. ASSUME NEW p \in Procs, NEW id \in EdgeIds, SupersedeRow(p, id) PROVE GraphTypeOK'
  <2>1. gpc[p] \in InTx /\ call[p].at \in Times /\ call[p].id \in EdgeIds
    BY <1>6, CallType DEF SupersedeRow, InTx
  <2>2. CASE Rollback(p)
    BY <2>1, <2>2, RollbackTypes
  <2>3. CASE /\ scan' = [scan EXCEPT ![p] = @ \ {id}]
             /\ mine' = IF Victim(call[p], id)
                        THEN [mine EXCEPT ![p][id] =
                                [edge[id] EXCEPT !.validTo = call[p].at,
                                                 !.supersededBy = call[p].id]]
                        ELSE mine
             /\ UNCHANGED <<graphTables, gpc, call, told, gfaults>>
    <3>1. Victim(call[p], id) => edge[id] \in Edge
      BY RowType DEF Victim, Valid, Present, GraphTypeOK
    <3>2. mine' \in [Procs -> Table]
      BY <2>1, <2>3, <3>1, RetiredType DEF GraphTypeOK, Table
    <3> QED
      BY <2>3, <3>2 DEF graphTables, GraphTypeOK
  <2> QED
    BY <1>6, <2>2, <2>3 DEF SupersedeRow
<1>7. ASSUME NEW p \in Procs, SupersedeEnd(p) PROVE GraphTypeOK'
  <2>1. CASE Rollback(p)
    BY <1>7, <2>1, RollbackTypes DEF SupersedeEnd, InTx
  <2>2. CASE ~Rollback(p)
    BY <1>7, <2>2 DEF SupersedeEnd, Goto, graphTables, GraphTypeOK, InTx
  <2> QED
    BY <2>1, <2>2
<1>8. ASSUME NEW p \in Procs, GInsert(p) PROVE GraphTypeOK'
  <2>1. gpc[p] \in InTx /\ call[p] \in AddCall /\ call[p].id \in EdgeIds
    BY <1>8, CallType DEF GInsert, InTx
  <2>2. CASE Rollback(p)
    BY <2>1, <2>2, RollbackTypes
  <2>3. CASE ~Rollback(p)
    <3>1. mine' \in [Procs -> Table]
      <4>1. \E e \in Edge : mine' = [mine EXCEPT ![p][call[p].id] = e]
        BY <1>8, <2>1, <2>3, InsertedType DEF GInsert
      <4> QED
        BY <2>1, <4>1 DEF GraphTypeOK, Table
    <3>2. /\ gpc' \in [Procs -> InTx \union {"idle"}]
          /\ UNCHANGED <<graphTables, call, scan, told, gfaults>>
          /\ \A q \in Procs : gpc'[q] \in InTx => gpc[q] \in InTx
      BY <1>8, <2>1, <2>3 DEF GInsert, Goto, GraphTypeOK, InTx
    <3> QED
      BY <3>1, <3>2 DEF graphTables, GraphTypeOK
  <2> QED
    BY <2>2, <2>3
<1>9. ASSUME NEW p \in Procs, Commit(p) PROVE GraphTypeOK'
  <2>1. call[p].id \in EdgeIds
    BY <1>9, CallType DEF Commit, InTx
  <2>2. /\ told' \in [EdgeIds -> {"nothing", "added", "refused", "unknown"}]
        /\ edge' \in Table
    BY <1>9, <2>1, TellType, PublishType DEF Commit
  <2> QED
    BY <1>9, <2>2, ReturnType DEF Commit, GraphTypeOK
<1>10. ASSUME NEW p \in Procs, DeadlockDetected(p) PROVE GraphTypeOK'
  BY <1>10, RollbackTypes DEF DeadlockDetected, WaitsFor, InTx
<1>11. ASSUME NEW p \in Procs, LoseConnection(p) PROVE GraphTypeOK'
  <2>1. call[p].id \in EdgeIds
    BY <1>11, CallType DEF LoseConnection
  <2>2. told' \in [EdgeIds -> {"nothing", "added", "refused", "unknown"}]
    BY <1>11, <2>1, TellType DEF LoseConnection
  <2>3. edge' \in Table
    BY <1>11, PublishType DEF LoseConnection, GraphTypeOK
  <2>4. gfaults' \in 0 .. MaxFaults
    BY <1>11, PgBoundsAssumption DEF LoseConnection, GraphTypeOK
  <2> QED
    BY <1>11, <2>2, <2>3, <2>4, ReturnType DEF LoseConnection, GraphTypeOK
<1>12. CASE UNCHANGED graphVars
  BY <1>12 DEF graphVars, graphTables, GraphTypeOK
<1> QED
  BY <1>1, <1>2, <1>3, <1>4, <1>5, <1>6, <1>7, <1>8, <1>9, <1>10, <1>11, <1>12
     DEF GraphNext, GraphStep

-----------------------------------------------------------------------------
(* The inductive invariant                                                 *)

LEMMA InvInit == GraphInit => PgIInv
<1> SUFFICES ASSUME GraphInit PROVE PgIInv
  OBVIOUS
<1>1. GraphTypeOK
  BY TypesInit
<1>2. IdleClean /\ RowLocks /\ WritesOwn /\ CommitsItsEdge
  BY NoRowsType DEF GraphInit, IdleClean, RowLocks, WritesOwn, CommitsItsEdge
<1>3. AllOrNothing
  BY NoRowsType DEF GraphInit, AllOrNothing
<1> QED
  BY <1>1, <1>2, <1>3 DEF PgIInv

LEMMA ReturnShape ==
    ASSUME GraphTypeOK, NEW p \in Procs, GReturn(p)
    PROVE  /\ gpc'[p] = "idle" /\ mine'[p] = NoRows
           /\ \A q \in Procs \ {p} :
                 gpc'[q] = gpc[q] /\ mine'[q] = mine[q] /\ call'[q] = call[q]
BY DEF GReturn, GraphTypeOK

\* A transaction that ends without publishing leaves everyone else's locks.
LEMMA ForgetKeeps ==
    ASSUME PgIInv, NEW p \in Procs, GReturn(p), edge' = edge,
           NEW id \in EdgeIds, NEW answer \in {"refused", "unknown"}, Tell(id, answer)
    PROVE  IdleClean' /\ RowLocks' /\ WritesOwn' /\ CommitsItsEdge' /\ AllOrNothing'
<1>0. GraphTypeOK
  BY DEF PgIInv
<1>1. IdleClean'
  BY <1>0, ReturnShape DEF PgIInv, IdleClean
<1>2. \A q \in Procs, i \in EdgeIds : Present(mine[q], i)' =>
           q # p /\ Present(mine[q], i) /\ mine'[q] = mine[q] /\ call'[q] = call[q]
  BY <1>0, ReturnShape, NoRowsType DEF Present
<1>3. RowLocks'
  BY <1>2 DEF PgIInv, RowLocks, Present, Valid
<1>4. WritesOwn'
  BY <1>2 DEF PgIInv, WritesOwn, Present
<1>5. CommitsItsEdge'
  BY <1>0, ReturnShape DEF PgIInv, CommitsItsEdge, Present
<1>6. \A i \in EdgeIds :
        /\ told'[i] = "added" => told[i] = "added"
        /\ told'[i] \in {"nothing", "refused"} => told[i] \in {"nothing", "refused"}
  BY <1>0 DEF Tell, GraphTypeOK
<1>7. AllOrNothing'
  <2>1. AllOrNothing
    BY DEF PgIInv
  <2>2. ASSUME NEW i \in EdgeIds, told'[i] = "added" PROVE Present(edge, i)
    <3>1. told[i] = "added"
      BY <1>6, <2>2
    <3> QED
      BY <2>1, <3>1 DEF AllOrNothing
  <2>3. ASSUME NEW i \in EdgeIds, told'[i] \in {"nothing", "refused"}
        PROVE  /\ ~Present(edge, i)
               /\ \A j \in EdgeIds : Present(edge, j) => edge[j].supersededBy # i
    BY <1>6, <2>1, <2>3 DEF AllOrNothing
  <2> QED
    BY <2>2, <2>3 DEF AllOrNothing
<1> QED
  BY <1>1, <1>3, <1>4, <1>5, <1>7

\* COMMIT: what becomes visible is the edge, and rows that it retires.
LEMMA PublishKeeps ==
    ASSUME PgIInv, NEW p \in Procs, gpc[p] = "commit", Publish(p), GReturn(p),
           NEW answer \in {"added", "unknown"}, Tell(call[p].id, answer)
    PROVE  IdleClean' /\ RowLocks' /\ WritesOwn' /\ CommitsItsEdge' /\ AllOrNothing'
<1>0. GraphTypeOK /\ gpc[p] \in InTx /\ call[p].id \in EdgeIds
  BY CallType DEF PgIInv, InTx
<1>1. IdleClean'
  BY <1>0, ReturnShape DEF PgIInv, IdleClean
<1>2. \A q \in Procs, i \in EdgeIds : Present(mine[q], i)' =>
           q # p /\ Present(mine[q], i) /\ mine'[q] = mine[q] /\ call'[q] = call[q]
  BY <1>0, ReturnShape, NoRowsType DEF Present
<1>3. \A i \in EdgeIds :
        /\ Present(mine[p], i) => edge'[i] = mine[p][i]
        /\ ~Present(mine[p], i) => edge'[i] = edge[i]
  BY DEF Publish
<1>4. ASSUME NEW i \in EdgeIds, Present(edge, i) PROVE Present(edge', i)
  <2>1. CASE Present(mine[p], i)
    BY <1>3, <2>1 DEF Present
  <2>2. CASE ~Present(mine[p], i)
    BY <1>3, <1>4, <2>2 DEF Present
  <2> QED
    BY <2>1, <2>2
<1>5. RowLocks'
  <2>1. \A q \in Procs, i \in EdgeIds :
            Present(mine[q], i)' => ~Present(mine[p], i) /\ edge'[i] = edge[i]
    BY <1>2, <1>3 DEF PgIInv, RowLocks
  <2> QED
    BY <1>2, <2>1 DEF PgIInv, RowLocks, Present, Valid
<1>6. WritesOwn'
  BY <1>2, <1>4 DEF PgIInv, WritesOwn, Present
<1>7. CommitsItsEdge'
  BY <1>0, ReturnShape DEF PgIInv, CommitsItsEdge, Present
<1>8. told' = [told EXCEPT ![call[p].id] = answer]
  BY <1>0 DEF Tell
<1>9. ASSUME NEW i \in EdgeIds, told'[i] = "added" PROVE Present(edge', i)
  <2>1. CASE i = call[p].id
    BY <1>3, <2>1 DEF PgIInv, CommitsItsEdge, Present
  <2>2. CASE i # call[p].id
    <3>1. told[i] = "added"
      BY <1>0, <1>8, <1>9, <2>2 DEF GraphTypeOK
    <3> QED
      BY <1>4, <3>1 DEF PgIInv, AllOrNothing
  <2> QED
    BY <2>1, <2>2
<1>10. ASSUME NEW i \in EdgeIds, told'[i] \in {"nothing", "refused"}
       PROVE  /\ ~Present(edge', i)
              /\ \A j \in EdgeIds : Present(edge', j) => edge'[j].supersededBy # i
  <2>1. i # call[p].id /\ told[i] \in {"nothing", "refused"}
    BY <1>0, <1>8, <1>10 DEF GraphTypeOK
  <2>2. /\ ~Present(edge, i)
        /\ \A j \in EdgeIds : Present(edge, j) => edge[j].supersededBy # i
    BY <2>1 DEF PgIInv, AllOrNothing
  <2>3. ~Present(edge', i)
    BY <1>3, <2>1, <2>2 DEF PgIInv, WritesOwn, Present
  <2>4. ASSUME NEW j \in EdgeIds, Present(edge', j) PROVE edge'[j].supersededBy # i
    <3>1. CASE Present(mine[p], j)
      <4>1. mine[p][j].supersededBy \in {NoId, call[p].id}
        BY <3>1 DEF PgIInv, WritesOwn
      <4> QED
        BY <1>3, <2>1, <3>1, <4>1, PgNullAssumption
    <3>2. CASE ~Present(mine[p], j)
      BY <1>3, <2>2, <2>4, <3>2 DEF Present
    <3> QED
      BY <3>1, <3>2
  <2> QED
    BY <2>3, <2>4
<1>11. AllOrNothing'
  BY <1>9, <1>10 DEF AllOrNothing, Present
<1> QED
  BY <1>1, <1>5, <1>6, <1>7, <1>11

\* Going on to the next statement, short of COMMIT, changes nothing of this.
LEMMA GotoKeeps ==
    ASSUME PgIInv, NEW p \in Procs, NEW place \in InTx \ {"commit"},
           Goto(p, place), UNCHANGED <<edge, mine, call, told>>
    PROVE  IdleClean' /\ RowLocks' /\ WritesOwn' /\ CommitsItsEdge' /\ AllOrNothing'
<1>1. /\ gpc'[p] = place /\ place \notin {"idle", "commit"}
      /\ \A q \in Procs \ {p} : gpc'[q] = gpc[q]
  BY DEF Goto, PgIInv, GraphTypeOK, InTx
<1>2. IdleClean' /\ CommitsItsEdge'
  BY <1>1 DEF PgIInv, IdleClean, CommitsItsEdge, Present
<1>3. RowLocks' /\ WritesOwn' /\ AllOrNothing'
  BY DEF PgIInv, RowLocks, WritesOwn, AllOrNothing, Present, Valid
<1> QED
  BY <1>2, <1>3

LEMMA RollbackKeeps ==
    ASSUME PgIInv, NEW p \in Procs, gpc[p] \in InTx, Rollback(p)
    PROVE  IdleClean' /\ RowLocks' /\ WritesOwn' /\ CommitsItsEdge' /\ AllOrNothing'
<1>1. call[p].id \in EdgeIds
  BY CallType DEF PgIInv
<1> QED
  BY <1>1, ForgetKeeps DEF Rollback, graphTables

\* A row is written that nobody else has locked and that is valid, or absent.
LEMMA WriteKeeps ==
    ASSUME PgIInv, NEW p \in Procs, gpc[p] \in InTx,
           NEW id \in EdgeIds, NEW row \in Edge,
           \A q \in Procs \ {p} : ~Present(mine[q], id),
           Present(edge, id) => Valid(edge, id),
           \/ id = call[p].id /\ row.supersededBy = NoId
           \/ Present(edge, id) /\ row.supersededBy = call[p].id,
           mine' = [mine EXCEPT ![p][id] = row],
           UNCHANGED <<edge, call, told>>
    PROVE  RowLocks' /\ WritesOwn' /\ AllOrNothing' /\ Present(mine[p], id)'
<1>1. \A q \in Procs, i \in EdgeIds :
         mine'[q][i] = IF (q = p /\ i = id) THEN row ELSE mine[q][i]
  BY DEF PgIInv, GraphTypeOK, Table
<1>2. row # NoEdge
  BY PgNoEdgeAssumption
<1>3. \A q \in Procs, i \in EdgeIds :
         Present(mine[q], i)' <=> (Present(mine[q], i) \/ (q = p /\ i = id))
  BY <1>1, <1>2 DEF Present
<1>4. RowLocks'
  <2>1. ASSUME NEW q \in Procs, NEW i \in EdgeIds, Present(mine[q], i)'
        PROVE  /\ \A r \in Procs \ {q} : ~Present(mine[r], i)'
               /\ Present(edge, i) => Valid(edge, i)
    BY <1>3, <2>1 DEF PgIInv, RowLocks
  <2> QED
    BY <2>1 DEF RowLocks, Present, Valid
<1>5. WritesOwn'
  BY <1>1, <1>3 DEF PgIInv, WritesOwn, Present
<1>6. AllOrNothing'
  BY DEF PgIInv, AllOrNothing, Present
<1> QED
  BY <1>3, <1>4, <1>5, <1>6

LEMMA InvStep == PgIInv /\ [GraphNext]_graphVars => PgIInv'
<1> SUFFICES ASSUME PgIInv, [GraphNext]_graphVars
             PROVE  IdleClean' /\ RowLocks' /\ WritesOwn' /\ CommitsItsEdge' /\ AllOrNothing'
  BY TypesStep DEF PgIInv
<1>0. GraphTypeOK /\ IdleClean /\ RowLocks /\ WritesOwn /\ CommitsItsEdge /\ AllOrNothing
  BY DEF PgIInv
<1> DEFINE Rest == IdleClean' /\ RowLocks' /\ WritesOwn' /\ CommitsItsEdge' /\ AllOrNothing'
<1>1. ASSUME NEW p \in Procs, NEW n \in Nodes, GAddNode(p, n) PROVE Rest
  BY <1>0, <1>1 DEF GAddNode, IdleClean, RowLocks, WritesOwn, CommitsItsEdge,
     AllOrNothing, Present, Valid
<1>2. ASSUME NEW p \in Procs, NEW id \in EdgeIds, NEW r \in Requests, GAddEdge(p, id, r)
      PROVE  Rest
  <2>1. /\ gpc'[p] = "from" /\ \A q \in Procs \ {p} : gpc'[q] = gpc[q]
        /\ \A q \in Procs \ {p} : call'[q] = call[q]
        /\ UNCHANGED <<edge, mine, told>>
    BY <1>0, <1>2 DEF GAddEdge, Goto, GraphTypeOK, graphTables
  <2>2. \A i \in EdgeIds : ~Present(mine[p], i)
    BY <1>0, <1>2, NoRowsType DEF GAddEdge, IdleClean
  <2>3. IdleClean' /\ CommitsItsEdge'
    BY <1>0, <2>1 DEF IdleClean, CommitsItsEdge, Present
  <2>4. RowLocks' /\ AllOrNothing'
    BY <1>0, <2>1 DEF RowLocks, AllOrNothing, Present, Valid
  <2>5. WritesOwn'
    BY <1>0, <2>1, <2>2 DEF WritesOwn, Present
  <2> QED
    BY <2>3, <2>4, <2>5
<1>3. ASSUME NEW p \in Procs, NEW id \in EdgeIds, NEW at \in Times, GRetract(p, id, at)
      PROVE  Rest
  <2>1. edge[id] \in Edge /\ Present(edge, id)
    BY <1>0, <1>3, RowType DEF GRetract, Valid, Present, GraphTypeOK
  <2>2. /\ \A i \in EdgeIds \ {id} : edge'[i] = edge[i]
        /\ edge'[id] = [edge[id] EXCEPT !.validTo = at]
        /\ edge'[id] \in Edge /\ edge'[id].supersededBy = edge[id].supersededBy
        /\ UNCHANGED <<mine, gpc, call, told>>
    BY <1>0, <1>3, <2>1, RetiredType DEF GRetract, GraphTypeOK, Table
  <2>3. \A i \in EdgeIds : Present(edge', i) <=> Present(edge, i)
    BY <2>1, <2>2, PgNoEdgeAssumption DEF Present
  <2>4. \A q \in Procs : ~Present(mine[q], id)
    <3>1. \A q \in Procs \ {p} : ~Present(mine[q], id)
      BY <1>3, <2>1 DEF GRetract, Locked
    <3>2. ~Present(mine[p], id)
      BY <1>0, <1>3, NoRowsType DEF GRetract, IdleClean
    <3> QED
      BY <3>1, <3>2
  <2>5. IdleClean' /\ CommitsItsEdge'
    BY <1>0, <2>2 DEF IdleClean, CommitsItsEdge, Present
  <2>6. RowLocks'
    BY <1>0, <2>2, <2>3, <2>4 DEF RowLocks, Present, Valid
  <2>7. WritesOwn'
    BY <1>0, <2>2, <2>3 DEF WritesOwn, Present
  <2>8. AllOrNothing'
    <3>1. \A i, j \in EdgeIds : Present(edge', j) /\ edge'[j].supersededBy = i =>
             Present(edge, j) /\ edge[j].supersededBy = i
      BY <2>2, <2>3
    <3>2. \A i \in EdgeIds : told'[i] = told[i]
      BY <2>2
    <3> QED
      BY <1>0, <2>3, <3>1, <3>2 DEF AllOrNothing, Present
  <2> QED
    BY <2>5, <2>6, <2>7, <2>8
<1>4. ASSUME NEW p \in Procs, AssertNode(p) PROVE Rest
  <2>1. CASE Rollback(p) /\ gpc[p] \in InTx
    BY <2>1, RollbackKeeps
  <2>2. CASE \E place \in InTx \ {"commit"} :
                Goto(p, place) /\ UNCHANGED <<graphTables, mine, call, scan, told, gfaults>>
    BY <2>2, GotoKeeps DEF graphTables
  <2> QED
    BY <1>4, <2>1, <2>2 DEF AssertNode, InTx
<1>5. ASSUME NEW p \in Procs, SupersedeStart(p) PROVE Rest
  BY <1>5, GotoKeeps DEF SupersedeStart, graphTables, InTx
<1>6. ASSUME NEW p \in Procs, NEW id \in EdgeIds, SupersedeRow(p, id) PROVE Rest
  <2>1. gpc[p] = "update" /\ gpc[p] \in InTx /\ call[p].at \in Times /\ call[p].id \in EdgeIds
    BY <1>0, <1>6, CallType DEF SupersedeRow, InTx
  <2>2. CASE Rollback(p)
    BY <2>1, <2>2, RollbackKeeps
  <2>3. CASE ~Victim(call[p], id) /\ UNCHANGED <<edge, mine, gpc, call, told>>
    BY <1>0, <2>3 DEF IdleClean, RowLocks, WritesOwn, CommitsItsEdge, AllOrNothing,
       Present, Valid
  <2>4. CASE /\ Victim(call[p], id)
             /\ mine' = [mine EXCEPT ![p][id] =
                           [edge[id] EXCEPT !.validTo = call[p].at,
                                            !.supersededBy = call[p].id]]
             /\ UNCHANGED <<edge, gpc, call, told>>
    <3> DEFINE row == [edge[id] EXCEPT !.validTo = call[p].at, !.supersededBy = call[p].id]
    <3>1. Valid(edge, id) /\ Present(edge, id) /\ edge[id] \in Edge
      BY <1>0, <2>4, RowType DEF Victim, Valid, Present, GraphTypeOK
    <3>2. row \in Edge /\ row.supersededBy = call[p].id
      BY <2>1, <3>1 DEF Edge
    <3>3. \A q \in Procs \ {p} : ~Present(mine[q], id)
      BY <1>6, <3>1 DEF SupersedeRow, Locked
    <3>4. RowLocks' /\ WritesOwn' /\ AllOrNothing'
      <4> HIDE DEF row
      <4> QED
        BY <2>1, <2>4, <3>1, <3>2, <3>3, WriteKeeps DEF row
    <3>5. \A q \in Procs \ {p} : mine'[q] = mine[q]
      BY <1>0, <2>4 DEF GraphTypeOK
    <3>6. IdleClean' /\ CommitsItsEdge'
      BY <1>0, <2>1, <2>4, <3>5 DEF IdleClean, CommitsItsEdge, Present
    <3> QED
      BY <3>4, <3>6
  <2> QED
    BY <1>6, <2>2, <2>3, <2>4 DEF SupersedeRow, graphTables
<1>7. ASSUME NEW p \in Procs, SupersedeEnd(p) PROVE Rest
  <2>1. CASE Rollback(p)
    BY <1>7, <2>1, RollbackKeeps DEF SupersedeEnd, InTx
  <2>2. CASE ~Rollback(p)
    BY <1>7, <2>2, GotoKeeps DEF SupersedeEnd, graphTables, InTx
  <2> QED
    BY <2>1, <2>2
<1>8. ASSUME NEW p \in Procs, GInsert(p) PROVE Rest
  <2>1. gpc[p] \in InTx /\ call[p] \in AddCall /\ call[p].id \in EdgeIds
    BY <1>0, <1>8, CallType DEF GInsert, InTx
  <2>2. CASE Rollback(p)
    BY <2>1, <2>2, RollbackKeeps
  <2>3. CASE ~Rollback(p)
    <3> DEFINE row == [fact |-> call[p].fact, validFrom |-> call[p].at,
                       validTo |-> Forever, supersededBy |-> NoId]
    <3>1. /\ ~Present(edge, call[p].id)
          /\ mine' = [mine EXCEPT ![p][call[p].id] = row]
          /\ Goto(p, "commit") /\ UNCHANGED <<edge, call, told>>
          /\ \A q \in Procs \ {p} : ~Present(mine[q], call[p].id)
      BY <1>8, <2>3 DEF GInsert, graphTables
    <3>2. row \in Edge /\ row.supersededBy = NoId
      BY <2>1, InsertedType
    <3>3. RowLocks' /\ WritesOwn' /\ AllOrNothing' /\ Present(mine[p], call[p].id)'
      <4> HIDE DEF row
      <4> QED
        BY <2>1, <3>1, <3>2, WriteKeeps
    <3>4. /\ gpc'[p] = "commit"
          /\ \A q \in Procs \ {p} : mine'[q] = mine[q] /\ gpc'[q] = gpc[q]
      BY <1>0, <3>1 DEF Goto, GraphTypeOK
    <3>5. IdleClean' /\ CommitsItsEdge'
      BY <1>0, <3>1, <3>3, <3>4 DEF IdleClean, CommitsItsEdge, Present
    <3> QED
      BY <3>3, <3>5
  <2> QED
    BY <2>2, <2>3
<1>9. ASSUME NEW p \in Procs, Commit(p) PROVE Rest
  BY <1>9, PublishKeeps DEF Commit
<1>10. ASSUME NEW p \in Procs, DeadlockDetected(p) PROVE Rest
  BY <1>10, RollbackKeeps DEF DeadlockDetected, WaitsFor, InTx
<1>11. ASSUME NEW p \in Procs, LoseConnection(p) PROVE Rest
  <2>1. gpc[p] \in InTx /\ call[p].id \in EdgeIds /\ GReturn(p)
    BY <1>0, <1>11, CallType DEF LoseConnection
  <2>2. CASE edge' = edge
    BY <1>11, <2>1, <2>2, ForgetKeeps DEF LoseConnection
  <2>3. CASE gpc[p] = "commit" /\ Publish(p)
    BY <1>11, <2>1, <2>3, PublishKeeps DEF LoseConnection
  <2> QED
    BY <1>11, <2>2, <2>3 DEF LoseConnection
<1>12. CASE UNCHANGED graphVars
  BY <1>0, <1>12 DEF graphVars, graphTables, IdleClean, RowLocks, WritesOwn, CommitsItsEdge,
     AllOrNothing, Present, Valid
<1> QED
  BY <1>1, <1>2, <1>3, <1>4, <1>5, <1>6, <1>7, <1>8, <1>9, <1>10, <1>11, <1>12
     DEF GraphNext, GraphStep

-----------------------------------------------------------------------------
(* The theorems                                                            *)

LEMMA GraphInvariant == GraphSpec => []PgIInv
BY InvInit, InvStep, PTL DEF GraphSpec

\* What the two backends of a database do is, for the graph, what it does alone.
LEMMA PgIsGraph == PgSpec => GraphSpec
<1>1. PgInit => GraphInit
  BY DEF PgInit
<1>2. [PgNext]_<<graphVars, vectorVars, side>> => [GraphNext]_graphVars
  <2>1. PgNext => [GraphNext]_graphVars
    BY DEF PgNext
  <2>2. UNCHANGED <<graphVars, vectorVars, side>> => UNCHANGED graphVars
    OBVIOUS
  <2> QED
    BY <2>1, <2>2
<1> QED
  BY <1>1, <1>2, PTL DEF PgSpec, GraphSpec

\* The tables, and what open transactions hold, keep their types.
THEOREM PgGraphTypes == PgSpec => []GraphTypeOK
<1>1. PgIInv => GraphTypeOK
  BY DEF PgIInv
<1> QED
  BY <1>1, PgIsGraph, GraphInvariant, PTL

\* An addEdge happens or it does not, whatever transactions overlap, deadlock
\* or lose their connection: withTx's BEGIN and ROLLBACK bracket every write.
THEOREM PgAllOrNothing == PgSpec => []AllOrNothing
<1>1. PgIInv => AllOrNothing
  BY DEF PgIInv
<1> QED
  BY <1>1, PgIsGraph, GraphInvariant, PTL

\* No transaction holds a row that another one holds, or that is retired.
THEOREM PgRowLocks == PgSpec => []RowLocks
<1>1. PgIInv => RowLocks
  BY DEF PgIInv
<1> QED
  BY <1>1, PgIsGraph, GraphInvariant, PTL

\* COMMIT writes no row that is retired in the table.
LEMMA PublishRetires ==
    ASSUME PgIInv, NEW p \in Procs, Publish(p), NEW id \in EdgeIds,
           Present(edge, id), ~Valid(edge, id)
    PROVE  edge'[id] = edge[id]
<1>1. ~Present(mine[p], id)
  BY DEF PgIInv, RowLocks
<1> QED
  BY <1>1 DEF Publish

LEMMA RetiredStep ==
    ASSUME PgIInv, GraphNext, NEW id \in EdgeIds, Present(edge, id), ~Valid(edge, id)
    PROVE  edge'[id] = edge[id]
<1>1. ASSUME NEW p \in Procs, NEW i \in EdgeIds, NEW at \in Times, GRetract(p, i, at)
      PROVE  edge'[id] = edge[id]
  <2>1. i # id
    BY <1>1 DEF GRetract
  <2> QED
    BY <1>1, <2>1 DEF GRetract, PgIInv, GraphTypeOK, Table
<1>2. ASSUME NEW p \in Procs, Publish(p) PROVE edge'[id] = edge[id]
  BY <1>2, PublishRetires
<1>3. CASE edge' = edge
  BY <1>3
<1>4. ASSUME NEW p \in Procs, GraphStep(p) PROVE edge' = edge \/ Publish(p)
  BY <1>4 DEF GraphStep, AssertNode, SupersedeStart, SupersedeRow, SupersedeEnd, GInsert,
     Commit, DeadlockDetected, Rollback, graphTables
<1> QED
  BY <1>1, <1>2, <1>3, <1>4 DEF GraphNext, GAddNode, GAddEdge, LoseConnection, graphTables

\* What is retired stays as it is, with no discipline asked of the callers: the
\* row lock and the second look at valid_to IS NULL see to it.
THEOREM PgRetired == PgSpec => PgRetiredIsFinal
<1>1. PgIInv /\ [GraphNext]_graphVars =>
        [\A id \in EdgeIds :
            Present(edge, id) /\ ~Valid(edge, id) => edge'[id] = edge[id]]_graphVars
  BY RetiredStep
<1> QED
  BY <1>1, PgIsGraph, GraphInvariant, PTL DEF GraphSpec, PgRetiredIsFinal

-----------------------------------------------------------------------------
(* Induction, on sets                                                      *)

LEMMA LeastNumber ==
    ASSUME NEW T \in SUBSET Nat, T # {}
    PROVE  \E k \in T : \A j \in T : k <= j
<1> DEFINE R == OpToRel(<, Nat)
<1>1. IsWellFoundedOn(R, Nat)
  BY NatLessThanWellFounded
<1>2. \A i, j \in Nat : <<i, j>> \in R <=> i < j
  BY DEF OpToRel
<1> HIDE DEF R
<1>3. PICK k \in T : \A j \in T : ~ (<<j, k>> \in R)
  BY <1>1, WFMin
<1>4. \A j \in T : k <= j
  <2> SUFFICES ASSUME NEW j \in T PROVE k <= j
    OBVIOUS
  <2>1. k \in Nat /\ j \in Nat /\ ~ (j < k)
    BY <1>2, <1>3
  <2> QED BY <2>1
<1> QED BY <1>4

\* A set that holds 0 and with each number the next one up to d holds them all.
LEMMA UpTo ==
    ASSUME NEW d \in Nat, NEW S, 0 \in S, \A k \in 1 .. d : k - 1 \in S => k \in S
    PROVE  \A k \in 0 .. d : k \in S
<1> DEFINE T == (0 .. d) \ S
<1>1. SUFFICES ASSUME T # {} PROVE FALSE
  OBVIOUS
<1>2. PICK k \in T : \A j \in T : k <= j
  <2>1. T \in SUBSET Nat
    OBVIOUS
  <2> QED BY <1>1, <2>1, LeastNumber
<1>3. k \in 1 .. d /\ k - 1 \in 0 .. d /\ ~ (k <= k - 1)
  BY <1>2
<1>4. k - 1 \in S
  BY <1>2, <1>3
<1> QED BY <1>2, <1>3, <1>4

\* What is defined step by step from a beginning exists.
Stepwise(g, d, S, first, next) ==
    /\ g \in [0 .. d -> S] /\ g[0] = first
    /\ \A k \in 1 .. d : g[k] = next[k][g[k - 1]]

LEMMA StepByStep ==
    ASSUME NEW d \in Nat, NEW S, NEW first \in S, NEW next \in [1 .. d -> [S -> S]]
    PROVE  \E g : Stepwise(g, d, S, first, next)
<1> DEFINE Goes(g, e) == Stepwise(g, e, S, first, next)
           T == {e \in 0 .. d : \E g : Goes(g, e)}
<1>1. 0 \in T
  <2>1. Goes([k \in 0 .. 0 |-> first], 0)
    BY DEF Stepwise
  <2> HIDE DEF Goes
  <2> QED BY <2>1
<1>2. ASSUME NEW e \in 1 .. d, e - 1 \in T PROVE e \in T
  <2>1. PICK g : Goes(g, e - 1)
    BY <1>2
  <2> DEFINE h == [k \in 0 .. e |-> IF k = e THEN next[e][g[e - 1]] ELSE g[k]]
  <2>2. e - 1 \in 0 .. e - 1 /\ g[e - 1] \in S
    BY <2>1 DEF Stepwise
  <2>3. next[e][g[e - 1]] \in S
    BY <2>2
  <2>4. h \in [0 .. e -> S] /\ h[0] = first
    BY <2>1, <2>3 DEF Stepwise
  <2>5. ASSUME NEW k \in 1 .. e PROVE h[k] = next[k][h[k - 1]]
    <3>1. k - 1 \in 0 .. e /\ k - 1 # e /\ h[k - 1] = g[k - 1]
      OBVIOUS
    <3>2. CASE k = e
      BY <3>1, <3>2
    <3>3. CASE k # e
      <4>1. k \in 1 .. e - 1 /\ h[k] = g[k]
        BY <3>3
      <4> QED BY <2>1, <3>1, <4>1 DEF Stepwise
    <3> QED BY <3>2, <3>3
  <2>6. Goes(h, e)
    BY <2>4, <2>5 DEF Stepwise
  <2> HIDE DEF Goes, h
  <2> QED BY <2>6
<1>3. \A e \in 0 .. d : e \in T
  <2> HIDE DEF T
  <2> QED BY <1>1, <1>2, UpTo
<1>4. d \in T
  BY <1>3
<1> QED BY <1>4

-----------------------------------------------------------------------------
(* The traversal                                                           *)

\* A valid edge leads from n to m.
Leads(n, m, dir, t) == \E id \in EdgeIds : ValidAt(id, t) /\ m \in Ends(n, id, dir)

\* What the search has seen, layer by layer.
Seen(seen, seed, d, dir, t) ==
    /\ seen \in [0 .. d -> SUBSET Nodes] /\ seen[0] = {seed}
    /\ \A k \in 1 .. d :
         seen[k] = seen[k - 1] \union
                   {m \in Nodes : \E n \in seen[k - 1] : Leads(n, m, dir, t)}

LEMMA SeenExists ==
    ASSUME NEW seed \in Nodes, NEW d \in Nat, NEW dir, NEW t
    PROVE  \E seen : Seen(seen, seed, d, dir, t)
<1> DEFINE S == SUBSET Nodes
           grow == [A \in S |-> A \union {m \in Nodes : \E n \in A : Leads(n, m, dir, t)}]
           next == [k \in 1 .. d |-> grow]
<1>1. grow \in [S -> S]
  OBVIOUS
<1>2. next \in [1 .. d -> [S -> S]] /\ {seed} \in S
  BY <1>1
<1>3. PICK g : Stepwise(g, d, S, {seed}, next)
  <2> DEFINE start == {seed}
  <2>1. start \in S
    BY <1>2
  <2> HIDE DEF S, next, start
  <2>2. \E g : Stepwise(g, d, S, start, next)
    BY <1>2, <2>1, StepByStep
  <2> QED BY <2>2 DEF start
<1>4. ASSUME NEW k \in 1 .. d
      PROVE  g[k] = g[k - 1] \union
                    {m \in Nodes : \E n \in g[k - 1] : Leads(n, m, dir, t)}
  <2>1. g[k - 1] \in S
    <3>1. k - 1 \in 0 .. d
      OBVIOUS
    <3> QED BY <1>3, <3>1 DEF Stepwise
  <2> QED BY <1>3, <2>1 DEF Stepwise
<1>5. Seen(g, seed, d, dir, t)
  BY <1>3, <1>4 DEF Seen, Stepwise
<1> QED BY <1>5

\* Layer of the breadth-first search is that.
LEMMA LayerSees ==
    ASSUME NEW seed \in Nodes, NEW d \in Nat, NEW dir, NEW t
    PROVE  Seen(Layer(seed, d, dir, t), seed, d, dir, t)
<1> DEFINE Is(seen) ==
               seen = [k \in 0 .. d |->
                          IF k = 0 THEN {seed}
                          ELSE seen[k - 1] \union
                               {m \in Nodes : \E n \in seen[k - 1], id \in EdgeIds :
                                                  ValidAt(id, t) /\ m \in Ends(n, id, dir)}]
<1>1. PICK g : Seen(g, seed, d, dir, t)
  BY SeenExists
<1>2. Is(g)
  <2>1. g = [k \in 0 .. d |-> g[k]] /\ g[0] = {seed}
    BY <1>1 DEF Seen
  <2>2. ASSUME NEW k \in 0 .. d, k # 0
        PROVE  g[k] = g[k - 1] \union
                      {m \in Nodes : \E n \in g[k - 1], id \in EdgeIds :
                                         ValidAt(id, t) /\ m \in Ends(n, id, dir)}
    <3>1. k \in 1 .. d
      BY <2>2
    <3> QED BY <1>1, <3>1 DEF Seen, Leads
  <2> QED BY <2>1, <2>2
<1>3. Layer(seed, d, dir, t) = CHOOSE seen : Is(seen)
  BY DEF Layer
<1>4. Is(Layer(seed, d, dir, t))
  <2> HIDE DEF Is
  <2> QED BY <1>2, <1>3
<1> DEFINE s == Layer(seed, d, dir, t)
<1> HIDE DEF s
<1>5. Is(s)
  BY <1>4 DEF s
<1>6. s[0] = {seed}
  BY <1>5
<1>7. ASSUME NEW k \in 1 .. d
      PROVE  s[k] = s[k - 1] \union
                    {m \in Nodes : \E n \in s[k - 1] : Leads(n, m, dir, t)}
  <2>1. k \in 0 .. d /\ k # 0
    OBVIOUS
  <2>2. s[k] = s[k - 1] \union
               {m \in Nodes : \E n \in s[k - 1], id \in EdgeIds :
                                  ValidAt(id, t) /\ m \in Ends(n, id, dir)}
    BY <1>5, <2>1
  <2>3. {m \in Nodes : \E n \in s[k - 1], id \in EdgeIds :
                           ValidAt(id, t) /\ m \in Ends(n, id, dir)}
            = {m \in Nodes : \E n \in s[k - 1] : Leads(n, m, dir, t)}
    BY DEF Leads
  <2> QED BY <2>2, <2>3
<1>8. \A k \in 0 .. d : s[k] \in SUBSET Nodes
  <2> DEFINE T == {k \in 0 .. d : s[k] \in SUBSET Nodes}
  <2>1. 0 \in T
    BY <1>6
  <2>2. ASSUME NEW k \in 1 .. d, k - 1 \in T PROVE k \in T
    BY <1>7, <2>2
  <2>3. \A k \in 0 .. d : k \in T
    <3> HIDE DEF T
    <3> QED BY <2>1, <2>2, UpTo
  <2> QED BY <2>3
<1>9. s = [k \in 0 .. d |-> s[k]]
  BY <1>5
<1>10. s \in [0 .. d -> SUBSET Nodes]
  BY <1>8, <1>9
<1> QED BY <1>6, <1>7, <1>10 DEF Seen, s

LEMMA SeenGrows ==
    ASSUME NEW seed \in Nodes, NEW d \in Nat, NEW dir, NEW t, NEW seen,
           Seen(seen, seed, d, dir, t)
    PROVE  \A k \in 0 .. d : \A j \in 0 .. k : seen[j] \subseteq seen[k]
<1> DEFINE T == {k \in 0 .. d : \A j \in 0 .. k : seen[j] \subseteq seen[k]}
<1>1. 0 \in T
  OBVIOUS
<1>2. ASSUME NEW k \in 1 .. d, k - 1 \in T PROVE k \in T
  <2>1. seen[k - 1] \subseteq seen[k]
    BY DEF Seen
  <2>2. \A j \in 0 .. k : j = k \/ j \in 0 .. k - 1
    OBVIOUS
  <2> QED BY <1>2, <2>1, <2>2
<1>3. \A k \in 0 .. d : k \in T
  <2> HIDE DEF T
  <2> QED BY <1>1, <1>2, UpTo
<1> QED BY <1>3

\* The walks of the recursive query, hop by hop.
Longer(ws, k, dir, t) ==
    {w \in {Append(v, m) : v \in ws, m \in Nodes} :
        /\ \A i \in 1 .. k : w[i] # w[k + 1]
        /\ \E id \in EdgeIds :
             ValidAt(id, t) /\ w[k + 1] \in Ends(w[k], id, dir)}

More(more, seed, d, dir, t) ==
    /\ more \in [0 .. d -> SUBSET Seq(Nodes)] /\ more[0] = {<<seed>>}
    /\ \A k \in 1 .. d : more[k] = Longer(more[k - 1], k, dir, t)

LEMMA LongerType ==
    ASSUME NEW ws \in SUBSET Seq(Nodes), NEW k, NEW dir, NEW t
    PROVE  Longer(ws, k, dir, t) \in SUBSET Seq(Nodes)
BY DEF Longer

LEMMA MoreExists ==
    ASSUME NEW seed \in Nodes, NEW d \in Nat, NEW dir, NEW t
    PROVE  \E more : More(more, seed, d, dir, t)
<1> DEFINE S == SUBSET Seq(Nodes)
           next == [k \in 1 .. d |-> [ws \in S |-> Longer(ws, k, dir, t)]]
<1>1. {<<seed>>} \in S
  OBVIOUS
<1>2. next \in [1 .. d -> [S -> S]]
  <2>1. \A k \in 1 .. d : \A ws \in S : Longer(ws, k, dir, t) \in S
    BY LongerType
  <2> HIDE DEF S
  <2> QED BY <2>1
<1>3. PICK g : Stepwise(g, d, S, {<<seed>>}, next)
  <2> DEFINE start == {<<seed>>}
  <2>1. start \in S
    BY <1>1
  <2> HIDE DEF S, next, start
  <2>2. \E g : Stepwise(g, d, S, start, next)
    BY <1>2, <2>1, StepByStep
  <2> QED BY <2>2 DEF start
<1>4. ASSUME NEW k \in 1 .. d PROVE g[k] = Longer(g[k - 1], k, dir, t)
  <2>1. g[k - 1] \in S
    <3>1. k - 1 \in 0 .. d
      OBVIOUS
    <3> QED BY <1>3, <3>1 DEF Stepwise
  <2> HIDE DEF S
  <2> QED BY <1>3, <2>1 DEF Stepwise
<1>5. More(g, seed, d, dir, t)
  BY <1>3, <1>4 DEF More, Stepwise
<1> QED BY <1>5

LEMMA WalksAre ==
    ASSUME NEW seed \in Nodes, NEW d \in Nat, NEW dir, NEW t
    PROVE  \E more : /\ More(more, seed, d, dir, t)
                     /\ Walks(seed, d, dir, t) = UNION {more[k] : k \in 0 .. d}
<1> DEFINE Is(more) ==
               more = [k \in 0 .. d |->
                          IF k = 0 THEN {<<seed>>}
                          ELSE Longer(more[k - 1], k, dir, t)]
           m == CHOOSE more : Is(more)
<1>1. PICK g : More(g, seed, d, dir, t)
  BY MoreExists
<1>2. Is(g)
  <2>1. g = [k \in 0 .. d |-> g[k]] /\ g[0] = {<<seed>>}
    BY <1>1 DEF More
  <2>2. \A k \in 0 .. d : k # 0 => k \in 1 .. d
    OBVIOUS
  <2>3. \A k \in 0 .. d : k # 0 => g[k] = Longer(g[k - 1], k, dir, t)
    BY <1>1, <2>2 DEF More
  <2> QED BY <2>1, <2>3
<1>3. Is(m)
  <2> HIDE DEF Is
  <2> QED BY <1>2
<1>4. Walks(seed, d, dir, t) = UNION {m[k] : k \in 0 .. d}
  BY DEF Walks, Longer
<1> HIDE DEF m
<1>5. m = [k \in 0 .. d |-> m[k]] /\ m[0] = {<<seed>>}
  BY <1>3
<1>6. ASSUME NEW k \in 1 .. d PROVE m[k] = Longer(m[k - 1], k, dir, t)
  <2>1. k \in 0 .. d /\ k # 0
    OBVIOUS
  <2> QED BY <1>3, <2>1
<1>7. \A k \in 0 .. d : m[k] \in SUBSET Seq(Nodes)
  <2> DEFINE T == {k \in 0 .. d : m[k] \in SUBSET Seq(Nodes)}
  <2>1. 0 \in T
    BY <1>5
  <2>2. ASSUME NEW k \in 1 .. d, k - 1 \in T PROVE k \in T
    BY <1>6, <2>2, LongerType
  <2>3. \A k \in 0 .. d : k \in T
    <3> HIDE DEF T
    <3> QED BY <2>1, <2>2, UpTo
  <2> QED BY <2>3
<1>8. m \in [0 .. d -> SUBSET Seq(Nodes)]
  BY <1>5, <1>7
<1>9. More(m, seed, d, dir, t)
  BY <1>5, <1>6, <1>8 DEF More
<1> QED BY <1>4, <1>9

\* A walk of k hops ends where the search has been by its k-th layer.
LEMMA WalksAreSeen ==
    ASSUME NEW seed \in Nodes, NEW d \in Nat, NEW dir, NEW t, NEW seen, NEW more,
           Seen(seen, seed, d, dir, t), More(more, seed, d, dir, t)
    PROVE  \A k \in 0 .. d : \A w \in more[k] :
               /\ w \in Seq(Nodes) /\ Len(w) = k + 1
               /\ w[1] = seed /\ w[k + 1] \in seen[k]
<1> DEFINE Fits(w, k) == /\ w \in Seq(Nodes) /\ Len(w) = k + 1
                         /\ w[1] = seed /\ w[k + 1] \in seen[k]
           T == {k \in 0 .. d : \A w \in more[k] : Fits(w, k)}
<1>1. 0 \in T
  <2>1. more[0] = {<<seed>>} /\ seen[0] = {seed}
    BY DEF More, Seen
  <2>2. Fits(<<seed>>, 0)
    BY <2>1
  <2> HIDE DEF Fits
  <2> QED BY <2>1, <2>2
<1>2. ASSUME NEW k \in 1 .. d, k - 1 \in T PROVE k \in T
  <2> SUFFICES ASSUME NEW w \in more[k] PROVE Fits(w, k)
    OBVIOUS
  <2>1. w \in Longer(more[k - 1], k, dir, t)
    BY DEF More
  <2>2. PICK v \in more[k - 1], m \in Nodes : w = Append(v, m)
    BY <2>1 DEF Longer
  <2>3. Leads(w[k], w[k + 1], dir, t)
    BY <2>1 DEF Longer, Leads
  <2>4. /\ v \in Seq(Nodes) /\ Len(v) = k /\ v[1] = seed /\ v[k] \in seen[k - 1]
    <3>1. Fits(v, k - 1) /\ (k - 1) + 1 = k
      BY <1>2
    <3> QED BY <3>1
  <2>5. /\ w \in Seq(Nodes) /\ Len(w) = k + 1
        /\ w[1] = v[1] /\ w[k] = v[k] /\ w[k + 1] = m
    BY <2>2, <2>4
  <2>6. w[k + 1] \in seen[k]
    BY <2>3, <2>4, <2>5 DEF Seen
  <2> QED BY <2>4, <2>5, <2>6
<1>3. \A k \in 0 .. d : k \in T
  <2> HIDE DEF T
  <2> QED BY <1>1, <1>2, UpTo
<1> QED BY <1>3

\* A node first seen in the k-th layer has a walk of k hops.
LEMMA SeenAreWalked ==
    ASSUME NEW seed \in Nodes, NEW d \in Nat, NEW dir, NEW t, NEW seen, NEW more,
           Seen(seen, seed, d, dir, t), More(more, seed, d, dir, t)
    PROVE  \A k \in 0 .. d : \A m \in seen[k] :
               (\A j \in 0 .. k - 1 : m \notin seen[j]) =>
                   \E w \in more[k] : w[k + 1] = m
<1> DEFINE New(m, k) == m \in seen[k] /\ \A j \in 0 .. k - 1 : m \notin seen[j]
           Layered(w, k) == \A i \in 1 .. k + 1 : w[i] \in seen[i - 1]
           T == {k \in 0 .. d : \A m : New(m, k) =>
                     \E w \in more[k] : w[k + 1] = m /\ Layered(w, k)}
<1>1. 0 \in T
  <2>1. more[0] = {<<seed>>} /\ seen[0] = {seed}
    BY DEF More, Seen
  <2>2. Layered(<<seed>>, 0) /\ <<seed>>[0 + 1] = seed
    BY <2>1
  <2>3. \A m : New(m, 0) => m = seed
    BY <2>1
  <2> HIDE DEF New, Layered
  <2> QED BY <2>1, <2>2, <2>3
<1>2. ASSUME NEW k \in 1 .. d, k - 1 \in T PROVE k \in T
  <2> SUFFICES ASSUME NEW m, New(m, k)
               PROVE  \E w \in more[k] : w[k + 1] = m /\ Layered(w, k)
    OBVIOUS
  <2>1. m \in seen[k] /\ m \notin seen[k - 1]
    OBVIOUS
  <2>2. m \in Nodes
    BY <2>1 DEF Seen
  <2>3. PICK n \in seen[k - 1] : Leads(n, m, dir, t)
    BY <2>1 DEF Seen
  <2>4. ASSUME NEW j \in 0 .. (k - 1) - 1, n \in seen[j] PROVE FALSE
    <3>1. j + 1 \in 1 .. d /\ (j + 1) - 1 = j /\ j + 1 \in 0 .. k - 1
      OBVIOUS
    <3>2. m \in seen[j + 1]
      BY <2>2, <2>3, <2>4, <3>1 DEF Seen
    <3> QED BY <3>1, <3>2
  <2>5. New(n, k - 1)
    BY <2>3, <2>4
  <2>6. PICK v \in more[k - 1] : v[k] = n /\ Layered(v, k - 1)
    <3>1. \E v \in more[k - 1] : v[(k - 1) + 1] = n /\ Layered(v, k - 1)
      BY <1>2, <2>5
    <3>2. (k - 1) + 1 = k
      OBVIOUS
    <3> HIDE DEF Layered
    <3> QED BY <3>1, <3>2
  <2>7. v \in Seq(Nodes) /\ Len(v) = k
    <3>1. k - 1 \in 0 .. d /\ (k - 1) + 1 = k
      OBVIOUS
    <3>2. \A j \in 0 .. d : \A u \in more[j] : u \in Seq(Nodes) /\ Len(u) = j + 1
      <4> HIDE DEF New, Layered, T
      <4> QED BY WalksAreSeen
    <3>3. v \in Seq(Nodes) /\ Len(v) = (k - 1) + 1
      BY <3>1, <3>2
    <3> QED BY <3>1, <3>3
  <2> DEFINE w == Append(v, m)
  <2>8. /\ w[k + 1] = m /\ \A i \in 1 .. k : w[i] = v[i]
    BY <2>2, <2>7
  <2>9. \A i \in 1 .. k : v[i] \in seen[i - 1]
    BY <2>6
  <2>10. \A i \in 1 .. k : v[i] # m
    <3> SUFFICES ASSUME NEW i \in 1 .. k PROVE v[i] # m
      OBVIOUS
    <3>1. i - 1 \in 0 .. k - 1
      OBVIOUS
    <3> QED BY <2>9, <3>1
  <2> HIDE DEF w
  <2>11. k \in 1 .. k /\ w[k] = n
    BY <2>6, <2>8
  <2>12. w \in Longer(more[k - 1], k, dir, t)
    <3>1. w \in {Append(u, n1) : u \in more[k - 1], n1 \in Nodes}
      BY <2>2 DEF w
    <3>2. \A i \in 1 .. k : w[i] # w[k + 1]
      BY <2>8, <2>10
    <3>3. Leads(w[k], w[k + 1], dir, t)
      BY <2>3, <2>8, <2>11
    <3> QED BY <3>1, <3>2, <3>3 DEF Longer, Leads
  <2>13. w \in more[k]
    BY <2>12 DEF More
  <2>14. Layered(w, k)
    <3> SUFFICES ASSUME NEW i \in 1 .. k + 1 PROVE w[i] \in seen[i - 1]
      OBVIOUS
    <3>1. CASE i = k + 1
      <4>1. i - 1 = k
        BY <3>1
      <4> QED BY <2>1, <2>8, <3>1, <4>1
    <3>2. CASE i # k + 1
      <4>1. i \in 1 .. k
        BY <3>2
      <4> QED BY <2>8, <2>9, <4>1
    <3> QED BY <3>1, <3>2
  <2> QED BY <2>8, <2>13, <2>14
<1>3. \A k \in 0 .. d : k \in T
  <2> HIDE DEF T
  <2> QED BY <1>1, <1>2, UpTo
<1> QED BY <1>3

\* The rows of a table join committed nodes.
OnNodes(m) == \A id \in EdgeIds : Present(m, id) =>
                  m[id].fact.from \in node /\ m[id].fact.to \in node

LEMMA ReachIsLeast ==
    ASSUME OnNodes(edge), NEW seed \in Nodes, NEW d \in Nat, NEW dir, NEW t
    PROVE  LET hits == Hits(seed, d, dir, t) IN
           BfsHits(seed, d, dir, t) =
               {h \in hits : \A g \in hits : g[1] = h[1] => h[2] <= g[2]}
<1> DEFINE hits == Hits(seed, d, dir, t)
           seen == Layer(seed, d, dir, t)
<1>1. Seen(seen, seed, d, dir, t)
  BY LayerSees
<1>2. PICK more : /\ More(more, seed, d, dir, t)
                  /\ Walks(seed, d, dir, t) = UNION {more[k] : k \in 0 .. d}
  BY WalksAre
<1>3. BfsHits(seed, d, dir, t) =
          {h \in Nodes \X (1 .. d) : h[1] \in seen[h[2]] \ seen[h[2] - 1]}
  BY DEF BfsHits
<1> HIDE DEF seen
<1>4. \A h : h \in hits <=>
          \E k \in 1 .. d : \E w \in more[k] : w[k + 1] \in node /\ h = <<w[k + 1], k>>
  <2>1. \A h : h \in hits <=>
            \E k \in 0 .. d : \E w \in more[k] :
                Len(w) > 1 /\ w[Len(w)] \in node /\ h = <<w[Len(w)], Len(w) - 1>>
    BY <1>2 DEF Hits
  <2>2. \A k \in 0 .. d : \A w \in more[k] : Len(w) = k + 1
    BY <1>1, <1>2, WalksAreSeen
  <2>3. \A k \in 0 .. d : k + 1 > 1 <=> k \in 1 .. d
    OBVIOUS
  <2>4. \A k \in 0 .. d : (k + 1) - 1 = k
    OBVIOUS
  <2>5. 1 .. d \subseteq 0 .. d
    OBVIOUS
  <2> HIDE DEF hits
  <2>6. ASSUME NEW h \in hits
        PROVE  \E k \in 1 .. d : \E w \in more[k] : w[k + 1] \in node /\ h = <<w[k + 1], k>>
    <3>1. PICK k \in 0 .. d : \E w \in more[k] :
              Len(w) > 1 /\ w[Len(w)] \in node /\ h = <<w[Len(w)], Len(w) - 1>>
      BY <2>1
    <3>2. PICK w \in more[k] :
              Len(w) > 1 /\ w[Len(w)] \in node /\ h = <<w[Len(w)], Len(w) - 1>>
      BY <3>1
    <3>3. Len(w) = k + 1
      BY <2>2
    <3>4. k \in 1 .. d /\ (k + 1) - 1 = k
      BY <3>2, <3>3
    <3> QED BY <3>2, <3>3, <3>4
  <2>7. ASSUME NEW k \in 1 .. d, NEW w \in more[k], w[k + 1] \in node
        PROVE  <<w[k + 1], k>> \in hits
    <3>1. k \in 0 .. d /\ (k + 1) - 1 = k /\ k + 1 > 1
      OBVIOUS
    <3>2. Len(w) = k + 1
      BY <2>2, <3>1
    <3>3. /\ Len(w) > 1 /\ w[Len(w)] \in node
          /\ <<w[k + 1], k>> = <<w[Len(w)], Len(w) - 1>>
      BY <2>7, <3>1, <3>2
    <3> QED BY <2>1, <3>1, <3>3
  <2> QED BY <2>6, <2>7
<1> HIDE DEF hits
<1>5. \A k \in 0 .. d : \A j \in 0 .. k : seen[j] \subseteq seen[k]
  BY <1>1, SeenGrows
\* A node that is first seen in layer k is at a hit of k hops.
<1>6. ASSUME NEW k \in 1 .. d, NEW m \in seen[k], m \notin seen[k - 1]
      PROVE  <<m, k>> \in hits
  <2>1. \A j \in 0 .. k - 1 : m \notin seen[j]
    <3>1. k - 1 \in 0 .. d
      OBVIOUS
    <3> QED BY <1>5, <1>6, <3>1
  <2>2. PICK w \in more[k] : w[k + 1] = m
    <3>1. k \in 0 .. d
      OBVIOUS
    <3> QED BY <1>1, <1>2, <2>1, <3>1, SeenAreWalked
  <2>3. PICK n \in seen[k - 1] : Leads(n, m, dir, t)
    BY <1>1, <1>6 DEF Seen
  <2>4. m \in node
    BY <2>3 DEF Leads, ValidAt, Ends, OnNodes
  <2> QED BY <1>4, <2>2, <2>4
\* A hit of k hops is of a node that the search has seen by layer k, and that
\* is not its seed.
<1>7. ASSUME NEW h \in hits
      PROVE  \E m \in Nodes, k \in 1 .. d :
                 h = <<m, k>> /\ m \in seen[k] /\ m # seed
  <2>0. PICK k \in 1 .. d : \E w \in more[k] : h = <<w[k + 1], k>>
    BY <1>4
  <2>1. PICK w \in more[k] : h = <<w[k + 1], k>>
    BY <2>0
  <2>2. k \in 0 .. d
    OBVIOUS
  <2>3. w[k + 1] \in seen[k] /\ w[1] = seed
    BY <1>1, <1>2, <2>2, WalksAreSeen
  <2>4. w[1] # w[k + 1]
    <3>1. w \in Longer(more[k - 1], k, dir, t) /\ 1 \in 1 .. k
      BY <1>2 DEF More
    <3> QED BY <3>1 DEF Longer
  <2>5. w[k + 1] \in Nodes
    BY <1>1, <2>2, <2>3 DEF Seen
  <2> QED BY <2>1, <2>3, <2>4, <2>5
<1>8. ASSUME NEW h \in Nodes \X (1 .. d), h[1] \in seen[h[2]] \ seen[h[2] - 1]
      PROVE  h \in hits /\ \A g \in hits : g[1] = h[1] => h[2] <= g[2]
  <2>1. PICK m \in Nodes, k \in 1 .. d : h = <<m, k>> /\ m \in seen[k] \ seen[k - 1]
    BY <1>8
  <2>2. h \in hits
    BY <1>6, <2>1
  <2>3. ASSUME NEW g \in hits, g[1] = h[1] PROVE h[2] <= g[2]
    <3>1. PICK j \in 1 .. d : g = <<m, j>> /\ m \in seen[j]
      BY <1>7, <2>1, <2>3
    <3>2. j <= k - 1 => seen[j] \subseteq seen[k - 1]
      <4>1. j <= k - 1 => k - 1 \in 0 .. d /\ j \in 0 .. k - 1
        OBVIOUS
      <4> QED BY <1>5, <4>1
    <3> QED BY <2>1, <3>1, <3>2
  <2> QED BY <2>2, <2>3
<1>9. ASSUME NEW h \in hits, \A g \in hits : g[1] = h[1] => h[2] <= g[2]
      PROVE  h \in Nodes \X (1 .. d) /\ h[1] \in seen[h[2]] \ seen[h[2] - 1]
  <2>1. PICK m \in Nodes, k \in 1 .. d : h = <<m, k>> /\ m \in seen[k] /\ m # seed
    BY <1>7
  <2>2. ASSUME m \in seen[k - 1] PROVE FALSE
    <3> DEFINE T == {j \in 0 .. d : m \in seen[j]}
    <3>1. k - 1 \in T /\ T \in SUBSET Nat
      BY <2>2
    <3>2. PICK j \in T : \A i \in T : j <= i
      <4> HIDE DEF T
      <4> QED BY <3>1, LeastNumber
    <3>3. j # 0
      BY <1>1, <2>1, <3>2 DEF Seen
    <3>4. j \in 1 .. d /\ j - 1 \in 0 .. d /\ ~ (j <= j - 1)
      BY <3>2, <3>3
    <3>5. m \in seen[j] /\ m \notin seen[j - 1]
      BY <3>2, <3>4
    <3>6. <<m, j>> \in hits
      BY <1>6, <3>4, <3>5
    <3>7. k <= j
      BY <1>9, <2>1, <3>6
    <3>8. j <= k - 1
      BY <3>1, <3>2
    <3> QED BY <3>4, <3>7, <3>8
  <2> QED BY <2>1, <2>2
<1> QED BY <1>3, <1>8, <1>9 DEF hits

-----------------------------------------------------------------------------
(* The ends of edges                                                       *)

\* A transaction goes on only past an end it has found, and nodes are never
\* deleted.
FoundEnds ==
    \A p \in Procs :
        /\ gpc[p] \in InTx \ {"from"} => call[p].fact.from \in node
        /\ gpc[p] \in InTx \ {"from", "to"} => call[p].fact.to \in node

EndsInv == OnNodes(edge) /\ (\A p \in Procs : OnNodes(mine[p])) /\ FoundEnds

LEMMA EndsInit == GraphInit => EndsInv
BY DEF GraphInit, EndsInv, OnNodes, FoundEnds, NoRows, Present, InTx

\* A call that ends leaves no row of its own and no claim.
LEMMA ReturnKeepsEnds ==
    ASSUME GraphTypeOK, EndsInv, NEW p \in Procs, GReturn(p),
           node \subseteq node', OnNodes(edge)'
    PROVE  EndsInv'
<1>1. ASSUME NEW q \in Procs PROVE OnNodes(mine[q])'
  <2>1. CASE q = p
    BY <2>1 DEF GraphTypeOK, GReturn, OnNodes, NoRows, Present
  <2>2. CASE q # p
    <3>1. mine'[q] = mine[q]
      BY <2>2 DEF GraphTypeOK, GReturn
    <3> QED BY <3>1 DEF EndsInv, OnNodes, Present
  <2> QED BY <2>1, <2>2
<1>2. FoundEnds'
  <2> SUFFICES ASSUME NEW q \in Procs
               PROVE  /\ gpc'[q] \in InTx \ {"from"} => call'[q].fact.from \in node'
                      /\ gpc'[q] \in InTx \ {"from", "to"} => call'[q].fact.to \in node'
    BY DEF FoundEnds
  <2>1. CASE q = p
    <3>1. gpc'[q] = "idle"
      BY <2>1 DEF GraphTypeOK, GReturn
    <3> QED BY <3>1 DEF InTx
  <2>2. CASE q # p
    <3>1. gpc'[q] = gpc[q] /\ call'[q] = call[q]
      BY <2>2 DEF GraphTypeOK, GReturn
    <3> QED BY <3>1 DEF EndsInv, FoundEnds
  <2> QED BY <2>1, <2>2
<1> QED BY <1>1, <1>2 DEF EndsInv

LEMMA PublishKeepsEnds ==
    ASSUME EndsInv, NEW p \in Procs, Publish(p), node' = node
    PROVE  OnNodes(edge)'
BY DEF Publish, EndsInv, OnNodes, Present

\* A step that leaves the call alone goes on where its ends have been found.
LEMMA GoingOn ==
    ASSUME GraphTypeOK, FoundEnds, NEW p \in Procs, NEW place, Goto(p, place),
           UNCHANGED <<node, call>>,
           place # "from" => call[p].fact.from \in node,
           place \notin {"from", "to"} => call[p].fact.to \in node
    PROVE  FoundEnds'
<1> SUFFICES ASSUME NEW q \in Procs
             PROVE  /\ gpc'[q] \in InTx \ {"from"} => call[q].fact.from \in node
                    /\ gpc'[q] \in InTx \ {"from", "to"} => call[q].fact.to \in node
  BY DEF FoundEnds
<1>1. CASE q = p
  <2>1. gpc'[q] = place
    BY <1>1 DEF GraphTypeOK, Goto
  <2> QED BY <1>1, <2>1
<1>2. CASE q # p
  <2>1. gpc'[q] = gpc[q]
    BY <1>2 DEF GraphTypeOK, Goto
  <2> QED BY <2>1 DEF FoundEnds
<1> QED BY <1>1, <1>2

LEMMA EndsStep == GraphTypeOK /\ EndsInv /\ [GraphNext]_graphVars => EndsInv'
<1> SUFFICES ASSUME GraphTypeOK, EndsInv, [GraphNext]_graphVars PROVE EndsInv'
  OBVIOUS
<1>0. /\ OnNodes(edge) /\ FoundEnds
      /\ \A p \in Procs : OnNodes(mine[p])
  BY DEF EndsInv
<1>1. CASE UNCHANGED graphVars
  BY <1>1 DEF graphVars, EndsInv, OnNodes, FoundEnds, Present
<1>2. ASSUME NEW p \in Procs, Rollback(p) PROVE EndsInv'
  <2>1. GReturn(p) /\ node' = node /\ edge' = edge
    BY <1>2 DEF Rollback, graphTables
  <2>2. OnNodes(edge)'
    BY <1>0, <2>1 DEF OnNodes, Present
  <2> QED BY <2>1, <2>2, ReturnKeepsEnds
<1>3. ASSUME UNCHANGED <<node, edge, mine>>, FoundEnds' PROVE EndsInv'
  BY <1>0, <1>3 DEF EndsInv, OnNodes, Present
<1>4. ASSUME NEW p \in Procs, NEW n \in Nodes, GAddNode(p, n) PROVE EndsInv'
  BY <1>0, <1>4 DEF GAddNode, EndsInv, OnNodes, FoundEnds, Present
<1>5. ASSUME NEW p \in Procs, NEW id \in EdgeIds, NEW r \in Requests, GAddEdge(p, id, r)
      PROVE  EndsInv'
  <2>1. UNCHANGED <<node, edge, mine>>
    BY <1>5 DEF GAddEdge, graphTables
  <2>2. FoundEnds'
    <3> SUFFICES ASSUME NEW q \in Procs
                 PROVE  /\ gpc'[q] \in InTx \ {"from"} => call'[q].fact.from \in node
                        /\ gpc'[q] \in InTx \ {"from", "to"} => call'[q].fact.to \in node
      BY <2>1 DEF FoundEnds
    <3>1. CASE q = p
      <4>1. gpc'[q] = "from"
        BY <1>5, <3>1 DEF GraphTypeOK, GAddEdge, Goto
      <4> QED BY <4>1
    <3>2. CASE q # p
      <4>1. gpc'[q] = gpc[q] /\ call'[q] = call[q]
        BY <1>5, <3>2 DEF GraphTypeOK, GAddEdge, Goto
      <4> QED BY <1>0, <4>1 DEF FoundEnds
    <3> QED BY <3>1, <3>2
  <2> QED BY <1>3, <2>1, <2>2
<1>6. ASSUME NEW p \in Procs, NEW id \in EdgeIds, NEW at \in Times, GRetract(p, id, at)
      PROVE  EndsInv'
  <2>1. UNCHANGED <<node, mine, gpc, call>>
    BY <1>6 DEF GRetract
  <2>2. OnNodes(edge)'
    <3> SUFFICES ASSUME NEW i \in EdgeIds, Present(edge', i)
                 PROVE  edge'[i].fact.from \in node /\ edge'[i].fact.to \in node
      BY <2>1 DEF OnNodes, Present
    <3>1. CASE i = id
      <4>1. Present(edge, i) /\ edge'[i] = [edge[i] EXCEPT !.validTo = at]
        BY <1>6, <3>1 DEF GRetract, GraphTypeOK, Table, Valid, Present
      <4>2. edge'[i].fact = edge[i].fact
        BY <4>1 DEF GraphTypeOK, Table, Edge, Present
      <4> QED BY <1>0, <4>1, <4>2 DEF OnNodes
    <3>2. CASE i # id
      <4>1. edge'[i] = edge[i]
        BY <1>6, <3>2 DEF GRetract, GraphTypeOK, Table
      <4> QED BY <1>0, <4>1 DEF OnNodes, Present
    <3> QED BY <3>1, <3>2
  <2>3. FoundEnds'
    BY <1>0, <2>1 DEF FoundEnds
  <2>4. \A q \in Procs : OnNodes(mine[q])'
    BY <1>0, <2>1 DEF OnNodes, Present
  <2> QED BY <2>2, <2>3, <2>4 DEF EndsInv
<1>7. ASSUME NEW p \in Procs, AssertNode(p) PROVE EndsInv'
  <2>1. CASE /\ gpc[p] = "from" /\ call[p].fact.from \in node
             /\ Goto(p, "to")
             /\ UNCHANGED <<graphTables, mine, call, scan, told, gfaults>>
    <3>1. UNCHANGED <<node, edge, mine, call>>
      BY <2>1 DEF graphTables
    <3>2. FoundEnds'
      BY <1>0, <2>1, <3>1, GoingOn
    <3> QED BY <1>3, <3>1, <3>2
  <2>2. CASE /\ gpc[p] = "to" /\ call[p].fact.to \in node
             /\ Goto(p, IF call[p].supersede THEN "supersede" ELSE "insert")
             /\ UNCHANGED <<graphTables, mine, call, scan, told, gfaults>>
    <3>1. UNCHANGED <<node, edge, mine, call>>
      BY <2>2 DEF graphTables
    <3>2. call[p].fact.from \in node
      BY <1>0, <2>2 DEF FoundEnds, InTx
    <3>3. FoundEnds'
      BY <1>0, <2>2, <3>1, <3>2, GoingOn
    <3> QED BY <1>3, <3>1, <3>3
  <2> QED BY <1>2, <1>7, <2>1, <2>2 DEF AssertNode
<1>8. ASSUME NEW p \in Procs, gpc[p] \in InTx \ {"from", "to"}, NEW place, Goto(p, place),
             UNCHANGED <<node, call>>
      PROVE  FoundEnds'
  <2>1. call[p].fact.from \in node /\ call[p].fact.to \in node
    BY <1>0, <1>8 DEF FoundEnds
  <2> QED BY <1>0, <1>8, <2>1, GoingOn
<1>9. ASSUME NEW p \in Procs, SupersedeStart(p) PROVE EndsInv'
  <2>1. UNCHANGED <<node, edge, mine, call>> /\ Goto(p, "update")
    BY <1>9 DEF SupersedeStart, graphTables
  <2>2. FoundEnds'
    BY <1>8, <1>9, <2>1 DEF SupersedeStart, InTx
  <2> QED BY <1>3, <2>1, <2>2
<1>10. ASSUME NEW p \in Procs, NEW id \in EdgeIds, SupersedeRow(p, id) PROVE EndsInv'
  <2>1. CASE ~ Rollback(p)
    <3>1. UNCHANGED <<node, edge, gpc, call>>
      BY <1>10, <2>1 DEF SupersedeRow, graphTables
    <3>2. FoundEnds' /\ OnNodes(edge)'
      BY <1>0, <3>1 DEF FoundEnds, OnNodes, Present
    <3>3. CASE mine' = mine
      BY <1>3, <3>1, <3>2, <3>3
    <3>4. CASE mine' # mine
      <4>1. /\ Victim(call[p], id)
            /\ mine' = [mine EXCEPT ![p][id] =
                          [edge[id] EXCEPT !.validTo = call[p].at,
                                           !.supersededBy = call[p].id]]
        BY <1>10, <2>1, <3>4 DEF SupersedeRow
      <4>2. Present(edge, id) /\ mine'[p][id].fact = edge[id].fact
        BY <4>1 DEF GraphTypeOK, Table, Edge, Victim, Valid, Present
      <4>3. \A q \in Procs, i \in EdgeIds :
                (q = p /\ i = id) \/ mine'[q][i] = mine[q][i]
        BY <4>1 DEF GraphTypeOK, Table
      <4>4. ASSUME NEW q \in Procs PROVE OnNodes(mine[q])'
        <5> SUFFICES ASSUME NEW i \in EdgeIds, Present(mine'[q], i)
                     PROVE  /\ mine'[q][i].fact.from \in node
                            /\ mine'[q][i].fact.to \in node
          BY <3>1 DEF OnNodes, Present
        <5>1. CASE q = p /\ i = id
          BY <1>0, <4>2, <5>1 DEF OnNodes
        <5>2. CASE mine'[q][i] = mine[q][i]
          BY <1>0, <5>2 DEF OnNodes, Present
        <5> QED BY <4>3, <5>1, <5>2
      <4> QED BY <3>2, <4>4 DEF EndsInv
    <3> QED BY <3>3, <3>4
  <2> QED BY <1>2, <2>1
<1>11. ASSUME NEW p \in Procs, SupersedeEnd(p) PROVE EndsInv'
  <2>1. CASE ~ Rollback(p)
    <3>1. UNCHANGED <<node, edge, mine, call>> /\ Goto(p, "insert") /\ gpc[p] = "update"
      BY <1>11, <2>1 DEF SupersedeEnd, graphTables
    <3>2. FoundEnds'
      BY <1>8, <3>1 DEF InTx
    <3> QED BY <1>3, <3>1, <3>2
  <2> QED BY <1>2, <2>1
<1>12. ASSUME NEW p \in Procs, GInsert(p) PROVE EndsInv'
  <2>1. CASE ~ Rollback(p)
    <3> DEFINE row == [fact |-> call[p].fact, validFrom |-> call[p].at,
                       validTo |-> Forever, supersededBy |-> NoId]
    <3>1. /\ UNCHANGED <<node, edge, call>> /\ Goto(p, "commit") /\ gpc[p] = "insert"
          /\ mine' = [mine EXCEPT ![p][call[p].id] = row]
      BY <1>12, <2>1 DEF GInsert, graphTables
    <3>2. FoundEnds'
      BY <1>8, <3>1 DEF InTx
    <3>3. OnNodes(edge)'
      BY <1>0, <3>1 DEF OnNodes, Present
    <3>4. call[p].fact.from \in node /\ call[p].fact.to \in node
      BY <1>0, <3>1 DEF FoundEnds, InTx
    <3>5. \A q \in Procs, i \in EdgeIds :
              (q = p /\ mine'[q][i].fact = call[p].fact) \/ mine'[q][i] = mine[q][i]
      <4>1. row.fact = call[p].fact
        OBVIOUS
      <4> HIDE DEF row
      <4> QED BY <3>1, <4>1 DEF GraphTypeOK, Table
    <3>6. ASSUME NEW q \in Procs PROVE OnNodes(mine[q])'
      <4> SUFFICES ASSUME NEW i \in EdgeIds, Present(mine'[q], i)
                   PROVE  /\ mine'[q][i].fact.from \in node
                          /\ mine'[q][i].fact.to \in node
        BY <3>1 DEF OnNodes, Present
      <4>1. CASE mine'[q][i].fact = call[p].fact
        BY <3>4, <4>1
      <4>2. CASE mine'[q][i] = mine[q][i]
        BY <1>0, <4>2 DEF OnNodes, Present
      <4> QED BY <3>5, <4>1, <4>2
    <3> QED BY <3>2, <3>3, <3>6 DEF EndsInv
  <2> QED BY <1>2, <2>1
<1>13. ASSUME NEW p \in Procs, Commit(p) PROVE EndsInv'
  <2>1. GReturn(p) /\ Publish(p) /\ node' = node
    BY <1>13 DEF Commit
  <2> QED BY <2>1, PublishKeepsEnds, ReturnKeepsEnds
<1>14. ASSUME NEW p \in Procs, LoseConnection(p) PROVE EndsInv'
  <2>1. GReturn(p) /\ node' = node /\ (edge' = edge \/ Publish(p))
    BY <1>14 DEF LoseConnection
  <2>2. OnNodes(edge)'
    <3>1. CASE edge' = edge
      BY <1>0, <2>1, <3>1 DEF OnNodes, Present
    <3> QED BY <2>1, <3>1, PublishKeepsEnds
  <2> QED BY <2>1, <2>2, ReturnKeepsEnds
<1>15. ASSUME NEW p \in Procs, DeadlockDetected(p) PROVE EndsInv'
  BY <1>2, <1>15 DEF DeadlockDetected
<1> QED
  BY <1>1, <1>4, <1>5, <1>6, <1>7, <1>9, <1>10, <1>11, <1>12, <1>13, <1>14, <1>15
  DEF GraphNext, GraphStep

\* The recursive query of the database and the breadth-first search of the
\* in-memory store reach the same nodes at the same least number of hops, on
\* every graph, from every node, to every depth: the ends of an edge are found
\* before it is inserted and nodes stay, so no walk leads out of the table.
THEOREM PgSameReach == PgSpec => []SameReach
<1>1. GraphTypeOK /\ EndsInv => SameReach
  <2> SUFFICES ASSUME GraphTypeOK, EndsInv PROVE SameReach
    OBVIOUS
  <2>1. OnNodes(edge) /\ node \subseteq Nodes
    BY DEF EndsInv, GraphTypeOK
  <2>2. \A depth \in 1 .. MaxDepth : depth \in Nat
    BY PgBoundsAssumption
  <2>3. ASSUME NEW seed \in node, NEW depth \in 1 .. MaxDepth, NEW dir, NEW t
        PROVE  LET hits == Hits(seed, depth, dir, t) IN
               BfsHits(seed, depth, dir, t) =
                   {h \in hits : \A g \in hits : g[1] = h[1] => h[2] <= g[2]}
    BY <2>1, <2>2, ReachIsLeast
  <2> QED BY <2>3 DEF SameReach
<1>2. GraphSpec => [](GraphTypeOK /\ EndsInv)
  <2>1. GraphInit => GraphTypeOK /\ EndsInv
    BY TypesInit, EndsInit
  <2>2. (GraphTypeOK /\ EndsInv) /\ [GraphNext]_graphVars => (GraphTypeOK /\ EndsInv)'
    BY TypesStep, EndsStep
  <2> QED BY <2>1, <2>2, PTL DEF GraphSpec
<1> QED BY <1>1, <1>2, PgIsGraph, PTL

-----------------------------------------------------------------------------
(* Part 3.  The document table of Postgres                                *)

\* The documents a call has still to insert.
Rest(b) == IF vpc[b] = "batch" THEN Len(left[b]) ELSE IF vpc[b] = "upsert" THEN 1 ELSE 0

\* One token per document that a call has written and not yet counted, and one
\* per document that it will count.
LandedOf(b) == {b} \X ((Rest(b) + 1) .. bump[b])
Landed(s) == UNION {LandedOf(b) : b \in Counting(s)}
Given(s) == UNION {{b} \X (1 .. bump[b]) : b \in Counting(s)}

\* A call that adds knows how many documents it has left, and has loaded.
AddsInOrder ==
    \A b \in Backends :
        /\ vpc[b] = "upsert" => bump[b] = 1 /\ Len(left[b]) = 1
        /\ vpc[b] = "batch" => Len(left[b]) <= bump[b]
        /\ vpc[b] \in {"upsert", "batch", "bump"} => cached[b] \in Nat

\* What doc_count is worth: nothing once a clear is about to zero it.
Sure(s) == IF Clearing(s) THEN 0 ELSE doc_count[s]

\* What is counted, and what is landed, are enough for the rows there are.
Covered(s) ==
    /\ doc_count[s] \in Nat
    /\ IsFiniteSet(InStore(s))
    /\ lost = 0 /\ s \notin crossed =>
          Cardinality(InStore(s)) <= Sure(s) + Cardinality(Landed(s))

RowsCounted == \A s \in Stores : Covered(s)

\* A transaction patches one edit, holds rows of its store, and has locked or
\* is still to visit each row that it owes.
PatchesInOrder ==
    \A b \in Backends :
        /\ locked[b] \subseteq InStore(storeOf[b])
        /\ vpc[b] # "patch" => edit[b] = {} /\ locked[b] = {}
        /\ vpc[b] = "patch" => \E x \in begun :
              /\ edit[b] = {x}
              /\ owed[x] \subseteq InStore(storeOf[b])
              /\ owed[x] \subseteq locked[b] \union ToSet(left[b])

OneTransaction == \A b, c \in Backends : b # c => edit[b] \intersect edit[c] = {}

\* An edit that no transaction has committed is on no row.
Open(x) == x \notin begun \/ \E b \in Backends : x \in edit[b]
NotYetSeen ==
    \A x \in Edits : Open(x) => \A id \in Ids : Has(id) => x \notin docs[id].patches

\* One whose transaction is over is on every row that it owes.
SeenWhole ==
    \A x \in Edits : IF x \notin begun THEN owed[x] = {} ELSE
        (\A b \in Backends : x \notin edit[b]) =>
            \A id \in owed[x] : Has(id) /\ x \in docs[id].patches

VectorIInv ==
    /\ VectorTypeOK /\ AddsInOrder /\ RowsCounted
    /\ PatchesInOrder /\ OneTransaction /\ NotYetSeen /\ SeenWhole

-----------------------------------------------------------------------------
(* Lists of ids, and the types                                             *)

LEMMA ListSet ==
    ASSUME NEW q \in Seq(Ids)
    PROVE  /\ ToSet(q) \subseteq Ids /\ IsFiniteSet(ToSet(q))
           /\ Cardinality(ToSet(q)) \in Nat /\ Cardinality(ToSet(q)) <= Len(q)
<1>1. Len(q) \in Nat /\ DOMAIN q = 1 .. Len(q) /\ q \in [1 .. Len(q) -> Ids]
  OBVIOUS
<1>2. ToSet(q) \subseteq Ids /\ q \in Surjection(1 .. Len(q), ToSet(q))
  BY <1>1 DEF ToSet, Surjection
<1>3. IsFiniteSet(1 .. Len(q)) /\ Cardinality(1 .. Len(q)) = Len(q)
  BY <1>1, FS_Interval
<1> QED
  BY <1>2, <1>3, FS_Surjection, FS_CardinalityType

\* Taking the first id off a list.
LEMMA ListHead ==
    ASSUME NEW q \in Seq(Ids), q # <<>>
    PROVE  /\ Head(q) \in Ids /\ Tail(q) \in Seq(Ids)
           /\ Len(Tail(q)) = Len(q) - 1 /\ Len(q) \in Nat \ {0}
           /\ ToSet(q) \subseteq {Head(q)} \union ToSet(Tail(q))
<1>1. /\ Len(q) \in Nat \ {0} /\ DOMAIN q = 1 .. Len(q) /\ Head(q) = q[1]
      /\ Head(q) \in Ids /\ Tail(q) \in Seq(Ids) /\ Len(Tail(q)) = Len(q) - 1
      /\ DOMAIN Tail(q) = 1 .. Len(q) - 1
      /\ \A i \in 1 .. Len(q) - 1 : Tail(q)[i] = q[i + 1]
  OBVIOUS
<1>2. ASSUME NEW i \in 1 .. Len(q), i # 1 PROVE q[i] \in ToSet(Tail(q))
  <2>1. i - 1 \in 1 .. Len(q) - 1 /\ (i - 1) + 1 = i
    BY <1>1, <1>2
  <2>2. q[i] = Tail(q)[i - 1]
    BY <1>1, <2>1
  <2> QED
    BY <2>1, <2>2, <1>1 DEF ToSet
<1> QED
  BY <1>1, <1>2 DEF ToSet

LEMMA EmptyList ==
    /\ <<>> \in Seq(Ids) /\ ToSet(<<>>) = {} /\ Len(<<>>) = 0
BY DEF ToSet

LEMMA VectorInitTypes == VectorInit => VectorTypeOK
BY EmptyList, PgVectorBoundsAssumption DEF VectorInit, VectorTypeOK, Places

LEMMA DocTypes ==
    ASSUME VectorTypeOK, NEW id \in Ids
    PROVE  /\ docs[id] \in Doc \union {NoDoc}
           /\ Has(id) => docs[id] \in Doc /\ docs[id].store \in Stores
                         /\ docs[id].patches \in SUBSET Edits
BY DEF VectorTypeOK, Has, Doc

LEMMA InsertedTypes ==
    ASSUME VectorTypeOK, NEW b \in Backends, NEW ids
    PROVE  Inserted(b, ids) \in [Ids -> Doc \union {NoDoc}]
<1>1. [store |-> storeOf[b], patches |-> {}] \in Doc
  BY DEF VectorTypeOK, Doc
<1> QED
  BY <1>1, DocTypes DEF Inserted

\* The end of a call empties its locals.
LEMMA DoneTypes ==
    ASSUME VectorTypeOK, NEW b \in Backends, Done(b)
    PROVE  /\ vpc' \in [Backends -> Places] /\ left' \in [Backends -> Seq(Ids)]
           /\ bump' \in [Backends -> Nat] /\ edit' \in [Backends -> SUBSET Edits]
           /\ locked' \in [Backends -> SUBSET Ids]
           /\ vpc'[b] = "idle" /\ edit'[b] = {} /\ locked'[b] = {}
           /\ \A c \in Backends \ {b} :
                 /\ vpc'[c] = vpc[c] /\ left'[c] = left[c] /\ bump'[c] = bump[c]
                 /\ edit'[c] = edit[c] /\ locked'[c] = locked[c]
BY EmptyList DEF Done, At, VectorTypeOK, Places

LEMMA OwedTypes ==
    ASSUME VectorTypeOK
    PROVE  /\ \A b \in Backends :
                [x \in Edits |-> IF x \in edit[b] THEN {} ELSE owed[x]] \in [Edits -> SUBSET Ids]
           /\ \A ids : [x \in Edits |-> owed[x] \ ids] \in [Edits -> SUBSET Ids]
BY DEF VectorTypeOK

LEMMA RaiseTypes ==
    ASSUME NEW n \in Nat, NEW k \in Nat
    PROVE  Raise(n, k) \in Nat
BY DEF Raise

LEMMA VectorTypeStep ==
    ASSUME VectorIInv, VectorNext
    PROVE  VectorTypeOK'
<1> USE DEF VectorIInv
<1>1. ASSUME NEW b \in Backends, Load(b) \/ ClearStart(b) \/ BatchDone(b) PROVE VectorTypeOK'
  BY <1>1 DEF Load, ClearStart, BatchDone, At, VectorTypeOK, Places, vectorTables
<1>2. ASSUME NEW b \in Backends, FetchManifest(b) PROVE VectorTypeOK'
  <2>1. doc_count[storeOf[b]] \in Nat
    BY DEF RowsCounted, Covered, VectorTypeOK
  <2> QED
    BY <1>2, <2>1 DEF FetchManifest, At, VectorTypeOK, Places, vectorTables
<1>3. ASSUME NEW b \in Backends, NEW place \in {"upsert", "batch"}, NEW q \in Seq(Ids),
             AddStart(b, place, q)
      PROVE  VectorTypeOK'
  <2>1. Len(q) \in Nat /\ adds' \in 0 .. MaxAdds
    BY <1>3, PgVectorBoundsAssumption DEF AddStart, VectorTypeOK
  <2> QED
    BY <1>3, <2>1 DEF AddStart, At, VectorTypeOK, Places, vectorTables
<1>4. ASSUME NEW b \in Backends, NEW x \in Edits, PatchStart(b, x) PROVE VectorTypeOK'
  <2>1. Named[x] \in Seq(Ids) /\ ToSet(Named[x]) \subseteq Ids
    BY EditAssumption, ListSet
  <2>2. owed' \in [Edits -> SUBSET Ids]
    BY <1>4, <2>1 DEF PatchStart, VectorTypeOK
  <2>3. edit' \in [Backends -> SUBSET Edits] /\ left' \in [Backends -> Seq(Ids)]
    BY <1>4, <2>1 DEF PatchStart, VectorTypeOK
  <2> QED
    BY <1>4, <2>2, <2>3 DEF PatchStart, At, VectorTypeOK, Places, vectorTables
<1>5. ASSUME NEW b \in Backends, Upsert(b) PROVE VectorTypeOK'
  <2>1. Head(left[b]) \in Ids
    <3>1. left[b] \in Seq(Ids) /\ left[b] # <<>>
      BY <1>5, EmptyList DEF VectorTypeOK, Upsert, AddsInOrder
    <3> QED
      BY <3>1, ListHead
  <2>2. docs' \in [Ids -> Doc \union {NoDoc}]
    BY <1>5, <2>1, DocTypes DEF Upsert, VectorTypeOK, Doc
  <2>3. owed' \in [Edits -> SUBSET Ids]
    BY <1>5, OwedTypes DEF Upsert, Forgive
  <2> QED
    BY <1>5, <2>2, <2>3 DEF Upsert, At, VectorTypeOK, Places
<1>6. ASSUME NEW b \in Backends, InsertNext(b) PROVE VectorTypeOK'
  <2>1. left[b] \in Seq(Ids) /\ left[b] # <<>> /\ Tail(left[b]) \in Seq(Ids)
    BY <1>6, ListHead DEF InsertNext, VectorTypeOK
  <2>2. docs' \in [Ids -> Doc \union {NoDoc}]
    BY <1>6, InsertedTypes DEF InsertNext
  <2> QED
    BY <1>6, <2>1, <2>2 DEF InsertNext, VectorTypeOK
<1>7. ASSUME NEW b \in Backends, CopyIn(b) PROVE VectorTypeOK'
  <2>2. docs' \in [Ids -> Doc \union {NoDoc}]
    BY <1>7, InsertedTypes DEF CopyIn
  <2> QED
    BY <1>7, <2>2, EmptyList DEF CopyIn, At, VectorTypeOK, Places
<1>8. ASSUME NEW b \in Backends, BumpManifest(b) PROVE VectorTypeOK'
  <2>1. cached[b] \in Nat /\ bump[b] \in Nat /\ storeOf[b] \in Stores
    BY <1>8 DEF BumpManifest, AddsInOrder, VectorTypeOK
  <2>2. cached' \in [Backends -> Nat \union {NotLoaded}]
    BY <1>8, <2>1, RaiseTypes DEF BumpManifest, VectorTypeOK
  <2>3. doc_count' \in [Stores -> Int]
    BY <1>8, <2>1 DEF BumpManifest, VectorTypeOK
  <2>4. Done(b)
    BY <1>8 DEF BumpManifest
  <2>5. crossed' \in SUBSET Stores
    BY <1>8, <2>1 DEF BumpManifest, NoteCrossing, VectorTypeOK
  <2> QED
    BY <1>8, <2>2, <2>3, <2>4, <2>5, DoneTypes DEF BumpManifest, VectorTypeOK
<1>9. ASSUME NEW b \in Backends, PatchRow(b) PROVE VectorTypeOK'
  <2>1. left[b] \in Seq(Ids) /\ left[b] # <<>> /\ Tail(left[b]) \in Seq(Ids)
        /\ Head(left[b]) \in Ids
    BY <1>9, ListHead DEF PatchRow, VectorTypeOK
  <2> QED
    BY <1>9, <2>1 DEF PatchRow, VectorTypeOK, vectorTables
<1>10. ASSUME NEW b \in Backends, PatchCommit(b) PROVE VectorTypeOK'
  <2>1. ASSUME NEW id \in Ids, id \in locked[b]
        PROVE [docs[id] EXCEPT !.patches = @ \union edit[b]] \in Doc
    <3>1. docs[id] \in Doc /\ edit[b] \in SUBSET Edits
      BY <1>10, <2>1, DocTypes DEF VectorTypeOK, PatchesInOrder, InStore
    <3> QED
      BY <3>1 DEF Doc
  <2> QED
    BY <1>10, <2>1, DocTypes, DoneTypes DEF PatchCommit, VectorTypeOK
<1>11. ASSUME NEW b \in Backends, DeadlockVictim(b) PROVE VectorTypeOK'
  BY <1>11, DoneTypes, OwedTypes DEF DeadlockVictim, VectorTypeOK, vectorTables
<1>12. ASSUME NEW b \in Backends, Delete(b) PROVE VectorTypeOK'
  <2>1. docs' \in [Ids -> Doc \union {NoDoc}] /\ owed' \in [Edits -> SUBSET Ids]
    BY <1>12, DocTypes, OwedTypes DEF Delete, Forgive
  <2> QED
    BY <1>12, <2>1 DEF Delete, At, VectorTypeOK, Places
<1>13. ASSUME NEW b \in Backends, Zero(b) PROVE VectorTypeOK'
  BY <1>13 DEF Zero, At, VectorTypeOK, Places
<1>14. ASSUME NEW b \in Backends, Lose(b) PROVE VectorTypeOK'
  <2>1. lost' \in 0 .. MaxLost
    BY <1>14, PgVectorBoundsAssumption DEF Lose, VectorTypeOK
  <2> QED
    BY <1>14, <2>1, DoneTypes, OwedTypes DEF Lose, VectorTypeOK, vectorTables
<1> QED
  <2>1. \A id \in Ids : <<id>> \in Seq(Ids)
    OBVIOUS
  <2> QED
    BY <1>1, <1>2, <1>3, <1>4, <1>5, <1>6, <1>7, <1>8, <1>9, <1>10, <1>11, <1>12, <1>13, <1>14,
       <2>1, BatchAssumption DEF VectorNext, VectorStep

-----------------------------------------------------------------------------
(* What a step of one backend leaves alone                                 *)

BackendStep(b) ==
    \/ Load(b)
    \/ \E id \in Ids : AddStart(b, "upsert", <<id>>)
    \/ \E q \in Batches : AddStart(b, "batch", q)
    \/ \E x \in Edits : PatchStart(b, x)
    \/ ClearStart(b)
    \/ VectorStep(b)
    \/ Lose(b)

LEMMA StepOfOne == VectorNext => \E b \in Backends : BackendStep(b)
BY DEF VectorNext, BackendStep

LEMMA OthersKeep ==
    ASSUME VectorTypeOK, NEW b \in Backends, BackendStep(b)
    PROVE  /\ storeOf' = storeOf
           /\ \A c \in Backends \ {b} :
                 /\ vpc'[c] = vpc[c] /\ left'[c] = left[c] /\ bump'[c] = bump[c]
                 /\ cached'[c] = cached[c] /\ edit'[c] = edit[c] /\ locked'[c] = locked[c]
<1>1. CASE Load(b) \/ ClearStart(b) \/ BatchDone(b) \/ FetchManifest(b) \/ Zero(b) \/ Upsert(b)
           \/ Delete(b) \/ InsertNext(b) \/ CopyIn(b) \/ PatchRow(b)
  BY <1>1 DEF Load, ClearStart, BatchDone, FetchManifest, Zero, Upsert, Delete, InsertNext,
     CopyIn, PatchRow, At, VectorTypeOK, vectorTables
<1>2. CASE \E place, q : AddStart(b, place, q)
  BY <1>2 DEF AddStart, At, VectorTypeOK, vectorTables
<1>3. CASE \E x \in Edits : PatchStart(b, x)
  BY <1>3 DEF PatchStart, At, VectorTypeOK, vectorTables
<1>4. CASE BumpManifest(b) \/ PatchCommit(b) \/ DeadlockVictim(b) \/ Lose(b)
  <2>1. Done(b) /\ storeOf' = storeOf /\ \A c \in Backends \ {b} : cached'[c] = cached[c]
    BY <1>4 DEF BumpManifest, PatchCommit, DeadlockVictim, Lose, VectorTypeOK, vectorTables
  <2> QED
    BY <2>1, DoneTypes
<1> QED
  BY <1>1, <1>2, <1>3, <1>4 DEF BackendStep, VectorStep

-----------------------------------------------------------------------------
(* Calls that add, and calls that clear                                    *)

LEMMA AddsStep ==
    ASSUME VectorIInv, NEW b \in Backends, BackendStep(b), VectorTypeOK'
    PROVE  AddsInOrder'
<1> USE DEF VectorIInv
<1> SUFFICES /\ vpc'[b] = "upsert" => bump'[b] = 1 /\ Len(left'[b]) = 1
             /\ vpc'[b] = "batch" => Len(left'[b]) <= bump'[b]
             /\ vpc'[b] \in {"upsert", "batch", "bump"} => cached'[b] \in Nat
  BY OthersKeep DEF AddsInOrder
<1>1. CASE Load(b) \/ ClearStart(b) \/ FetchManifest(b) \/ Zero(b) \/ Delete(b)
  BY <1>1 DEF Load, ClearStart, FetchManifest, Zero, Delete, At, VectorTypeOK
<1>2. CASE Upsert(b) \/ BatchDone(b) \/ CopyIn(b)
  BY <1>2 DEF Upsert, BatchDone, CopyIn, At, VectorTypeOK, AddsInOrder, vectorTables
<1>3. CASE InsertNext(b)
  <2>1. left[b] \in Seq(Ids) /\ left[b] # <<>>
    BY <1>3 DEF InsertNext, VectorTypeOK
  <2>2. left'[b] = Tail(left[b]) /\ vpc'[b] = "batch" /\ bump'[b] = bump[b]
        /\ cached'[b] = cached[b]
    BY <1>3 DEF InsertNext, VectorTypeOK
  <2>3. vpc[b] = "batch" /\ Len(left[b]) <= bump[b] /\ cached[b] \in Nat /\ bump[b] \in Nat
    BY <1>3 DEF InsertNext, AddsInOrder, VectorTypeOK
  <2> QED
    BY <2>1, <2>2, <2>3, ListHead
<1>4. ASSUME NEW place \in {"upsert", "batch"}, NEW q \in Seq(Ids), AddStart(b, place, q),
             place = "upsert" => Len(q) = 1
      PROVE  /\ vpc'[b] = "upsert" => bump'[b] = 1 /\ Len(left'[b]) = 1
             /\ vpc'[b] = "batch" => Len(left'[b]) <= bump'[b]
             /\ cached'[b] \in Nat
  <2>1. vpc'[b] = place /\ left'[b] = q /\ bump'[b] = Len(q) /\ cached'[b] = cached[b]
    BY <1>4 DEF AddStart, At, VectorTypeOK
  <2>2. cached[b] \in Nat /\ Len(q) \in Nat
    BY <1>4 DEF AddStart, Loaded, VectorTypeOK
  <2> QED
    BY <2>1, <2>2, <1>4
<1>5. CASE \E x \in Edits : PatchStart(b, x)
  BY <1>5 DEF PatchStart, At, VectorTypeOK
<1>6. CASE PatchRow(b)
  BY <1>6 DEF PatchRow, VectorTypeOK
<1>7. CASE BumpManifest(b) \/ PatchCommit(b) \/ DeadlockVictim(b) \/ Lose(b)
  <2>1. Done(b)
    BY <1>7 DEF BumpManifest, PatchCommit, DeadlockVictim, Lose
  <2> QED
    BY <2>1, DoneTypes
<1>8. \A id \in Ids : <<id>> \in Seq(Ids) /\ Len(<<id>>) = 1
  OBVIOUS
<1> QED
  BY <1>1, <1>2, <1>3, <1>4, <1>5, <1>6, <1>7, <1>8, BatchAssumption DEF BackendStep, VectorStep

\* Rows that a call inserts go to its store, and no row changes its store.
LEMMA RowsWritten ==
    ASSUME VectorTypeOK, storeOf' = storeOf, NEW b \in Backends, NEW ids \in SUBSET Ids,
           docs' = Inserted(b, ids), NEW s \in Stores
    PROVE  /\ InStore(s) \subseteq InStore(s)'
           /\ InStore(s)' \subseteq InStore(s) \union ids
           /\ s # storeOf[b] => InStore(s)' = InStore(s)
<1>1. \A id \in Ids : docs'[id] = IF id \in ids /\ ~Has(id)
                        THEN [store |-> storeOf[b], patches |-> {}] ELSE docs[id]
  BY DEF Inserted
<1>2. [store |-> storeOf[b], patches |-> {}] # NoDoc
  BY NoDocAssumption DEF VectorTypeOK, Doc
<1> QED
  BY <1>1, <1>2 DEF InStore, Has

LEMMA RowUpserted ==
    ASSUME VectorTypeOK, AddsInOrder, NEW b \in Backends, Upsert(b), NEW s \in Stores
    PROVE  /\ Head(left[b]) \in Ids
           /\ InStore(s) \subseteq InStore(s)'
           /\ InStore(s)' \subseteq InStore(s) \union {Head(left[b])}
           /\ s # storeOf[b] => InStore(s)' = InStore(s)
<1> DEFINE id == Head(left[b])
           row == [store |-> IF Has(id) THEN docs[id].store ELSE storeOf[b], patches |-> {}]
<1>1. id \in Ids
  <2>1. left[b] \in Seq(Ids) /\ left[b] # <<>>
    BY EmptyList DEF VectorTypeOK, Upsert, AddsInOrder
  <2> QED
    BY <2>1, ListHead
<1>2. row \in Doc /\ row # NoDoc
  BY <1>1, DocTypes, NoDocAssumption DEF VectorTypeOK, Doc
<1>3. docs' = [docs EXCEPT ![id] = row]
  BY DEF Upsert
<1>4. docs'[id] = row /\ \A i \in Ids \ {id} : docs'[i] = docs[i]
  BY <1>1, <1>3 DEF VectorTypeOK
<1>5. row.store = IF Has(id) THEN docs[id].store ELSE storeOf[b]
  OBVIOUS
<1> QED
  BY <1>1, <1>2, <1>4, <1>5 DEF InStore, Has

\* COMMIT of a patch writes rows that are there.
LEMMA RowsPatched ==
    ASSUME VectorIInv, NEW b \in Backends, PatchCommit(b)
    PROVE  /\ \A id \in Ids : Has(id)' = Has(id)
           /\ \A id \in Ids : Has(id) =>
                 /\ docs'[id].store = docs[id].store
                 /\ docs'[id].patches = docs[id].patches \union
                       (IF id \in locked[b] THEN edit[b] ELSE {})
           /\ \A s : InStore(s)' = InStore(s)
<1>1. ASSUME NEW id \in Ids
      PROVE  /\ Has(id)' = Has(id)
             /\ Has(id) => /\ docs'[id].store = docs[id].store
                           /\ docs'[id].patches = docs[id].patches \union
                                 (IF id \in locked[b] THEN edit[b] ELSE {})
  <2>1. CASE id \in locked[b]
    <3>1. Has(id) /\ docs[id] \in Doc /\ edit[b] \in SUBSET Edits
      BY <2>1, DocTypes DEF VectorIInv, VectorTypeOK, PatchesInOrder, InStore
    <3>2. docs'[id] = [docs[id] EXCEPT !.patches = @ \union edit[b]]
      BY <2>1 DEF PatchCommit
    <3>3. docs'[id] \in Doc /\ docs'[id].store = docs[id].store
          /\ docs'[id].patches = docs[id].patches \union edit[b]
      BY <3>1, <3>2 DEF Doc
    <3> QED
      BY <2>1, <3>1, <3>3, NoDocAssumption DEF Has
  <2>2. CASE id \notin locked[b]
    BY <2>2 DEF PatchCommit, Has
  <2> QED
    BY <2>1, <2>2
<1> QED
  BY <1>1 DEF InStore

LEMMA RowsDeleted ==
    ASSUME VectorTypeOK, NEW b \in Backends, Delete(b)
    PROVE  /\ \A id \in InStore(storeOf[b]) : ~Has(id)'
           /\ \A id \in Ids \ InStore(storeOf[b]) : docs'[id] = docs[id]
           /\ \A s : InStore(s)' = InStore(s) \ InStore(storeOf[b])
<1>1. \A id \in Ids : docs'[id] = IF id \in InStore(storeOf[b]) THEN NoDoc ELSE docs[id]
  BY DEF Delete
<1> QED
  BY <1>1 DEF InStore, Has

\* The steps that touch the rows, and the rest.
LEMMA RowsKept ==
    ASSUME NEW b \in Backends, BackendStep(b),
           ~(Upsert(b) \/ InsertNext(b) \/ CopyIn(b) \/ PatchCommit(b) \/ Delete(b))
    PROVE  docs' = docs /\ \A s : InStore(s)' = InStore(s)
BY DEF BackendStep, VectorStep, Load, AddStart, PatchStart, ClearStart, Lose, FetchManifest,
   BatchDone, BumpManifest, PatchRow, DeadlockVictim, Zero, vectorTables, InStore, Has

-----------------------------------------------------------------------------
(* Rows, and the count of them                                             *)

LEMMA TokensOfOne ==
    ASSUME NEW b, NEW n \in Nat
    PROVE  IsFiniteSet({b} \X (1 .. n)) /\ Cardinality({b} \X (1 .. n)) = n
<1>1. IsFiniteSet({b}) /\ Cardinality({b}) = 1
  BY FS_Singleton
<1>2. IsFiniteSet(1 .. n) /\ Cardinality(1 .. n) = n
  BY FS_Interval
<1>3. /\ IsFiniteSet({b} \X (1 .. n))
      /\ Cardinality({b} \X (1 .. n)) = Cardinality({b}) * Cardinality(1 .. n)
  BY <1>1, <1>2, FS_Product
<1>4. 1 * n = n
  OBVIOUS
<1> QED
  BY <1>1, <1>2, <1>3, <1>4

LEMMA TokensFinite ==
    ASSUME VectorTypeOK, NEW s
    PROVE  /\ IsFiniteSet(Given(s)) /\ Landed(s) \subseteq Given(s)
           /\ IsFiniteSet(Landed(s))
           /\ Cardinality(Landed(s)) \in Nat /\ Cardinality(Given(s)) \in Nat
           /\ Cardinality(Landed(s)) <= Cardinality(Given(s))
<1> DEFINE f == [b \in Counting(s) |-> {b} \X (1 .. bump[b])]
           T == {{b} \X (1 .. bump[b]) : b \in Counting(s)}
<1>1. IsFiniteSet(Counting(s)) /\ Counting(s) \subseteq Backends
  BY BackendsAssumption, FS_Subset DEF Counting
<1>2. f \in Surjection(Counting(s), T)
  BY DEF Surjection
<1>3. IsFiniteSet(T)
  BY <1>1, <1>2, FS_Surjection
<1>4. ASSUME NEW b \in Counting(s) PROVE IsFiniteSet({b} \X (1 .. bump[b]))
  <2>1. bump[b] \in Nat
    BY <1>1 DEF VectorTypeOK
  <2> QED
    BY <2>1, TokensOfOne
<1>5. IsFiniteSet(Given(s))
  BY <1>3, <1>4, FS_UNION DEF Given
<1>6. Landed(s) \subseteq Given(s)
  <2>1. ASSUME NEW b \in Counting(s) PROVE LandedOf(b) \subseteq {b} \X (1 .. bump[b])
    <3>1. Rest(b) \in Nat /\ bump[b] \in Nat
      BY <1>1 DEF Rest, VectorTypeOK
    <3>2. (Rest(b) + 1) .. bump[b] \subseteq 1 .. bump[b]
      BY <3>1
    <3> QED
      BY <3>2 DEF LandedOf
  <2> QED
    BY <2>1 DEF Landed, Given
<1> QED
  BY <1>5, <1>6, FS_Subset, FS_CardinalityType

\* More rows, and no fewer tokens for them.
LEMMA CoverGrows ==
    ASSUME NEW R, IsFiniteSet(R), NEW new, IsFiniteSet(new), NEW R2 \in SUBSET (R \union new),
           NEW L, IsFiniteSet(L), NEW T, IsFiniteSet(T), L \intersect T = {},
           Cardinality(new) <= Cardinality(T),
           NEW d \in Nat, Cardinality(R) <= d + Cardinality(L)
    PROVE  IsFiniteSet(R2) /\ Cardinality(R2) <= d + Cardinality(L \union T)
<1>1. /\ Cardinality(R) \in Nat /\ Cardinality(new) \in Nat
      /\ Cardinality(L) \in Nat /\ Cardinality(T) \in Nat
      /\ IsFiniteSet(R \intersect new) /\ Cardinality(R \intersect new) \in Nat
  BY FS_CardinalityType, FS_Intersection
<1>2. IsFiniteSet(R \union new)
      /\ Cardinality(R \union new) = Cardinality(R) + Cardinality(new) - Cardinality(R \intersect new)
  BY FS_Union
<1>3. IsFiniteSet(R2) /\ Cardinality(R2) <= Cardinality(R \union new) /\ Cardinality(R2) \in Nat
  BY <1>2, FS_Subset, FS_CardinalityType
<1>4. Cardinality(L \union T) = Cardinality(L) + Cardinality(T) - Cardinality(L \intersect T)
      /\ Cardinality(L \intersect T) = 0
  BY FS_Union, FS_EmptySet
<1> QED
  BY <1>1, <1>2, <1>3, <1>4

\* The tokens of backend b among those of a store, and how a step moves them.
Here(b, s) == IF b \in Counting(s) THEN LandedOf(b) ELSE {}

LEMMA TokensMove ==
    ASSUME VectorTypeOK, NEW b \in Backends, BackendStep(b), NEW s \in Stores
    PROVE  \E O : /\ Landed(s) = O \union Here(b, s)
                  /\ Landed(s)' = O \union Here(b, s)'
                  /\ O \intersect ({b} \X Nat) = {}
<1> DEFINE C == Counting(s) \ {b}
           O == UNION {LandedOf(c) : c \in C}
<1>1. Counting(s)' \ {b} = C
  BY OthersKeep DEF Counting
<1>2. \A c \in C : c \in Backends \ {b}
  BY DEF Counting
<1>3. \A c \in C : LandedOf(c)' = LandedOf(c)
  BY <1>2, OthersKeep DEF LandedOf, Rest
<1>4. Landed(s) = O \union Here(b, s)
  BY DEF Landed, Here
<1>5. Landed(s)' = O \union Here(b, s)'
  <2>1. Landed(s)' = UNION {LandedOf(c)' : c \in Counting(s)'}
    BY DEF Landed
  <2>2. Here(b, s)' = IF b \in Counting(s)' THEN LandedOf(b)' ELSE {}
    BY DEF Here
  <2> QED
    BY <1>1, <1>3, <2>1, <2>2
<1>6. O \intersect ({b} \X Nat) = {}
  BY <1>2 DEF LandedOf
<1> QED
  BY <1>4, <1>5, <1>6

\* A step that leaves the count of a store alone, and starts and ends no clear
\* of it, leaves it worth the same.
LEMMA SureKept ==
    ASSUME VectorTypeOK, NEW b \in Backends, BackendStep(b), NEW s \in Stores,
           doc_count'[s] = doc_count[s],
           s = storeOf[b] => vpc[b] # "zero" /\ vpc'[b] # "zero"
    PROVE  Sure(s)' = Sure(s)
<1>1. Clearing(s)' = Clearing(s)
  <2>1. \A c \in Backends : (storeOf'[c] = s /\ vpc'[c] = "zero") <=> (storeOf[c] = s /\ vpc[c] = "zero")
    BY OthersKeep
  <2> QED
    BY <2>1 DEF Clearing
<1> QED
  BY <1>1 DEF Sure

\* A step that inserts no more rows than it lands tokens for.
LEMMA CountedAfter ==
    ASSUME VectorIInv, NEW b \in Backends, BackendStep(b), NEW s \in Stores,
           doc_count'[s] = doc_count[s], Sure(s)' = Sure(s), lost' = lost, crossed' = crossed,
           NEW new, IsFiniteSet(new), InStore(s)' \subseteq InStore(s) \union new,
           NEW T \in SUBSET ({b} \X Nat), IsFiniteSet(T),
           Here(b, s)' = Here(b, s) \union T, Here(b, s) \intersect T = {},
           Cardinality(new) <= Cardinality(T)
    PROVE  Covered(s)'
<1> DEFINE R == InStore(s)  L == Landed(s)  d == Sure(s)
<1>1. doc_count[s] \in Nat /\ d \in Nat /\ IsFiniteSet(R)
      /\ (lost = 0 /\ s \notin crossed => Cardinality(R) <= d + Cardinality(L))
  BY DEF VectorIInv, RowsCounted, Covered, Sure
<1>2. L \intersect T = {} /\ Landed(s)' = L \union T
  BY TokensMove DEF VectorIInv
<1>3. IsFiniteSet(L)
  BY TokensFinite DEF VectorIInv
<1>4. IsFiniteSet(InStore(s)') /\ doc_count'[s] \in Nat
  BY <1>1, FS_Union, FS_Subset
<1>5. CASE lost = 0 /\ s \notin crossed
  <2>1. Cardinality(InStore(s)') <= d + Cardinality(L \union T)
    BY <1>1, <1>2, <1>3, <1>5, CoverGrows
  <2> QED
    BY <1>2, <1>4, <2>1 DEF Covered
<1>6. CASE ~(lost = 0 /\ s \notin crossed)
  BY <1>4, <1>6 DEF Covered
<1> QED
  BY <1>5, <1>6

LEMMA NoneNew == IsFiniteSet({}) /\ Cardinality({}) = 0
BY FS_EmptySet

LEMMA UpsertCounted ==
    ASSUME VectorIInv, NEW b \in Backends, BackendStep(b), VectorTypeOK', Upsert(b),
           NEW s \in Stores
    PROVE  Covered(s)'
<1> DEFINE id == Head(left[b])
           T == {b} \X (1 .. 1)
<1>1. /\ vpc[b] = "upsert" /\ vpc'[b] = "bump" /\ bump[b] = 1 /\ bump'[b] = 1
      /\ doc_count' = doc_count /\ lost' = lost /\ crossed' = crossed /\ storeOf' = storeOf
      /\ Sure(s)' = Sure(s)
  BY SureKept DEF Upsert, At, VectorIInv, VectorTypeOK, AddsInOrder
<1>2. Rest(b) = 1 /\ Rest(b)' = 0
  BY <1>1 DEF Rest
<1>3. LandedOf(b) = {} /\ LandedOf(b)' = T
  BY <1>1, <1>2 DEF LandedOf
<1>4. IsFiniteSet(T) /\ Cardinality(T) = 1 /\ T \subseteq {b} \X Nat
  <2>1. 1 \in Nat /\ T \subseteq {b} \X Nat
    OBVIOUS
  <2> QED
    BY <2>1, TokensOfOne
<1>5. CASE s = storeOf[b]
  <2>1. Here(b, s) = {} /\ Here(b, s)' = T
    BY <1>1, <1>3, <1>5 DEF Here, Counting
  <2>2. InStore(s)' \subseteq InStore(s) \union {id} /\ IsFiniteSet({id}) /\ Cardinality({id}) = 1
    BY RowUpserted, FS_Singleton DEF VectorIInv
  <2> QED
    BY <1>1, <1>4, <2>1, <2>2, CountedAfter
<1>6. CASE s # storeOf[b]
  <2>1. Here(b, s) = {} /\ Here(b, s)' = {}
    BY <1>1, <1>6 DEF Here, Counting
  <2>2. InStore(s)' \subseteq InStore(s) \union {}
    BY <1>6, RowUpserted DEF VectorIInv
  <2> QED
    BY <1>1, <2>1, <2>2, NoneNew, CountedAfter
<1> QED
  BY <1>5, <1>6

LEMMA InsertCounted ==
    ASSUME VectorIInv, NEW b \in Backends, BackendStep(b), VectorTypeOK', InsertNext(b),
           NEW s \in Stores
    PROVE  Covered(s)'
<1> DEFINE q == left[b]
           T == {<<b, Len(q)>>}
<1>1. /\ vpc[b] = "batch" /\ vpc'[b] = "batch" /\ bump'[b] = bump[b] /\ left'[b] = Tail(q)
      /\ doc_count' = doc_count /\ lost' = lost /\ crossed' = crossed /\ storeOf' = storeOf
      /\ Sure(s)' = Sure(s)
      /\ q \in Seq(Ids) /\ q # <<>> /\ bump[b] \in Nat /\ Len(q) <= bump[b]
      /\ docs' = Inserted(b, {Head(q)})
  BY SureKept DEF InsertNext, VectorIInv, VectorTypeOK, AddsInOrder
<1>2. Head(q) \in Ids /\ Len(Tail(q)) = Len(q) - 1 /\ Len(q) \in Nat \ {0}
  BY <1>1, ListHead
<1>3. Rest(b) = Len(q) /\ Rest(b)' = Len(q) - 1
  BY <1>1, <1>2 DEF Rest
<1>4. LandedOf(b) = {b} \X ((Len(q) + 1) .. bump[b])
      /\ LandedOf(b)' = {b} \X (((Len(q) - 1) + 1) .. bump[b])
  BY <1>1, <1>3 DEF LandedOf
<1>5. ((Len(q) - 1) + 1) .. bump[b] = ((Len(q) + 1) .. bump[b]) \union {Len(q)}
  BY <1>1, <1>2
<1>6. LandedOf(b)' = LandedOf(b) \union T /\ LandedOf(b) \intersect T = {}
  BY <1>2, <1>4, <1>5
<1>7. IsFiniteSet(T) /\ Cardinality(T) = 1 /\ T \subseteq {b} \X Nat
  <2>1. T \subseteq {b} \X Nat
    BY <1>2
  <2> QED
    BY <2>1, FS_Singleton
<1>8. CASE s = storeOf[b]
  <2>1. Here(b, s) = LandedOf(b) /\ Here(b, s)' = LandedOf(b)'
    BY <1>1, <1>8 DEF Here, Counting
  <2>2. {Head(q)} \subseteq Ids
    BY <1>2
  <2>3. InStore(s)' \subseteq InStore(s) \union {Head(q)}
    BY <1>1, <2>2, RowsWritten DEF VectorIInv
  <2>4. IsFiniteSet({Head(q)}) /\ Cardinality({Head(q)}) = 1
    BY FS_Singleton
  <2> QED
    BY <1>1, <1>6, <1>7, <2>1, <2>3, <2>4, CountedAfter
<1>9. CASE s # storeOf[b]
  <2>1. Here(b, s) = {} /\ Here(b, s)' = {}
    BY <1>1, <1>9 DEF Here, Counting
  <2>2. InStore(s)' \subseteq InStore(s) \union {}
    BY <1>1, <1>2, <1>9, RowsWritten DEF VectorIInv
  <2> QED
    BY <1>1, <2>1, <2>2, NoneNew, CountedAfter
<1> QED
  BY <1>8, <1>9

LEMMA CopyCounted ==
    ASSUME VectorIInv, NEW b \in Backends, BackendStep(b), VectorTypeOK', CopyIn(b),
           NEW s \in Stores
    PROVE  Covered(s)'
<1> DEFINE q == left[b]
           T == {b} \X (1 .. bump[b])
<1>1. /\ vpc[b] = "batch" /\ vpc'[b] = "bump" /\ bump'[b] = bump[b]
      /\ doc_count' = doc_count /\ lost' = lost /\ crossed' = crossed /\ storeOf' = storeOf
      /\ Sure(s)' = Sure(s)
      /\ q \in Seq(Ids) /\ bump[b] \in Nat /\ Len(q) = bump[b]
      /\ docs' = Inserted(b, ToSet(q))
  BY SureKept DEF CopyIn, At, VectorIInv, VectorTypeOK
<1>2. Rest(b) = bump[b] /\ Rest(b)' = 0
  BY <1>1 DEF Rest
<1>3. LandedOf(b) = {} /\ LandedOf(b)' = T
  BY <1>1, <1>2 DEF LandedOf
<1>4. IsFiniteSet(T) /\ Cardinality(T) = bump[b] /\ T \subseteq {b} \X Nat
  <2>1. T \subseteq {b} \X Nat
    OBVIOUS
  <2> QED
    BY <1>1, <2>1, TokensOfOne
<1>5. ToSet(q) \subseteq Ids /\ IsFiniteSet(ToSet(q)) /\ Cardinality(ToSet(q)) <= Cardinality(T)
  BY <1>1, <1>4, ListSet
<1>6. CASE s = storeOf[b]
  <2>1. Here(b, s) = {} /\ Here(b, s)' = T
    BY <1>1, <1>3, <1>6 DEF Here, Counting
  <2>2. InStore(s)' \subseteq InStore(s) \union ToSet(q)
    BY <1>1, <1>5, RowsWritten DEF VectorIInv
  <2> QED
    BY <1>1, <1>4, <1>5, <2>1, <2>2, CountedAfter
<1>7. CASE s # storeOf[b]
  <2>1. Here(b, s) = {} /\ Here(b, s)' = {}
    BY <1>1, <1>7 DEF Here, Counting
  <2>2. InStore(s)' \subseteq InStore(s) \union {}
    BY <1>1, <1>5, <1>7, RowsWritten DEF VectorIInv
  <2> QED
    BY <1>1, <2>1, <2>2, NoneNew, CountedAfter
<1> QED
  BY <1>6, <1>7

\* The bump turns the tokens of its call into doc_count.
LEMMA BumpCounted ==
    ASSUME VectorIInv, NEW b \in Backends, BackendStep(b), VectorTypeOK', BumpManifest(b),
           NEW s \in Stores
    PROVE  Covered(s)'
<1> DEFINE T == {b} \X (1 .. bump[b])
<1>1. /\ vpc[b] = "bump" /\ Done(b) /\ docs' = docs /\ lost' = lost /\ storeOf' = storeOf
      /\ bump[b] \in Nat /\ storeOf[b] \in Stores
      /\ doc_count' = [doc_count EXCEPT ![storeOf[b]] = @ + bump[b]]
  BY DEF BumpManifest, VectorIInv, VectorTypeOK
<1>2. /\ doc_count[s] \in Nat /\ Sure(s) \in Nat /\ IsFiniteSet(InStore(s))
      /\ lost = 0 /\ s \notin crossed => Cardinality(InStore(s)) <= Sure(s) + Cardinality(Landed(s))
  BY DEF VectorIInv, RowsCounted, Covered, Sure
<1>3. vpc'[b] = "idle" /\ InStore(s)' = InStore(s)
  BY <1>1, DoneTypes DEF VectorIInv, InStore, Has
<1>4. Here(b, s)' = {}
  BY <1>3 DEF Here, Counting
<1>5. PICK O : /\ Landed(s) = O \union Here(b, s) /\ Landed(s)' = O
               /\ O \intersect ({b} \X Nat) = {}
  BY <1>4, TokensMove DEF VectorIInv
<1>6. CASE s = storeOf[b]
  <2>1. Here(b, s) = T
    <3>1. Rest(b) = 0
      BY <1>1 DEF Rest
    <3> QED
      BY <1>1, <1>6, <3>1 DEF Here, Counting, LandedOf
  <2>2. Landed(s) = O \union T /\ O \intersect T = {}
    BY <1>5, <2>1
  <2>3. IsFiniteSet(T) /\ Cardinality(T) = bump[b]
    BY <1>1, TokensOfOne
  <2>4. IsFiniteSet(O) /\ Cardinality(O) \in Nat
    BY <2>2, TokensFinite, FS_Subset, FS_CardinalityType DEF VectorIInv
  <2>5. Cardinality(Landed(s)) = Cardinality(O) + bump[b]
    <3>1. Cardinality(O \union T) = Cardinality(O) + Cardinality(T) - Cardinality(O \intersect T)
      BY <2>3, <2>4, FS_Union
    <3>2. Cardinality(O \intersect T) = 0
      BY <2>2, FS_EmptySet
    <3> QED
      BY <1>1, <2>2, <2>3, <2>4, <3>1, <3>2
  <2>6. doc_count'[s] = doc_count[s] + bump[b]
    BY <1>1, <1>6 DEF VectorIInv, VectorTypeOK
  <2>7. Cardinality(InStore(s)) \in Nat
    BY <1>2, FS_CardinalityType
  <2>8. CASE Clearing(s)
    <3>1. s \in crossed'
      BY <1>1, <1>6, <2>8 DEF BumpManifest, NoteCrossing
    <3> QED
      BY <1>1, <1>2, <1>3, <2>6, <3>1 DEF Covered
  <2>9. CASE ~Clearing(s)
    <3>1. crossed' = crossed /\ Sure(s) = doc_count[s]
      BY <1>6, <2>9 DEF BumpManifest, NoteCrossing, Sure
    <3>2. ~Clearing(s)'
      BY <1>1, <1>3, <2>9, OthersKeep DEF Clearing, VectorIInv
    <3>3. Sure(s)' = doc_count[s] + bump[b]
      BY <2>6, <3>2 DEF Sure
    <3>4. lost' = 0 /\ s \notin crossed' =>
             Cardinality(InStore(s)) <= (doc_count[s] + bump[b]) + Cardinality(O)
      BY <1>1, <1>2, <2>4, <2>5, <2>7, <3>1
    <3>5. doc_count'[s] \in Nat
      BY <1>1, <1>2, <2>6
    <3> QED
      BY <1>2, <1>3, <1>5, <3>3, <3>4, <3>5 DEF Covered
  <2> QED
    BY <2>8, <2>9
<1>7. CASE s # storeOf[b]
  <2>1. Here(b, s) = {} /\ doc_count'[s] = doc_count[s]
    BY <1>1, <1>7 DEF Here, Counting, VectorIInv, VectorTypeOK
  <2>2. Sure(s)' = Sure(s)
    BY <1>7, <2>1, SureKept DEF VectorIInv
  <2>3. s \notin crossed' => s \notin crossed
    BY DEF BumpManifest, NoteCrossing
  <2> QED
    BY <1>1, <1>2, <1>3, <1>5, <2>1, <2>2, <2>3 DEF Covered
<1> QED
  BY <1>6, <1>7

\* clear zeroes a count that was worth nothing already.
LEMMA ZeroCounted ==
    ASSUME VectorIInv, NEW b \in Backends, BackendStep(b), VectorTypeOK', Zero(b),
           NEW s \in Stores
    PROVE  Covered(s)'
<1>1. /\ vpc[b] = "zero" /\ vpc'[b] = "idle" /\ docs' = docs /\ lost' = lost
      /\ crossed' = crossed /\ storeOf' = storeOf /\ storeOf[b] \in Stores
      /\ doc_count' = [doc_count EXCEPT ![storeOf[b]] = 0]
  BY DEF Zero, At, VectorIInv, VectorTypeOK
<1>2. Here(b, s) = {} /\ Here(b, s)' = {} /\ InStore(s)' = InStore(s)
  BY <1>1 DEF Here, Counting, InStore, Has
<1>3. Landed(s)' = Landed(s)
  BY <1>2, TokensMove DEF VectorIInv
<1>4. Sure(s)' = Sure(s)
  <2>1. CASE s = storeOf[b]
    <3>1. Sure(s) = 0 /\ doc_count'[s] = 0
      BY <1>1, <2>1 DEF Sure, Clearing, VectorIInv, VectorTypeOK
    <3> QED
      BY <3>1 DEF Sure
  <2>2. CASE s # storeOf[b]
    <3>1. doc_count'[s] = doc_count[s]
      BY <1>1, <2>2 DEF VectorIInv, VectorTypeOK
    <3> QED
      BY <2>2, <3>1, SureKept DEF VectorIInv
  <2> QED
    BY <2>1, <2>2
<1>5. doc_count'[s] \in Nat
  BY <1>1 DEF VectorIInv, VectorTypeOK, RowsCounted, Covered
<1> QED
  BY <1>1, <1>2, <1>3, <1>4, <1>5 DEF VectorIInv, RowsCounted, Covered

\* The rest of the steps insert nothing and land nothing.
LEMMA QuietCounted ==
    ASSUME VectorIInv, NEW b \in Backends, BackendStep(b), VectorTypeOK', NEW s \in Stores,
           doc_count' = doc_count, lost' = lost, crossed' = crossed,
           s = storeOf[b] => vpc[b] # "zero" /\ vpc'[b] # "zero",
           InStore(s)' \subseteq InStore(s), Here(b, s)' = Here(b, s)
    PROVE  Covered(s)'
<1>1. InStore(s)' \subseteq InStore(s) \union {} /\ Sure(s)' = Sure(s)
  BY SureKept DEF VectorIInv
<1>2. Here(b, s)' = Here(b, s) \union {} /\ Here(b, s) \intersect {} = {}
      /\ {} \subseteq {b} \X Nat /\ Cardinality({}) <= Cardinality({})
  BY NoneNew
<1> QED
  BY <1>1, <1>2, NoneNew, CountedAfter

LEMMA RowsCountedStep ==
    ASSUME VectorIInv, NEW b \in Backends, BackendStep(b), VectorTypeOK'
    PROVE  RowsCounted'
<1> SUFFICES ASSUME NEW s \in Stores
             PROVE  Covered(s)'
  BY DEF RowsCounted
<1>1. CASE Load(b) \/ ClearStart(b) \/ FetchManifest(b) \/ PatchRow(b)
           \/ \E x \in Edits : PatchStart(b, x)
  <2>1. /\ vpc[b] \notin {"upsert", "batch", "bump"}
        /\ vpc'[b] \notin {"upsert", "batch", "bump", "zero"} /\ vpc[b] # "zero"
        /\ crossed' = crossed
        /\ doc_count' = doc_count /\ docs' = docs /\ lost' = lost
    BY <1>1 DEF Load, ClearStart, FetchManifest, PatchRow, PatchStart, Loaded, At,
       vectorTables, VectorIInv, VectorTypeOK
  <2>2. Here(b, s) = {} /\ Here(b, s)' = {}
    BY <2>1 DEF Here, Counting
  <2>3. InStore(s)' = InStore(s)
    BY <2>1 DEF InStore, Has
  <2> QED
    BY <2>1, <2>2, <2>3, QuietCounted
<1>2. CASE PatchCommit(b) \/ DeadlockVictim(b)
  <2>1. /\ vpc[b] = "patch" /\ Done(b) /\ doc_count' = doc_count /\ lost' = lost
        /\ crossed' = crossed
    BY <1>2 DEF PatchCommit, DeadlockVictim, Awaits, vectorTables
  <2>2. vpc'[b] = "idle"
    BY <2>1, DoneTypes DEF VectorIInv
  <2>3. Here(b, s) = {} /\ Here(b, s)' = {}
    BY <2>1, <2>2 DEF Here, Counting
  <2>4. InStore(s)' = InStore(s)
    BY <1>2, RowsPatched DEF DeadlockVictim, vectorTables, InStore, Has
  <2> QED
    BY <2>1, <2>2, <2>3, <2>4, QuietCounted
<1>3. CASE Delete(b)
  <2>1. /\ vpc[b] = "delete" /\ vpc'[b] = "zero" /\ doc_count' = doc_count /\ lost' = lost
        /\ crossed' = crossed
    BY <1>3 DEF Delete, At, VectorIInv, VectorTypeOK
  <2>2. Here(b, s) = {} /\ Here(b, s)' = {}
    BY <2>1 DEF Here, Counting
  <2>3. InStore(s)' = InStore(s) \ InStore(storeOf[b])
    BY <1>3, RowsDeleted DEF VectorIInv
  <2>4. CASE s = storeOf[b]
    <3>1. InStore(s)' = {} /\ IsFiniteSet(InStore(s)') /\ Cardinality(InStore(s)') = 0
      BY <2>3, <2>4, NoneNew
    <3>2. doc_count[s] \in Nat /\ doc_count'[s] = doc_count[s] /\ Sure(s)' \in Nat
      BY <2>1 DEF VectorIInv, RowsCounted, Covered, Sure
    <3>3. Cardinality(Landed(s)') \in Nat
      BY TokensFinite, TokensMove, <2>2 DEF VectorIInv
    <3> QED
      BY <3>1, <3>2, <3>3 DEF Covered
  <2>5. CASE s # storeOf[b]
    BY <2>1, <2>2, <2>3, <2>5, QuietCounted
  <2> QED
    BY <2>4, <2>5
<1>4. CASE BatchDone(b)
  <2>1. /\ vpc[b] = "batch" /\ vpc'[b] = "bump" /\ left[b] = <<>> /\ bump'[b] = bump[b]
        /\ crossed' = crossed
        /\ doc_count' = doc_count /\ docs' = docs /\ lost' = lost /\ storeOf' = storeOf
    BY <1>4 DEF BatchDone, At, vectorTables, VectorIInv, VectorTypeOK
  <2>2. Rest(b) = 0 /\ Rest(b)' = 0
    BY <2>1, EmptyList DEF Rest
  <2>3. Here(b, s)' = Here(b, s)
    BY <2>1, <2>2 DEF Here, Counting, LandedOf
  <2>4. InStore(s)' = InStore(s)
    BY <2>1 DEF InStore, Has
  <2> QED
    BY <2>1, <2>3, <2>4, QuietCounted
<1>5. ASSUME NEW place \in {"upsert", "batch"}, NEW q \in Seq(Ids), AddStart(b, place, q),
             place = "upsert" => Len(q) = 1
      PROVE  Covered(s)'
  <2>1. /\ vpc[b] = "idle" /\ vpc'[b] = place /\ left'[b] = q /\ bump'[b] = Len(q)
        /\ crossed' = crossed
        /\ doc_count' = doc_count /\ docs' = docs /\ lost' = lost
    BY <1>5 DEF AddStart, Loaded, At, vectorTables, VectorIInv, VectorTypeOK
  <2>2. Rest(b)' = Len(q) /\ Len(q) \in Nat
    BY <2>1, <1>5 DEF Rest
  <2>3. (Len(q) + 1) .. Len(q) = {}
    BY <2>2
  <2>4. LandedOf(b)' = {}
    BY <2>1, <2>2, <2>3 DEF LandedOf
  <2>5. Here(b, s) = {} /\ Here(b, s)' = {}
    BY <2>1, <2>4 DEF Here, Counting
  <2>6. InStore(s)' = InStore(s)
    BY <2>1 DEF InStore, Has
  <2> QED
    BY <2>1, <2>5, <2>6, QuietCounted
<1>6. CASE Lose(b)
  <2>1. lost' # 0 /\ doc_count' = doc_count /\ docs' = docs
    BY <1>6 DEF Lose, vectorTables, VectorIInv, VectorTypeOK
  <2>2. InStore(s)' = InStore(s)
    BY <2>1 DEF InStore, Has
  <2> QED
    BY <2>1, <2>2 DEF VectorIInv, RowsCounted, Covered
<1>7. \A id \in Ids : <<id>> \in Seq(Ids) /\ Len(<<id>>) = 1
  OBVIOUS
<1> QED
  BY <1>1, <1>2, <1>3, <1>4, <1>5, <1>6, <1>7, UpsertCounted, InsertCounted, CopyCounted,
     BumpCounted, ZeroCounted, BatchAssumption DEF BackendStep, VectorStep

-----------------------------------------------------------------------------
(* Patches                                                                 *)

LEMMA RowsStay ==
    ASSUME VectorIInv, NEW b \in Backends, BackendStep(b), ~Delete(b), NEW s \in Stores
    PROVE  InStore(s) \subseteq InStore(s)'
<1> USE DEF VectorIInv
<1>1. CASE Upsert(b)
  BY <1>1, RowUpserted
<1>2. CASE InsertNext(b)
  <2>1. {Head(left[b])} \subseteq Ids /\ docs' = Inserted(b, {Head(left[b])})
    BY <1>2, ListHead DEF InsertNext, VectorTypeOK
  <2> QED
    BY <2>1, RowsWritten, OthersKeep
<1>3. CASE CopyIn(b)
  <2>1. ToSet(left[b]) \subseteq Ids /\ docs' = Inserted(b, ToSet(left[b]))
    BY <1>3, ListSet DEF CopyIn, VectorTypeOK
  <2> QED
    BY <2>1, RowsWritten, OthersKeep
<1>4. CASE PatchCommit(b)
  BY <1>4, RowsPatched
<1> QED
  BY <1>1, <1>2, <1>3, <1>4, RowsKept

\* What an edit owes is fixed when it starts, and only shrinks.
LEMMA OwedStays ==
    ASSUME VectorTypeOK, NEW b \in Backends, BackendStep(b), NEW x \in Edits, ~PatchStart(b, x)
    PROVE  /\ owed'[x] \subseteq owed[x]
           /\ x \in begun' <=> x \in begun
           /\ Delete(b) => owed'[x] = owed[x] \ InStore(storeOf[b])
           /\ Upsert(b) => owed'[x] = owed[x] \ {Head(left[b])}
<1>1. CASE Upsert(b) \/ Delete(b)
  BY <1>1 DEF Upsert, Delete, Forgive, At, VectorTypeOK
<1>2. CASE DeadlockVictim(b) \/ Lose(b)
  <2>1. owed'[x] \subseteq owed[x] /\ begun' = begun
    BY <1>2 DEF DeadlockVictim, Lose
  <2>2. ~Upsert(b) /\ ~Delete(b)
    BY <1>2 DEF DeadlockVictim, Lose, Awaits, Upsert, Delete, VectorTypeOK
  <2> QED
    BY <2>1, <2>2
<1>3. ASSUME NEW y \in Edits, PatchStart(b, y)
      PROVE  /\ owed'[x] = owed[x] /\ (x \in begun' <=> x \in begun)
             /\ ~Upsert(b) /\ ~Delete(b)
  <2>1. y # x
    BY <1>3
  <2> QED
    BY <1>3, <2>1 DEF PatchStart, Loaded, VectorTypeOK, Upsert, Delete
<1>4. CASE owed' = owed /\ begun' = begun /\ ~Upsert(b) /\ ~Delete(b)
  BY <1>4
<1> QED
  BY <1>1, <1>2, <1>3, <1>4 DEF BackendStep, VectorStep, Load, AddStart, ClearStart, FetchManifest,
     BatchDone, BumpManifest, PatchRow, PatchCommit, Zero, InsertNext, CopyIn

LEMMA EditsBegun ==
    ASSUME VectorIInv, NEW c \in Backends
    PROVE  edit[c] \subseteq begun /\ begun \subseteq Edits
BY DEF VectorIInv, PatchesInOrder, VectorTypeOK

\* The step of a backend for its own transaction, if it is in one.
LEMMA OwnPatch ==
    ASSUME VectorIInv, NEW b \in Backends, BackendStep(b), VectorTypeOK'
    PROVE  \/ vpc'[b] # "patch" /\ edit'[b] = {} /\ locked'[b] = {}
           \/ PatchRow(b) /\ vpc[b] = "patch" /\ vpc'[b] = "patch" /\ edit'[b] = edit[b]
           \/ \E x \in Edits : /\ PatchStart(b, x) /\ vpc'[b] = "patch"
                               /\ edit'[b] = {x} /\ locked'[b] = {}
<1> USE DEF VectorIInv
<1>1. CASE Load(b) \/ ClearStart(b) \/ FetchManifest(b) \/ Zero(b) \/ Delete(b)
           \/ Upsert(b) \/ BatchDone(b) \/ CopyIn(b) \/ InsertNext(b)
  <2>1. /\ vpc[b] # "patch" /\ vpc'[b] # "patch"
        /\ edit'[b] = edit[b] /\ locked'[b] = locked[b]
    BY <1>1 DEF Load, ClearStart, FetchManifest, Zero, Delete, Upsert, BatchDone, CopyIn,
       InsertNext, At, VectorTypeOK
  <2> QED
    BY <2>1 DEF PatchesInOrder
<1>2. ASSUME NEW place \in {"upsert", "batch"}, NEW q, AddStart(b, place, q)
      PROVE  vpc'[b] # "patch" /\ edit'[b] = {} /\ locked'[b] = {}
  <2>1. vpc[b] = "idle" /\ vpc'[b] = place /\ edit' = edit /\ locked' = locked
    BY <1>2 DEF AddStart, Loaded, At, VectorTypeOK
  <2> QED
    BY <2>1 DEF PatchesInOrder
<1>3. ASSUME NEW x \in Edits, PatchStart(b, x)
      PROVE  vpc'[b] = "patch" /\ edit'[b] = {x} /\ locked'[b] = {}
  <2>1. vpc[b] = "idle" /\ locked' = locked /\ vpc'[b] = "patch" /\ edit'[b] = {x}
    BY <1>3 DEF PatchStart, Loaded, At, VectorTypeOK
  <2> QED
    BY <2>1 DEF PatchesInOrder
<1>4. CASE PatchRow(b)
  BY <1>4 DEF PatchRow
<1>5. CASE BumpManifest(b) \/ PatchCommit(b) \/ DeadlockVictim(b) \/ Lose(b)
  <2>1. Done(b)
    BY <1>5 DEF BumpManifest, PatchCommit, DeadlockVictim, Lose
  <2> QED
    BY <2>1, DoneTypes
<1> QED
  BY <1>1, <1>2, <1>3, <1>4, <1>5 DEF BackendStep, VectorStep

LEMMA PatchesStep ==
    ASSUME VectorIInv, NEW b \in Backends, BackendStep(b), VectorTypeOK'
    PROVE  PatchesInOrder'
<1> USE DEF VectorIInv
<1> SUFFICES ASSUME NEW c \in Backends, NEW s \in Stores, s = storeOf[c]
             PROVE  /\ locked'[c] \subseteq InStore(s)'
                    /\ vpc'[c] # "patch" => edit'[c] = {} /\ locked'[c] = {}
                    /\ vpc'[c] = "patch" => \E x \in begun' :
                          /\ edit'[c] = {x}
                          /\ owed'[x] \subseteq InStore(s)'
                          /\ owed'[x] \subseteq locked'[c] \union ToSet(left'[c])
  BY OthersKeep DEF PatchesInOrder, VectorTypeOK
<1>1. /\ locked[c] \subseteq InStore(s)
      /\ vpc[c] # "patch" => edit[c] = {} /\ locked[c] = {}
      /\ vpc[c] = "patch" => \E x \in begun :
            /\ edit[c] = {x}
            /\ owed[x] \subseteq InStore(s)
            /\ owed[x] \subseteq locked[c] \union ToSet(left[c])
  BY DEF PatchesInOrder
<1>2. CASE c # b
  <2>1. vpc'[c] = vpc[c] /\ left'[c] = left[c] /\ edit'[c] = edit[c] /\ locked'[c] = locked[c]
    BY <1>2, OthersKeep
  <2>2. locked[c] \subseteq InStore(s)'
    <3>1. CASE Delete(b)
      <4>1. \A id \in InStore(storeOf[b]) : id \notin locked[c]
        BY <1>2, <3>1 DEF Delete, LockedByOther
      <4> QED
        BY <1>1, <3>1, <4>1, RowsDeleted
    <3> QED
      BY <1>1, <3>1, RowsStay
  <2>3. ASSUME vpc[c] = "patch"
        PROVE  \E x \in begun' :
                  /\ edit[c] = {x}
                  /\ owed'[x] \subseteq InStore(s)'
                  /\ owed'[x] \subseteq locked[c] \union ToSet(left[c])
    <3>1. PICK x \in begun : /\ edit[c] = {x}
                             /\ owed[x] \subseteq InStore(s)
                             /\ owed[x] \subseteq locked[c] \union ToSet(left[c])
      BY <1>1, <2>3
    <3>2. x \in Edits /\ ~PatchStart(b, x)
      BY <3>1 DEF PatchStart, VectorTypeOK
    <3>3. owed'[x] \subseteq owed[x] /\ x \in begun'
      BY <3>2, OwedStays
    <3>4. owed'[x] \subseteq InStore(s)'
      <4>1. CASE Delete(b)
        BY <3>1, <3>2, <4>1, OwedStays, RowsDeleted
      <4> QED
        BY <3>1, <3>3, <4>1, RowsStay
    <3> QED
      BY <3>1, <3>3, <3>4
  <2> QED
    BY <1>1, <2>1, <2>2, <2>3
<1>3. CASE c = b
  <2>1. CASE PatchRow(b) /\ vpc[b] = "patch"
    <3> DEFINE id == Head(left[b])
    <3>1. PICK x \in begun : /\ edit[b] = {x}
                             /\ owed[x] \subseteq InStore(s)
                             /\ owed[x] \subseteq locked[b] \union ToSet(left[b])
      BY <1>1, <1>3, <2>1
    <3>2. left[b] \in Seq(Ids) /\ left[b] # <<>>
      BY <2>1 DEF PatchRow, VectorTypeOK
    <3>3. /\ vpc'[b] = "patch" /\ edit'[b] = {x} /\ left'[b] = Tail(left[b])
          /\ begun' = begun /\ owed' = owed /\ docs' = docs
          /\ locked'[b] = IF id \in InStore(s) THEN locked[b] \union {id} ELSE locked[b]
      BY <1>3, <2>1, <3>1 DEF PatchRow, VectorTypeOK, vectorTables
    <3>4. ToSet(left[b]) \subseteq {id} \union ToSet(left'[b])
      BY <3>2, <3>3, ListHead
    <3>5. InStore(s)' = InStore(s)
      BY <3>3 DEF InStore, Has
    <3> QED
      BY <1>1, <1>3, <3>1, <3>3, <3>4, <3>5
  <2>2. ASSUME NEW x \in Edits, PatchStart(b, x), vpc'[b] = "patch",
               edit'[b] = {x}, locked'[b] = {}
        PROVE  /\ x \in begun' /\ owed'[x] \subseteq InStore(s)'
               /\ owed'[x] \subseteq ToSet(left'[b])
    <3>1. /\ x \in begun' /\ owed'[x] = ToSet(Named[x]) \intersect InStore(s)
          /\ left'[b] = Named[x] /\ docs' = docs
      BY <1>3, <2>2 DEF PatchStart, VectorTypeOK, vectorTables
    <3>2. InStore(s)' = InStore(s)
      BY <3>1 DEF InStore, Has
    <3> QED
      BY <3>1, <3>2
  <2> QED
    BY <1>3, <2>1, <2>2, OwnPatch
<1> QED
  BY <1>2, <1>3

LEMMA OneTransactionStep ==
    ASSUME VectorIInv, NEW b \in Backends, BackendStep(b), VectorTypeOK'
    PROVE  OneTransaction'
<1>1. ASSUME NEW c \in Backends \ {b} PROVE edit'[b] \intersect edit'[c] = {}
  <2>1. edit'[c] = edit[c] /\ edit[c] \subseteq begun /\ edit[b] \intersect edit[c] = {}
    BY OthersKeep, EditsBegun DEF VectorIInv, OneTransaction
  <2>2. \A x \in Edits : PatchStart(b, x) => x \notin begun
    BY DEF PatchStart
  <2> QED
    BY <2>1, <2>2, OwnPatch
<1> QED
  BY <1>1, OthersKeep DEF VectorIInv, OneTransaction

\* A row gains a patch by the COMMIT of its transaction only, and loses it with
\* what it owes.
LEMMA PatchesGained ==
    ASSUME VectorIInv, NEW b \in Backends, BackendStep(b), NEW id \in Ids, NEW x \in Edits
    PROVE  /\ Has(id)' /\ x \in docs'[id].patches =>
                  \/ Has(id) /\ x \in docs[id].patches
                  \/ PatchCommit(b) /\ x \in edit[b]
           /\ Has(id) /\ x \in docs[id].patches /\ id \in owed'[x] /\ ~PatchStart(b, x) =>
                  Has(id)' /\ x \in docs'[id].patches
<1> USE DEF VectorIInv
<1>1. CASE Upsert(b)
  <2> DEFINE h == Head(left[b])
             row == [store |-> IF Has(h) THEN docs[h].store ELSE storeOf[b], patches |-> {}]
  <2>1. h \in Ids /\ docs' = [docs EXCEPT ![h] = row]
    <3>1. left[b] \in Seq(Ids) /\ left[b] # <<>>
      BY <1>1, EmptyList DEF VectorTypeOK, Upsert, AddsInOrder
    <3> QED
      BY <1>1, <3>1, ListHead DEF Upsert
  <2>2. row.patches = {} /\ docs'[id] = IF id = h THEN row ELSE docs[id]
    BY <2>1 DEF VectorTypeOK
  <2>3. ~PatchStart(b, x) => h \notin owed'[x]
    BY <1>1, OwedStays
  <2> QED
    BY <2>2, <2>3 DEF Has
<1>2. ASSUME NEW ids, docs' = Inserted(b, ids)
      PROVE  /\ Has(id)' /\ x \in docs'[id].patches => Has(id) /\ x \in docs[id].patches
             /\ Has(id) => docs'[id] = docs[id]
  BY <1>2 DEF Inserted, Has
<1>3. CASE PatchCommit(b)
  BY <1>3, RowsPatched
<1>4. CASE Delete(b)
  BY <1>4, RowsDeleted, OwedStays DEF Has
<1> QED
  BY <1>1, <1>2, <1>3, <1>4, RowsKept DEF InsertNext, CopyIn, Has

LEMMA NotYetSeenStep ==
    ASSUME VectorIInv, NEW b \in Backends, BackendStep(b), VectorTypeOK'
    PROVE  NotYetSeen'
<1> SUFFICES ASSUME NEW x \in Edits, Open(x)', NEW id \in Ids, Has(id)', x \in docs'[id].patches
             PROVE  FALSE
  BY DEF NotYetSeen
<1>1. Open(x)
  <2>1. CASE PatchStart(b, x)
    BY <2>1 DEF PatchStart, Open
  <2>2. CASE ~PatchStart(b, x)
    <3>1. x \in begun' <=> x \in begun
      BY <2>2, OwedStays DEF VectorIInv
    <3>2. \A c \in Backends : x \in edit'[c] => x \in edit[c]
      BY <2>2, OwnPatch, OthersKeep DEF VectorIInv
    <3> QED
      BY <3>1, <3>2 DEF Open
  <2> QED
    BY <2>1, <2>2
<1>2. PatchCommit(b) /\ x \in edit[b]
  BY <1>1, PatchesGained DEF VectorIInv, NotYetSeen
<1>3. x \in begun' /\ edit'[b] = {}
  <2>1. Done(b) /\ begun' = begun
    BY <1>2 DEF PatchCommit
  <2> QED
    BY <1>2, <2>1, DoneTypes, EditsBegun DEF VectorIInv
<1>4. \A c \in Backends : x \notin edit'[c]
  BY <1>2, <1>3, OthersKeep DEF VectorIInv, OneTransaction
<1> QED
  BY <1>3, <1>4 DEF Open

LEMMA SeenWholeStep ==
    ASSUME VectorIInv, NEW b \in Backends, BackendStep(b), VectorTypeOK'
    PROVE  SeenWhole'
<1> USE DEF VectorIInv
<1> SUFFICES ASSUME NEW x \in Edits
             PROVE  /\ x \notin begun' => owed'[x] = {}
                    /\ x \in begun' /\ (\A c \in Backends : x \notin edit'[c]) =>
                          \A id \in owed'[x] : Has(id)' /\ x \in docs'[id].patches
  BY DEF SeenWhole
<1>1. CASE PatchStart(b, x)
  <2>1. x \in begun' /\ x \in edit'[b]
    BY <1>1 DEF PatchStart, VectorTypeOK
  <2> QED
    BY <2>1
<1>2. CASE ~PatchStart(b, x)
  <2>1. owed'[x] \subseteq owed[x] /\ (x \in begun' <=> x \in begun)
    BY <1>2, OwedStays
  <2>2. x \notin begun' => owed'[x] = {}
    BY <2>1 DEF SeenWhole
  <2>3. ASSUME x \in begun', \A c \in Backends : x \notin edit'[c], NEW id \in owed'[x]
        PROVE  Has(id)' /\ x \in docs'[id].patches
    <3>1. id \in Ids /\ id \in owed[x] /\ x \in begun
      BY <2>1, <2>3 DEF VectorTypeOK
    <3>2. CASE \A c \in Backends : x \notin edit[c]
      <4>1. Has(id) /\ x \in docs[id].patches
        BY <3>1, <3>2 DEF SeenWhole
      <4> QED
        BY <1>2, <2>3, <3>1, <4>1, PatchesGained
    <3>3. CASE x \in edit[b]
      <4>1. edit[b] = {x} /\ vpc[b] = "patch"
            /\ owed[x] \subseteq locked[b] \union ToSet(left[b])
            /\ locked[b] \subseteq InStore(storeOf[b])
        BY <3>3 DEF PatchesInOrder
      <4>2. CASE PatchCommit(b)
        <5>1. left[b] = <<>>
          BY <4>2 DEF PatchCommit
        <5>2. id \in locked[b] /\ Has(id)
          BY <3>1, <4>1, <5>1, EmptyList DEF InStore
        <5> QED
          BY <3>1, <4>1, <4>2, <5>2, RowsPatched
      <4>3. CASE DeadlockVictim(b) \/ Lose(b)
        BY <2>3, <3>3, <4>3 DEF DeadlockVictim, Lose
      <4>4. CASE PatchRow(b)
        BY <2>3, <3>3, <4>4 DEF PatchRow
      <4> QED
        BY <4>1, <4>2, <4>3, <4>4 DEF BackendStep, VectorStep, Load, AddStart, PatchStart, Loaded,
           ClearStart, FetchManifest, Upsert, InsertNext, BatchDone, CopyIn, BumpManifest, Delete, Zero
    <3>4. \A c \in Backends \ {b} : x \notin edit[c]
      BY <2>3, OthersKeep
    <3> QED
      BY <3>2, <3>3, <3>4
  <2> QED
    BY <2>2, <2>3
<1> QED
  BY <1>1, <1>2

-----------------------------------------------------------------------------
(* The theorems                                                            *)

LEMMA VectorInitInv == VectorInit => VectorIInv
<1> SUFFICES ASSUME VectorInit PROVE VectorIInv
  OBVIOUS
<1>1. VectorTypeOK
  BY VectorInitTypes
<1>2. \A s : InStore(s) = {} /\ Counting(s) = {}
  BY DEF VectorInit, InStore, Has, Counting
<1>3. AddsInOrder
  BY <1>2 DEF VectorInit, AddsInOrder
<1>4. RowsCounted
  <2>1. ASSUME NEW s \in Stores
        PROVE  /\ doc_count[s] = 0 /\ IsFiniteSet(InStore(s)) /\ Cardinality(InStore(s)) = 0
               /\ Cardinality(Landed(s)) \in Nat /\ Sure(s) = 0
    BY <1>1, <1>2, NoneNew, TokensFinite DEF VectorInit, Sure
  <2> QED
    BY <2>1 DEF RowsCounted, Covered
<1>5. PatchesInOrder /\ OneTransaction /\ NotYetSeen /\ SeenWhole
  BY <1>2 DEF VectorInit, PatchesInOrder, OneTransaction, NotYetSeen, SeenWhole, Has
<1> QED
  BY <1>1, <1>3, <1>4, <1>5 DEF VectorIInv

LEMMA VectorStepInv == VectorIInv /\ [VectorNext]_vectorVars => VectorIInv'
<1>1. ASSUME VectorIInv, UNCHANGED vectorVars PROVE VectorIInv'
  <2> USE <1>1 DEF vectorVars
  <2>1. \A s : /\ InStore(s)' = InStore(s) /\ Landed(s)' = Landed(s)
               /\ Sure(s)' = Sure(s)
    BY DEF InStore, Has, Sure, Clearing, Landed, LandedOf, Rest, Counting
  <2>2. VectorTypeOK' /\ AddsInOrder'
    BY DEF VectorIInv, VectorTypeOK, AddsInOrder
  <2>4. RowsCounted'
    BY <2>1 DEF VectorIInv, RowsCounted, Covered
  <2>5. PatchesInOrder' /\ OneTransaction'
    BY <2>1 DEF VectorIInv, PatchesInOrder, OneTransaction, VectorTypeOK
  <2>6. NotYetSeen' /\ SeenWhole'
    BY DEF VectorIInv, NotYetSeen, SeenWhole, Open, Has
  <2> QED
    BY <2>2, <2>4, <2>5, <2>6 DEF VectorIInv
<1>2. ASSUME VectorIInv, VectorNext PROVE VectorIInv'
  <2>1. VectorTypeOK'
    BY <1>2, VectorTypeStep
  <2>2. PICK b \in Backends : BackendStep(b)
    BY <1>2, StepOfOne
  <2> QED
    BY <1>2, <2>1, <2>2, AddsStep, RowsCountedStep, PatchesStep, OneTransactionStep,
       NotYetSeenStep, SeenWholeStep DEF VectorIInv
<1> QED
  BY <1>1, <1>2

LEMMA VectorInvariant == VectorSpec => []VectorIInv
BY VectorInitInv, VectorStepInv, PTL DEF VectorSpec

LEMMA PgIsVector == PgSpec => VectorSpec
<1>1. PgInit => VectorInit
  BY DEF PgInit
<1>2. [PgNext]_<<graphVars, vectorVars, side>> => [VectorNext]_vectorVars
  <2>1. PgNext => [VectorNext]_vectorVars
    BY DEF PgNext
  <2>2. UNCHANGED <<graphVars, vectorVars, side>> => UNCHANGED vectorVars
    OBVIOUS
  <2> QED
    BY <2>1, <2>2
<1> QED
  BY <1>1, <1>2, PTL DEF PgSpec, VectorSpec

\* The table, its manifest, and the locals of calls and transactions.
THEOREM PgVectorTypes == PgSpec => []VectorTypeOK
<1>1. VectorIInv => VectorTypeOK
  BY DEF VectorIInv
<1> QED
  BY <1>1, PgIsVector, VectorInvariant, PTL

\* With what calls are still to count, the manifest table covers the rows of each
\* store, however the adds and clears of several backends overlap, as long as no
\* client dies between its rows and bumpManifest and no bump falls between the
\* DELETE and the zero of a clear.
THEOREM PgCountCovers == PgSpec => []CountCovers
<1>1. ASSUME VectorIInv PROVE CountCovers
  <2>1. ASSUME NEW s \in Stores \ crossed, lost = 0
        PROVE  doc_count[s] + InFlight(s) >= Cardinality(InStore(s))
    <3>1. /\ doc_count[s] \in Nat /\ Cardinality(InStore(s)) \in Nat
          /\ Cardinality(InStore(s)) <= Sure(s) + Cardinality(Landed(s))
      BY <1>1, <2>1, FS_CardinalityType DEF VectorIInv, RowsCounted, Covered
    <3>2. /\ Cardinality(Landed(s)) \in Nat /\ Cardinality(Given(s)) \in Nat
          /\ Cardinality(Landed(s)) <= Cardinality(Given(s))
      BY <1>1, TokensFinite DEF VectorIInv
    <3>3. InFlight(s) = Cardinality(Given(s))
      BY DEF InFlight, Given
    <3>4. Sure(s) \in Nat /\ Sure(s) <= doc_count[s]
      BY <3>1 DEF Sure
    <3> QED
      BY <3>1, <3>2, <3>3, <3>4
  <2> QED
    BY <2>1 DEF CountCovers
<1> QED
  BY <1>1, PgIsVector, VectorInvariant, PTL

\* patchMetadataMany is seen on all the rows it owes or on none, whatever is
\* upserted, cleared, deadlocked or lost while it runs.
THEOREM PgPatchAllOrNone == PgSpec => []PatchAllOrNone
<1>1. ASSUME VectorIInv PROVE PatchAllOrNone
  <2> SUFFICES ASSUME NEW x \in Edits
               PROVE  {id \in owed[x] : x \in docs[id].patches} \in {{}, owed[x]}
    BY DEF PatchAllOrNone
  <2>1. CASE x \notin begun
    BY <1>1, <2>1 DEF VectorIInv, SeenWhole
  <2>2. CASE x \in begun /\ \A b \in Backends : x \notin edit[b]
    BY <1>1, <2>2 DEF VectorIInv, SeenWhole
  <2>3. ASSUME NEW b \in Backends, x \in edit[b]
        PROVE  {id \in owed[x] : x \in docs[id].patches} = {}
    <3>1. owed[x] \subseteq InStore(storeOf[b])
      BY <1>1, <2>3 DEF VectorIInv, PatchesInOrder
    <3>2. \A id \in owed[x] : x \notin docs[id].patches
      BY <1>1, <2>3, <3>1 DEF VectorIInv, NotYetSeen, Open, InStore
    <3> QED
      BY <3>2
  <2> QED
    BY <2>1, <2>2, <2>3
<1> QED
  BY <1>1, PgIsVector, VectorInvariant, PTL
=============================================================================
