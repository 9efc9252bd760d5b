--------------------------- MODULE CircuitBreaker ---------------------------
(***************************************************************************)
(* The circuit breaker of src/lib/circuit-breaker.ts.                      *)
(*                                                                         *)
(* CircuitBreaker.exec(fn) is split where it awaits: one action for the    *)
(* synchronous prologue that admits the call (exec, lines 68-79) and one   *)
(* for each way the awaited fn() can settle (lines 79-85).  Any number of  *)
(* calls may be between the two, because exec keeps no lock.               *)
(*                                                                         *)
(* The clock is the time left until nextAttemptAt, max(0, nextAttemptAt -  *)
(* now()): exec and getState look at nothing else.                         *)
(***************************************************************************)
EXTENDS Naturals, FiniteSets

CONSTANTS
    Calls,       \* the callers of exec(); one call each at a time
    Threshold,   \* failureThreshold
    Cooldown,    \* cooldownMs, in clock ticks
    FailureCap   \* bound: consecutiveFailures is counted up to here

ASSUME CallsAssumption == IsFiniteSet(Calls)
ASSUME ThresholdAssumption == Threshold \in Nat \ {0}
ASSUME CooldownAssumption == Cooldown \in Nat
\* The counter is only ever compared with the threshold, so a cap at or above
\* it changes no decision.
ASSUME FailureCapAssumption == FailureCap \in Nat /\ FailureCap >= Threshold

VARIABLES
    state,                \* "closed", "open" or "half_open"
    consecutiveFailures,
    cooldownLeft,         \* max(0, nextAttemptAt - now())
    running,              \* calls whose fn() has been invoked and not settled
    upstream,             \* what fn() talks to: "flaky", then "healthy" for good
    wasted                \* history: failures recorded since the last success,
                          \*   reset or expired cooldown

breakerVars == <<state, consecutiveFailures, cooldownLeft>>
vars == <<state, consecutiveFailures, cooldownLeft, running, upstream, wasted>>

States == {"closed", "open", "half_open"}

TypeOK ==
    /\ state \in States
    /\ consecutiveFailures \in 0 .. FailureCap
    /\ cooldownLeft \in 0 .. Cooldown
    /\ running \in SUBSET Calls
    /\ upstream \in {"flaky", "healthy"}
    /\ wasted \in Nat

Init ==
    /\ state = "closed"
    /\ consecutiveFailures = 0
    /\ cooldownLeft = 0
    /\ running = {}
    /\ upstream = "flaky"
    /\ wasted = 0

-----------------------------------------------------------------------------
(* exec: a call is admitted, or rejected with CircuitBreakerOpenError, which *)
(* changes nothing.                                                          *)

\* Mutant: half_open admits nobody after its first trial.
ExecPassClosedOnly(c) ==
    /\ c \notin running
    /\ state = "closed"
    /\ running' = running \union {c}
    /\ UNCHANGED <<state, consecutiveFailures, cooldownLeft, upstream, wasted>>

\* Closed or half_open: fn() is invoked, however many trials are running.
ExecPass(c) ==
    /\ c \notin running
    /\ state # "open"
    /\ running' = running \union {c}
    /\ UNCHANGED <<state, consecutiveFailures, cooldownLeft, upstream, wasted>>

\* Mutant: the cooldown is not waited for.
ExecTrialEarly(c) ==
    /\ c \notin running
    /\ state = "open"
    /\ state' = "half_open"
    /\ running' = running \union {c}
    /\ wasted' = IF cooldownLeft = 0 THEN 0 ELSE wasted
    /\ UNCHANGED <<consecutiveFailures, cooldownLeft, upstream>>

\* Open and the cooldown has expired: the call becomes the half_open trial.
ExecTrial(c) ==
    /\ c \notin running
    /\ state = "open"
    /\ cooldownLeft = 0
    /\ state' = "half_open"
    /\ running' = running \union {c}
    /\ wasted' = 0
    /\ UNCHANGED <<consecutiveFailures, cooldownLeft, upstream>>

\* Mutant: a success that comes late leaves an open circuit open.
SucceedInTime(c) ==
    /\ c \in running
    /\ state' = IF state = "half_open" THEN "closed" ELSE state
    /\ consecutiveFailures' = 0
    /\ running' = running \ {c}
    /\ wasted' = 0
    /\ UNCHANGED <<cooldownLeft, upstream>>

\* fn() resolved: recordSuccess closes the circuit whatever its state is by now.
Succeed(c) ==
    /\ c \in running
    /\ state' = "closed"
    /\ consecutiveFailures' = 0
    /\ running' = running \ {c}
    /\ wasted' = 0
    /\ UNCHANGED <<cooldownLeft, upstream>>

MinOf(m, n) == IF m <= n THEN m ELSE n

\* recordFailure trips on any failure in half_open, and at the threshold.
Trips == state = "half_open" \/ consecutiveFailures + 1 >= Threshold

\* fn() rejected with an error that isFailure counts.
Fail(c) ==
    /\ c \in running
    /\ upstream = "flaky"
    /\ consecutiveFailures' = MinOf(consecutiveFailures + 1, FailureCap)
    /\ state' = IF Trips THEN "open" ELSE state
    /\ cooldownLeft' = IF Trips THEN Cooldown ELSE cooldownLeft
    /\ running' = running \ {c}
    /\ wasted' = wasted + 1
    /\ UNCHANGED upstream

\* fn() rejected with an error that isFailure does not count (a 4xx).
FailUncounted(c) ==
    /\ c \in running
    /\ upstream = "flaky"
    /\ running' = running \ {c}
    /\ UNCHANGED <<state, consecutiveFailures, cooldownLeft, upstream, wasted>>

\* reset(): an operator force-closes the circuit.
Reset ==
    /\ state' = "closed"
    /\ consecutiveFailures' = 0
    /\ cooldownLeft' = 0
    /\ wasted' = 0
    /\ UNCHANGED <<running, upstream>>

Tick ==
    /\ cooldownLeft > 0
    /\ cooldownLeft' = cooldownLeft - 1
    /\ UNCHANGED <<state, consecutiveFailures, running, upstream, wasted>>

\* Environment: the upstream recovers and stays up.
Heal ==
    /\ upstream = "flaky"
    /\ upstream' = "healthy"
    /\ UNCHANGED <<state, consecutiveFailures, cooldownLeft, running, wasted>>

Exec == \E c \in Calls : ExecPass(c) \/ ExecTrial(c)
Settle(c) == Succeed(c) \/ Fail(c) \/ FailUncounted(c)

Next ==
    \/ Exec
    \/ \E c \in Calls : Settle(c)
    \/ Reset
    \/ Tick
    \/ Heal

Spec == Init /\ [][Next]_vars

-----------------------------------------------------------------------------
(* Properties                                                              *)

\* The circuit is closed exactly while the failure streak is below the
\* threshold: no path through late successes, late failures, resets and
\* half-open trials leaves it closed with a spent budget, or shut with an
\* unspent one.
ClosedIffBudgetLeft == state = "closed" <=> consecutiveFailures < Threshold

\* What a broken upstream costs: between two successes (or resets, or expired
\* cooldowns) at most Threshold - 1 failures keep the circuit closed, and the
\* calls already in flight when it trips can each add one more.
WasteBounded == wasted + Cardinality(running) <= Threshold - 1 + Cardinality(Calls)

\* Once the upstream is back, the circuit closes: a trial is admitted after
\* the cooldown and no schedule of late failures keeps it open for ever.
Recovers == upstream = "healthy" ~> state = "closed"
=============================================================================
