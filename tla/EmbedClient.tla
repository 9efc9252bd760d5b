---------------------------- MODULE EmbedClient ----------------------------
(***************************************************************************)
(* One networked embedder (ollamaEmbedder / openaiEmbedder of              *)
(* src/memory/vector/embedder.ts): every embed runs withRetry inside       *)
(* CircuitBreaker.exec (runWithBreaker), and wrapEmbedderWithCostTracker   *)
(* bills it afterwards from a usage box that all calls share.              *)
(*                                                                         *)
(* What the breaker calls fn() is here a loop of requests and backoffs.    *)
(***************************************************************************)
EXTENDS CircuitBreaker

CONSTANTS
    MaxAttempts,  \* retryMaxAttempts
    NoUsage       \* the usage box is empty (_lastUsageTokens is 0 or unset)

ASSUME MaxAttemptsAssumption == MaxAttempts \in Nat \ {0}
ASSUME NoUsageAssumption == NoUsage \notin Calls

VARIABLES
    phase,     \* per call: "idle", "fetching", "backoff" or "metering"
    attempt,   \* per call: the attempt withRetry is at
    usageBox,  \* _lastUsageTokens, named by the call whose response set it
    unbilled   \* history: calls whose last reported usage has not been billed

clientVars == <<phase, attempt, usageBox, unbilled>>
allVars == <<vars, clientVars>>

ClientTypeOK ==
    /\ TypeOK
    /\ phase \in [Calls -> {"idle", "fetching", "backoff", "metering"}]
    /\ attempt \in [Calls -> 1 .. MaxAttempts]
    /\ usageBox \in Calls \union {NoUsage}
    /\ unbilled \in SUBSET Calls

ClientInit ==
    /\ Init
    /\ phase = [c \in Calls |-> "idle"]
    /\ attempt = [c \in Calls |-> 1]
    /\ usageBox = NoUsage
    /\ unbilled = {}

GoTo(c, p) == phase' = [phase EXCEPT ![c] = p]

\* embed(): the breaker admits the call and withRetry sends attempt 1.
Embed(c) ==
    /\ phase[c] = "idle"
    /\ ExecPass(c) \/ ExecTrial(c)
    /\ GoTo(c, "fetching")
    /\ attempt' = [attempt EXCEPT ![c] = 1]
    /\ UNCHANGED <<usageBox, unbilled>>

\* A response may carry a usage report, which goes into the box at once.
Reports(c) ==
    \/ usageBox' = c /\ unbilled' = unbilled \union {c}
    \/ UNCHANGED <<usageBox, unbilled>>

\* The request succeeded: withRetry returns and the breaker records the success
\* before the billing wrapper resumes.  A response without vectors fails the
\* embed after that (openai: empty response), and nothing is billed.
Respond(c) ==
    /\ phase[c] = "fetching"
    /\ Succeed(c)
    /\ GoTo(c, "metering") \/ GoTo(c, "idle")
    /\ Reports(c)
    /\ UNCHANGED attempt

\* A retryable error with attempts left: withRetry sleeps.
Backoff(c) ==
    /\ phase[c] = "fetching"
    /\ upstream = "flaky"
    /\ attempt[c] < MaxAttempts
    /\ GoTo(c, "backoff")
    /\ UNCHANGED <<vars, attempt, usageBox, unbilled>>

\* Mutant: the retry waits for the circuit, which waits for a call.
RetryWhenClosed(c) ==
    /\ phase[c] = "backoff"
    /\ state # "open"
    /\ GoTo(c, "fetching")
    /\ attempt' = [attempt EXCEPT ![c] = @ + 1]
    /\ UNCHANGED <<vars, usageBox, unbilled>>

\* The backoff is over.  The breaker is not consulted again.
Retry(c) ==
    /\ phase[c] = "backoff"
    /\ GoTo(c, "fetching")
    /\ attempt' = [attempt EXCEPT ![c] = @ + 1]
    /\ UNCHANGED <<vars, usageBox, unbilled>>

\* A retryable error on the last attempt, or an error that is counted without
\* being retryable (a malformed body, with a usage report or without): the
\* breaker records one failure.
GiveUp(c) ==
    /\ phase[c] = "fetching"
    /\ Fail(c)
    /\ GoTo(c, "idle")
    /\ Reports(c)
    /\ UNCHANGED attempt

\* A 4xx other than 408 and 429: neither retried nor counted.
Refused(c) ==
    /\ phase[c] = "fetching"
    /\ FailUncounted(c)
    /\ GoTo(c, "idle")
    /\ UNCHANGED <<attempt, usageBox, unbilled>>

\* Mutant: the box is not emptied after use.
MeterKeepsBox(c) ==
    /\ phase[c] = "metering"
    /\ unbilled' = unbilled \ {usageBox}
    /\ GoTo(c, "idle")
    /\ UNCHANGED <<vars, attempt, usageBox>>

\* The wrapper bills the box and empties it, or bills an estimate if it is empty.
Meter(c) ==
    /\ phase[c] = "metering"
    /\ usageBox' = NoUsage
    /\ unbilled' = unbilled \ {usageBox}
    /\ GoTo(c, "idle")
    /\ UNCHANGED <<vars, attempt>>

Progress(c) == Respond(c) \/ Backoff(c) \/ Retry(c) \/ GiveUp(c) \/ Refused(c) \/ Meter(c)

ClientNext ==
    \/ \E c \in Calls : Embed(c)
    \/ \E c \in Calls : Progress(c)
    \/ (Reset \/ Tick \/ Heal) /\ UNCHANGED clientVars

\* Fairness: time passes; a sleep ends and a fetch settles (undici times it out);
\* the application keeps embedding, and which call it makes is its choice.
ClientSpec ==
    /\ ClientInit
    /\ [][ClientNext]_allVars
    /\ WF_allVars(Tick /\ UNCHANGED clientVars)
    /\ WF_allVars(\E c \in Calls : Embed(c))
    /\ \A c \in Calls : WF_allVars(Progress(c))

-----------------------------------------------------------------------------
(* Properties                                                              *)

\* The breaker believes a call is in flight exactly while the retry loop runs:
\* an exhausted, refused or answered call never leaks its slot.
InFlightAgrees == running = {c \in Calls : phase[c] \in {"fetching", "backoff"}}

\* embedder.ts:82: a usage report is billed at most once, whatever other calls
\* read or overwrite the shared box in between.
NoDoubleBilling ==
    [][\A c \in Calls : Meter(c) => usageBox = NoUsage \/ usageBox \in unbilled]_allVars

\* No embed is lost between the breaker, the retry loop and the billing.
EveryEmbedSettles == \A c \in Calls : phase[c] # "idle" ~> phase[c] = "idle"
=============================================================================
