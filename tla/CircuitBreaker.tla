--------------------------- MODULE CircuitBreaker ---------------------------
(***************************************************************************)
(* internal/service/circuitbreaker/circuit_breaker.go: concurrent callers  *)
(* around one breaker.  Call is two critical sections, allowRequest and    *)
(* recordResult, with the protected function running between them, so a    *)
(* result may be recorded in another state than the one that admitted it.  *)
(*                                                                         *)
(* Time is the number of ticks since lastFailureAt, saturating just past   *)
(* resetTimeout: no code looks any further back.                           *)
(***************************************************************************)
EXTENDS Integers

CONSTANTS Caller,        \* goroutines that use the breaker
          Threshold,     \* consecutive failures that open it
          ResetTimeout,  \* ticks it stays open
          MaxFlips       \* bound: how often the protected service changes

ASSUME ThresholdAssumption == Threshold \in Nat \ {0}
ASSUME TimeoutAssumption == ResetTimeout \in Nat
ASSUME FlipsAssumption == MaxFlips \in Nat

VARIABLES
    state,         \* "closed", "open" or "half-open"
    failureCount,
    sinceFailure,  \* ticks since lastFailureAt
    inFlight,      \* the state that admitted each caller's running call
    healthy,       \* the protected service answers
    flips,         \* how often healthy changed
    streak         \* history: failures recorded since the last success,
                   \* Reset or closing, saturating at Threshold

breaker == <<state, failureCount, sinceFailure>>
service == <<healthy, flips>>
vars == <<breaker, inFlight, service, streak>>

State == {"closed", "open", "half-open"}
Expired == ResetTimeout + 1

TypeOK ==
    /\ state \in State
    /\ failureCount \in Nat
    /\ sinceFailure \in 0 .. Expired
    /\ inFlight \in [Caller -> State \union {"none"}]
    /\ healthy \in BOOLEAN
    /\ flips \in Nat
    /\ streak \in 0 .. Threshold

Init ==
    /\ state = "closed"
    /\ failureCount = 0
    /\ sinceFailure = Expired      \* the zero time is long ago
    /\ inFlight = [c \in Caller |-> "none"]
    /\ healthy \in BOOLEAN
    /\ flips = 0
    /\ streak = 0

Begin(c, admitting) ==
    /\ inFlight[c] = "none"
    /\ state' = admitting
    /\ inFlight' = [inFlight EXCEPT ![c] = admitting]
    /\ UNCHANGED <<failureCount, sinceFailure, service, streak>>

AllowClosed(c) == state = "closed" /\ Begin(c, "closed")

AllowAfterTimeout(c) ==
    /\ state = "open"
    /\ sinceFailure > ResetTimeout
    /\ Begin(c, "half-open")

AllowHalfOpen(c) == state = "half-open" /\ Begin(c, "half-open")

Allow(c) == AllowClosed(c) \/ AllowAfterTimeout(c) \/ AllowHalfOpen(c)

End(c) == /\ inFlight[c] # "none"
          /\ inFlight' = [inFlight EXCEPT ![c] = "none"]
          /\ UNCHANGED service

\* Seeded bugs: a success keeps the count, or leaves the breaker half-open.
SuccessKeepsCount(c) ==
    /\ healthy
    /\ End(c)
    /\ state' = IF state = "half-open" THEN "closed" ELSE state
    /\ streak' = 0
    /\ UNCHANGED <<sinceFailure, failureCount>>

SuccessStaysHalfOpen(c) ==
    /\ healthy
    /\ End(c)
    /\ failureCount' = 0
    /\ streak' = 0
    /\ UNCHANGED <<state, sinceFailure>>

RecordSuccess(c) ==
    /\ healthy
    /\ End(c)
    /\ failureCount' = 0
    /\ state' = IF state = "half-open" THEN "closed" ELSE state
    /\ streak' = 0
    /\ UNCHANGED sinceFailure

FailureOpensEarly(c) ==
    /\ ~healthy
    /\ End(c)
    /\ sinceFailure' = 0
    /\ streak' = IF streak < Threshold THEN streak + 1 ELSE streak
    /\ failureCount' = failureCount + 1
    /\ state' = IF failureCount + 2 >= Threshold THEN "open" ELSE state

RecordFailure(c) ==
    /\ ~healthy
    /\ End(c)
    /\ sinceFailure' = 0
    /\ streak' = IF streak < Threshold THEN streak + 1 ELSE streak
    /\ IF state = "half-open"
       THEN state' = "open" /\ failureCount' = 1
       ELSE /\ failureCount' = failureCount + 1
            /\ state' = IF failureCount + 1 >= Threshold THEN "open" ELSE state

\* fn panicked: recordResult is not deferred.
Panic(c) == ~healthy /\ End(c) /\ UNCHANGED <<breaker, streak>>

Reset ==
    /\ state' = "closed"
    /\ failureCount' = 0
    /\ sinceFailure' = Expired
    /\ streak' = 0
    /\ UNCHANGED <<inFlight, service>>

Tick ==
    /\ sinceFailure < Expired
    /\ sinceFailure' = sinceFailure + 1
    /\ UNCHANGED <<state, failureCount, inFlight, service, streak>>

\* The protected service, external: it fails and recovers as it likes.
Flip ==
    /\ flips < MaxFlips
    /\ flips' = flips + 1
    /\ healthy' = ~healthy
    /\ UNCHANGED <<breaker, inFlight, streak>>

Next ==
    \/ \E c \in Caller : Allow(c) \/ RecordSuccess(c) \/ RecordFailure(c) \/ Panic(c)
    \/ Reset
    \/ Tick
    \/ Flip

Spec == Init /\ [][Next]_vars

(* Callers keep calling, the protected function returns, time passes.       *)
Fairness ==
    /\ WF_vars(Tick)
    /\ \A c \in Caller :
          /\ WF_vars(Allow(c))
          /\ WF_vars(RecordSuccess(c) \/ RecordFailure(c))

FairSpec == Spec /\ Fairness

-----------------------------------------------------------------------------
(* A closed breaker is one failure away from opening at most: results that  *)
(* arrive late, in a state other than the one that admitted them, never     *)
(* leave it closed at or over its threshold (recordResult, 108-135).        *)
ClosedBelowThreshold == state = "closed" => failureCount < Threshold

(* A closed breaker counts exactly the consecutive failures recorded since  *)
(* the last success, Reset or closing: stale failures of an earlier outage  *)
(* that were recorded while it was open are not carried over.               *)
CountsConsecutiveFailures == state = "closed" => failureCount = streak

(* It opens only on the Threshold-th consecutive failure (comment of New,   *)
(* line 55), or on a failed trial.                                          *)
OpensOnFailuresOnly ==
    [][state # "open" /\ state' = "open" =>
          /\ sinceFailure' = 0
          /\ state = "half-open" \/ streak' = Threshold]_vars

(* Once the protected service stays healthy the breaker does not stay open  *)
(* or half-open, whatever results were still in flight.                     *)
Recovers == <>[]healthy => []<>(state = "closed")
=============================================================================
