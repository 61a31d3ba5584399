--------------------------- MODULE CircuitBreaker ---------------------------
(***************************************************************************)
(* The circuit breaker (src/src/circuit_breaker.rs) in the hands of several *)
(* callers.  Its methods take &mut self, so the callers serialise them;    *)
(* between an allow_request that admits a call and the record_success or   *)
(* record_failure that reports its result, other callers' steps interleave *)
(* without limit.  A caller reads the clock before it gets its turn, so    *)
(* the time it passes in is up to MaxSkew old.                             *)
(*                                                                         *)
(* Time enters the code only as now - opened_at, compared with the         *)
(* recovery timeout while the circuit is open.  The model keeps that       *)
(* difference (openedAgo) and stops it where every reading passes the      *)
(* comparison; transition_count, a statistic, is left out.                 *)
(***************************************************************************)
EXTENDS Integers, FiniteSets

CONSTANTS
  Callers,          \* callers, each with at most one call outstanding
  FailureThreshold, \* CircuitBreakerConfig::failure_threshold
  RecoveryTimeout,  \* CircuitBreakerConfig::recovery_timeout_s, in ticks
  HalfOpenMax,      \* CircuitBreakerConfig::half_open_max_requests
  MaxSkew,          \* how old a clock reading may be when it is used
  MayLoseResult     \* whether a caller may end without reporting

ASSUME ConfigAssumption ==
  /\ IsFiniteSet(Callers)
  /\ FailureThreshold \in Nat /\ RecoveryTimeout \in Nat /\ HalfOpenMax \in Nat
  /\ MaxSkew \in Nat
  /\ MayLoseResult \in BOOLEAN

VARIABLES
  state,               \* CircuitState
  consecutiveFailures,
  openedAgo,           \* now - opened_at, no larger than TimeBound
  halfOpenRequests,
  halfOpenSuccesses,
  call,                \* a caller is idle, or its call is a trial of the
                       \* latest half-open period, or an earlier one
  lateSuccesses,       \* history: successes of this half-open period that
                       \* were not its trials'
  openFor              \* history: ticks since the circuit last opened, no
                       \* larger than RecoveryTimeout

breaker == <<state, consecutiveFailures, openedAgo, halfOpenRequests,
             halfOpenSuccesses>>
vars == <<breaker, call, lateSuccesses, openFor>>

CircuitState == {"Closed", "Open", "HalfOpen"}
TimeBound == RecoveryTimeout + MaxSkew
Trials == {c \in Callers : call[c] = "trial"}

(* What the configured counts come to: the first failure or the first      *)
(* success is always counted before the comparison.                        *)
AtLeastOne(n) == IF n = 0 THEN 1 ELSE n

Init ==
  /\ state = "Closed" /\ consecutiveFailures = 0
  /\ openedAgo = 0 /\ halfOpenRequests = 0 /\ halfOpenSuccesses = 0
  /\ call = [c \in Callers |-> "idle"]
  /\ lateSuccesses = 0 /\ openFor = 0

-----------------------------------------------------------------------------
(* allow_request; a request that is denied changes nothing. *)
AdmitClosed(c) ==
  /\ state = "Closed" /\ call[c] = "idle"
  /\ call' = [call EXCEPT ![c] = "earlier"]
  /\ UNCHANGED <<breaker, lateSuccesses, openFor>>

(* Mutant of AdmitFirstTrial: the successes of the last period are kept. *)
AdmitKeepingSuccesses(c) ==
  /\ state = "Open" /\ call[c] = "idle"
  /\ \E skew \in 0..MaxSkew : openedAgo - skew >= RecoveryTimeout
  /\ state' = "HalfOpen"
  /\ halfOpenRequests' = 1
  /\ call' = [d \in Callers |-> IF d = c THEN "trial"
                                ELSE IF call[d] = "trial" THEN "earlier" ELSE call[d]]
  /\ lateSuccesses' = 0
  /\ UNCHANGED <<halfOpenSuccesses, consecutiveFailures, openedAgo, openFor>>

AdmitFirstTrial(c) ==
  /\ state = "Open" /\ call[c] = "idle"
  /\ \E skew \in 0..MaxSkew : openedAgo - skew >= RecoveryTimeout
  /\ state' = "HalfOpen"
  /\ halfOpenRequests' = 1 /\ halfOpenSuccesses' = 0
  /\ call' = [d \in Callers |-> IF d = c THEN "trial"
                                ELSE IF call[d] = "trial" THEN "earlier" ELSE call[d]]
  /\ lateSuccesses' = 0
  /\ UNCHANGED <<consecutiveFailures, openedAgo, openFor>>

(* Mutant of AdmitTrial: the quota is compared after counting. *)
AdmitOneLess(c) ==
  /\ state = "HalfOpen" /\ call[c] = "idle"
  /\ halfOpenRequests + 1 < HalfOpenMax
  /\ halfOpenRequests' = halfOpenRequests + 1
  /\ call' = [call EXCEPT ![c] = "trial"]
  /\ UNCHANGED <<state, consecutiveFailures, openedAgo, halfOpenSuccesses,
                 lateSuccesses, openFor>>

AdmitTrial(c) ==
  /\ state = "HalfOpen" /\ call[c] = "idle"
  /\ halfOpenRequests < HalfOpenMax
  /\ halfOpenRequests' = halfOpenRequests + 1
  /\ call' = [call EXCEPT ![c] = "trial"]
  /\ UNCHANGED <<state, consecutiveFailures, openedAgo, halfOpenSuccesses,
                 lateSuccesses, openFor>>

Return(c) ==
  /\ call[c] # "idle"
  /\ call' = [call EXCEPT ![c] = "idle"]

(* record_success *)
SucceedClosed(c) ==
  /\ state = "Closed" /\ Return(c)
  /\ consecutiveFailures' = 0
  /\ UNCHANGED <<state, openedAgo, halfOpenRequests, halfOpenSuccesses,
                 lateSuccesses, openFor>>

(* Mutants of SucceedHalfOpen: a success gives its slot back; the failures *)
(* are not cleared on closing; the quota must be exceeded.                 *)
SucceedFreeingSlot(c) ==
  /\ state = "HalfOpen" /\ Return(c)
  /\ halfOpenRequests' = halfOpenRequests - 1
  /\ halfOpenSuccesses' = halfOpenSuccesses + 1
  /\ lateSuccesses' = lateSuccesses + (IF call[c] = "trial" THEN 0 ELSE 1)
  /\ IF halfOpenSuccesses' >= HalfOpenMax
     THEN state' = "Closed" /\ consecutiveFailures' = 0
     ELSE UNCHANGED <<state, consecutiveFailures>>
  /\ UNCHANGED <<openedAgo, openFor>>

SucceedKeepingFailures(c) ==
  /\ state = "HalfOpen" /\ Return(c)
  /\ halfOpenSuccesses' = halfOpenSuccesses + 1
  /\ lateSuccesses' = lateSuccesses + (IF call[c] = "trial" THEN 0 ELSE 1)
  /\ state' = IF halfOpenSuccesses' >= HalfOpenMax THEN "Closed" ELSE state
  /\ UNCHANGED <<consecutiveFailures, openedAgo, halfOpenRequests, openFor>>

SucceedPastQuota(c) ==
  /\ state = "HalfOpen" /\ Return(c)
  /\ halfOpenSuccesses' = halfOpenSuccesses + 1
  /\ lateSuccesses' = lateSuccesses + (IF call[c] = "trial" THEN 0 ELSE 1)
  /\ IF halfOpenSuccesses' > HalfOpenMax
     THEN state' = "Closed" /\ consecutiveFailures' = 0
     ELSE UNCHANGED <<state, consecutiveFailures>>
  /\ UNCHANGED <<openedAgo, halfOpenRequests, openFor>>

SucceedHalfOpen(c) ==
  /\ state = "HalfOpen" /\ Return(c)
  /\ halfOpenSuccesses' = halfOpenSuccesses + 1
  /\ lateSuccesses' = lateSuccesses + (IF call[c] = "trial" THEN 0 ELSE 1)
  /\ IF halfOpenSuccesses' >= HalfOpenMax
     THEN state' = "Closed" /\ consecutiveFailures' = 0
     ELSE UNCHANGED <<state, consecutiveFailures>>
  /\ UNCHANGED <<openedAgo, halfOpenRequests, openFor>>

(* transition_to(Open) and opened_at = now, now read up to MaxSkew ago. *)
OpenCircuit ==
  /\ state' = "Open" /\ openedAgo' \in 0..MaxSkew /\ openFor' = 0

(* record_failure *)
FailClosed(c) ==
  /\ state = "Closed" /\ Return(c)
  /\ consecutiveFailures' = consecutiveFailures + 1
  /\ IF consecutiveFailures' >= FailureThreshold
     THEN OpenCircuit
     ELSE UNCHANGED <<state, openedAgo, openFor>>
  /\ UNCHANGED <<halfOpenRequests, halfOpenSuccesses, lateSuccesses>>

(* Mutant of FailHalfOpen: opened_at keeps the time of the first opening. *)
FailKeepingOpenedAt(c) ==
  /\ state = "HalfOpen" /\ Return(c)
  /\ state' = "Open" /\ openFor' = 0
  /\ UNCHANGED <<consecutiveFailures, openedAgo, halfOpenRequests, halfOpenSuccesses,
                 lateSuccesses>>

FailHalfOpen(c) ==
  /\ state = "HalfOpen" /\ Return(c)
  /\ OpenCircuit
  /\ UNCHANGED <<consecutiveFailures, halfOpenRequests, halfOpenSuccesses,
                 lateSuccesses>>

(* Either result while the circuit is open changes nothing in the breaker. *)
ReportOpen(c) ==
  /\ state = "Open" /\ Return(c)
  /\ UNCHANGED <<breaker, lateSuccesses, openFor>>

(* The caller is cancelled, or forgets to report. *)
LoseResult(c) ==
  /\ MayLoseResult /\ Return(c)
  /\ UNCHANGED <<breaker, lateSuccesses, openFor>>

Reset ==
  /\ state' = "Closed" /\ consecutiveFailures' = 0
  /\ halfOpenRequests' = 0 /\ halfOpenSuccesses' = 0
  /\ UNCHANGED <<openedAgo, call, lateSuccesses, openFor>>

(* Time passes.  It is only looked at while the circuit is open. *)
Tick ==
  /\ state = "Open" /\ openedAgo < TimeBound
  /\ openedAgo' = openedAgo + 1
  /\ openFor' = IF openFor < RecoveryTimeout THEN openFor + 1 ELSE openFor
  /\ UNCHANGED <<state, consecutiveFailures, halfOpenRequests, halfOpenSuccesses,
                 call, lateSuccesses>>

AllowRequest(c) == AdmitClosed(c) \/ AdmitFirstTrial(c) \/ AdmitTrial(c)
RecordSuccess(c) == SucceedClosed(c) \/ SucceedHalfOpen(c) \/ ReportOpen(c)
RecordFailure(c) == FailClosed(c) \/ FailHalfOpen(c) \/ ReportOpen(c)
Report(c) == RecordSuccess(c) \/ RecordFailure(c)

Next ==
  \/ \E c \in Callers : AllowRequest(c) \/ Report(c) \/ LoseResult(c)
  \/ Reset
  \/ Tick

Spec == Init /\ [][Next]_vars

(* An embedding that keeps sending and whose calls end: time passes, every *)
(* caller keeps asking, and every admitted call is eventually reported.    *)
LiveSpec ==
  /\ Spec /\ WF_vars(Tick)
  /\ \A c \in Callers : WF_vars(AllowRequest(c)) /\ WF_vars(Report(c))

-----------------------------------------------------------------------------
(* Every variable keeps its type; the counters are u32 and do not go below *)
(* zero (struct CircuitBreaker).                                           *)
TypeOK ==
  /\ state \in CircuitState
  /\ consecutiveFailures \in Nat
  /\ openedAgo \in 0..TimeBound
  /\ halfOpenRequests \in Nat /\ halfOpenSuccesses \in Nat
  /\ call \in [Callers -> {"idle", "earlier", "trial"}]
  /\ lateSuccesses \in Nat
  /\ openFor \in 0..RecoveryTimeout

(* However results of earlier calls straggle in and whatever was reset, a  *)
(* closed circuit is one whose failures since the last success, close or   *)
(* reset stay below the threshold (record_failure, record_success, reset). *)
ClosedBelowThreshold ==
  state = "Closed" => consecutiveFailures < AtLeastOne(FailureThreshold)

(* In a half-open period the downstream sees no more requests than its     *)
(* quota, counted over outstanding, succeeded and lost trials together,    *)
(* and the period ends with the success that reaches the quota             *)
(* (allow_request, record_success).                                        *)
HalfOpenWithinQuota ==
  state = "HalfOpen" =>
    /\ halfOpenRequests \in 1..AtLeastOne(HalfOpenMax)
    /\ halfOpenSuccesses < AtLeastOne(HalfOpenMax)
    /\ Cardinality(Trials) + (halfOpenSuccesses - lateSuccesses) <= halfOpenRequests

(* Fail-fast: from the moment the circuit opens, whichever of the callers' *)
(* clock readings opened it and whichever ends it, no trial is admitted    *)
(* before the recovery timeout has passed, up to the age of a reading      *)
(* (circuit_breaker.rs:1-4, allow_request, record_failure).                *)
FailFast ==
  [][state = "Open" /\ state' = "HalfOpen" => openFor >= RecoveryTimeout - MaxSkew]_vars

(* A half-open period always ends, as long as the callers keep sending and *)
(* report every result: trials cannot use up the quota without deciding.   *)
HalfOpenResolves == state = "HalfOpen" ~> state # "HalfOpen"

(* Once nothing fails any more, the circuit closes and stays closed.       *)
RecoversForGood ==
  <>[][\A c \in Callers : ~FailClosed(c) /\ ~FailHalfOpen(c)]_vars
    => <>[](state = "Closed")

(* circuit_breaker.rs:122 says "all trials succeeded -> Closed": when a    *)
(* success closes the circuit, no trial of the period is still outstanding. *)
ClosesWhenAllTrialsSucceeded ==
  [][state = "HalfOpen" /\ state' = "Closed" /\ call' # call
       => \A c \in Callers : call'[c] # "trial"]_vars

=============================================================================
