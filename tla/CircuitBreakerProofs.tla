------------------------ MODULE CircuitBreakerProofs ------------------------
(***************************************************************************)
(* Theorems about CircuitBreaker, for every number of callers and every    *)
(* configuration, zero thresholds and lost results included.               *)
(***************************************************************************)
EXTENDS CircuitBreaker, FiniteSetTheorems, TLAPS

(* While the circuit is open, opened_at is at most a clock reading's age   *)
(* before the moment it opened.                                            *)
AgeBound ==
  state = "Open" => openedAgo <= openFor + MaxSkew \/ openFor = RecoveryTimeout

IInv ==
  /\ TypeOK
  /\ ClosedBelowThreshold
  /\ HalfOpenWithinQuota
  /\ AgeBound

(* Counting the outstanding trials. *)
LEMMA TrialsCount ==
  ASSUME TypeOK
  PROVE  IsFiniteSet(Trials) /\ Cardinality(Trials) \in Nat
BY ConfigAssumption, FS_Subset, FS_CardinalityType DEF Trials

(* A call admitted on trial adds one to those under way. *)
LEMMA TrialAdmitted ==
  ASSUME TypeOK, NEW c \in Callers, call[c] = "idle",
         call' = [call EXCEPT ![c] = "trial"]
  PROVE  Cardinality(Trials') = Cardinality(Trials) + 1
<1>1. Trials' = Trials \cup {c} /\ c \notin Trials
  BY DEF Trials, TypeOK
<1> QED
  BY <1>1, TrialsCount, FS_AddElement

(* A call that returns leaves the trials if it was one. *)
LEMMA TrialReturns ==
  ASSUME TypeOK, NEW c \in Callers, Return(c)
  PROVE  Cardinality(Trials') =
           Cardinality(Trials) - (IF call[c] = "trial" THEN 1 ELSE 0)
<1>1. CASE call[c] = "trial"
  <2>1. Trials' = Trials \ {c} /\ c \in Trials
    BY <1>1 DEF Trials, TypeOK, Return
  <2> QED
    BY <1>1, <2>1, TrialsCount, FS_RemoveElement
<1>2. CASE call[c] # "trial"
  <2>1. Trials' = Trials
    BY <1>2 DEF Trials, TypeOK, Return
  <2> QED
    BY <1>2, <2>1, TrialsCount
<1> QED
  BY <1>1, <1>2

(* The initial states satisfy the inductive invariant. *)
LEMMA InvInit == Init => IInv
<1> SUFFICES ASSUME Init PROVE IInv
  OBVIOUS
<1> QED
  BY ConfigAssumption
     DEF Init, IInv, TypeOK, CircuitState, ClosedBelowThreshold, HalfOpenWithinQuota, AgeBound,
         AtLeastOne, TimeBound

(* Every step keeps the inductive invariant. *)
LEMMA InvStep == IInv /\ [Next]_vars => IInv'
<1> SUFFICES ASSUME IInv, [Next]_vars PROVE IInv'
  OBVIOUS
<1> USE ConfigAssumption
    DEF IInv, TypeOK, CircuitState, ClosedBelowThreshold, HalfOpenWithinQuota, AgeBound,
        AtLeastOne, TimeBound, breaker
<1>1. ASSUME NEW c \in Callers, AdmitClosed(c) PROVE IInv'
  BY <1>1 DEF AdmitClosed
<1>2. ASSUME NEW c \in Callers, AdmitFirstTrial(c) PROVE IInv'
  <2>1. Trials' = {c}
    BY <1>2 DEF AdmitFirstTrial, Trials
  <2>2. Cardinality(Trials') = 1
    BY <2>1, FS_Singleton
  <2> QED
    BY <1>2, <2>2 DEF AdmitFirstTrial
<1>3. ASSUME NEW c \in Callers, AdmitTrial(c) PROVE IInv'
  <2>1. Cardinality(Trials') = Cardinality(Trials) + 1
    BY <1>3, TrialAdmitted DEF AdmitTrial
  <2> QED
    BY <1>3, <2>1, TrialsCount DEF AdmitTrial
<1>4. ASSUME NEW c \in Callers, SucceedClosed(c) PROVE IInv'
  BY <1>4 DEF SucceedClosed, Return
<1>5. ASSUME NEW c \in Callers, SucceedHalfOpen(c) PROVE IInv'
  <2>1. Cardinality(Trials') =
          Cardinality(Trials) - (IF call[c] = "trial" THEN 1 ELSE 0)
    BY <1>5, TrialReturns DEF SucceedHalfOpen
  <2>2. call' \in [Callers -> {"idle", "earlier", "trial"}]
    BY <1>5 DEF SucceedHalfOpen, Return
  <2> QED
    BY <1>5, <2>1, <2>2, TrialsCount DEF SucceedHalfOpen
<1>6. ASSUME NEW c \in Callers, FailClosed(c) PROVE IInv'
  BY <1>6 DEF FailClosed, OpenCircuit, Return
<1>7. ASSUME NEW c \in Callers, FailHalfOpen(c) PROVE IInv'
  BY <1>7 DEF FailHalfOpen, OpenCircuit, Return
<1>8. ASSUME NEW c \in Callers, ReportOpen(c) PROVE IInv'
  BY <1>8 DEF ReportOpen, Return
<1>9. ASSUME NEW c \in Callers, LoseResult(c) PROVE IInv'
  <2>1. Cardinality(Trials') =
          Cardinality(Trials) - (IF call[c] = "trial" THEN 1 ELSE 0)
    BY <1>9, TrialReturns DEF LoseResult
  <2>2. call' \in [Callers -> {"idle", "earlier", "trial"}]
    BY <1>9 DEF LoseResult, Return
  <2> QED
    BY <1>9, <2>1, <2>2, TrialsCount DEF LoseResult
<1>10. CASE Reset
  BY <1>10 DEF Reset
<1>11. CASE Tick
  BY <1>11 DEF Tick
<1>12. CASE UNCHANGED vars
  BY <1>12 DEF vars, Trials
<1> QED
  BY <1>1, <1>2, <1>3, <1>4, <1>5, <1>6, <1>7, <1>8, <1>9, <1>10, <1>11, <1>12
     DEF Next, AllowRequest, Report, RecordSuccess, RecordFailure

(* Every variable of the breaker keeps its type, for any configuration. *)
THEOREM BreakerTypeCorrect == Spec => []TypeOK
<1>1. IInv => TypeOK
  BY DEF IInv
<1> QED
  BY <1>1, InvInit, InvStep, PTL DEF Spec

(* A closed circuit has counted fewer failures than the threshold. *)
THEOREM ClosedIsHealthy == Spec => []ClosedBelowThreshold
<1>1. IInv => ClosedBelowThreshold
  BY DEF IInv
<1> QED
  BY <1>1, InvInit, InvStep, PTL DEF Spec

(* The trials of a half-open period stay within its quota. *)
THEOREM QuotaKept == Spec => []HalfOpenWithinQuota
<1>1. IInv => HalfOpenWithinQuota
  BY DEF IInv
<1> QED
  BY <1>1, InvInit, InvStep, PTL DEF Spec

(* No trial is admitted before the recovery timeout, up to a reading's age. *)
THEOREM FailsFast == Spec => FailFast
<1>1. IInv /\ [Next]_vars =>
        [state = "Open" /\ state' = "HalfOpen" => openFor >= RecoveryTimeout - MaxSkew]_vars
  <2> SUFFICES ASSUME IInv, Next, state = "Open", state' = "HalfOpen"
               PROVE  openFor >= RecoveryTimeout - MaxSkew
    OBVIOUS
  <2>1. PICK c \in Callers : AdmitFirstTrial(c)
    BY DEF Next, AllowRequest, Report, RecordSuccess, RecordFailure, AdmitClosed,
           AdmitTrial, SucceedClosed, SucceedHalfOpen, FailClosed, FailHalfOpen,
           ReportOpen, LoseResult, Reset, Tick, breaker, OpenCircuit
  <2> QED
    BY <2>1, ConfigAssumption DEF AdmitFirstTrial, IInv, AgeBound, TypeOK, TimeBound
<1> QED
  BY <1>1, InvInit, InvStep, PTL DEF Spec, FailFast

=============================================================================
