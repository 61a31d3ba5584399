------------------------- MODULE BackpressureProofs -------------------------
(***************************************************************************)
(* Theorems about Backpressure, for every number of gates and every        *)
(* configuration, low watermarks above high ones included.                 *)
(***************************************************************************)
EXTENDS Backpressure, FiniteSetTheorems, TLAPS

USE DEF FlowAction

(* An answer to throttle stays in force above the low mark. *)
ThrottleHolds == seen = "throttled" => throttling /\ inflight > LowMark

IInv == TypeOK /\ OvershootBound /\ ThrottleHolds

(* The admitted packets are finitely many, and no more than the gates. *)
LEMMA AdmittedFinite ==
  /\ IsFiniteSet(Gates) /\ Cardinality(Gates) \in Nat
  /\ IsFiniteSet(Admitted) /\ Cardinality(Admitted) \in Nat
  /\ Cardinality(Admitted) <= Cardinality(Gates)
BY ConfigAssumption, FS_Subset, FS_CardinalityType DEF Admitted

(* A gate that gets an answer adds one admitted packet. *)
LEMMA GateAdmitted ==
  ASSUME TypeOK, NEW g \in Gates, gate[g] = "idle",
         NEW answer \in {"allow", "throttle"},
         gate' = [gate EXCEPT ![g] = answer]
  PROVE  /\ Cardinality(Admitted') = Cardinality(Admitted) + 1
         /\ Cardinality(Admitted') <= Cardinality(Gates)
<1>1. Admitted' = Admitted \cup {g} /\ g \notin Admitted
  BY DEF Admitted, TypeOK
<1>2. Admitted' \subseteq Gates
  BY DEF Admitted
<1> QED
  BY <1>1, <1>2, AdmittedFinite, FS_AddElement, FS_Subset

(* A gate whose packet has started is admitted no longer. *)
LEMMA GateStarts ==
  ASSUME TypeOK, NEW g \in Gates, gate[g] # "idle",
         gate' = [gate EXCEPT ![g] = "idle"]
  PROVE  Cardinality(Admitted') = Cardinality(Admitted) - 1
<1>1. Admitted' = Admitted \ {g} /\ g \in Admitted
  BY DEF Admitted, TypeOK
<1> QED
  BY <1>1, AdmittedFinite, FS_RemoveElement

(* The hysteresis answers yes or no, and yes while throttling holds. *)
LEMMA ThrottledFacts ==
  ASSUME IInv
  PROVE  Throttled \in BOOLEAN /\ (seen = "throttled" => Throttled)
<1>1. CASE inflight >= HighMark
  BY <1>1 DEF Throttled
<1>2. CASE ~(inflight >= HighMark) /\ inflight <= LowMark
  <2>1. Throttled = FALSE
    BY <1>2 DEF Throttled
  <2>2. seen # "throttled"
    BY <1>2, ConfigAssumption DEF IInv, TypeOK, ThrottleHolds
  <2> QED
    BY <2>1, <2>2
<1>3. CASE ~(inflight >= HighMark) /\ ~(inflight <= LowMark)
  <2>1. Throttled = throttling
    BY <1>3 DEF Throttled
  <2>2. throttling \in BOOLEAN /\ (seen = "throttled" => throttling)
    BY Zenon DEF IInv, TypeOK, ThrottleHolds
  <2> QED
    BY <2>1, <2>2, Zenon
<1> QED
  BY <1>1, <1>2, <1>3

(* The initial states satisfy the inductive invariant. *)
LEMMA InvInit == Init => IInv
<1> SUFFICES ASSUME Init PROVE IInv
  OBVIOUS
<1>1. Admitted = {}
  BY DEF Init, Admitted
<1>2. Cardinality(Admitted) = 0
  BY <1>1, FS_EmptySet
<1>3. inflight = 0 /\ seen = "low" /\ TypeOK
  BY DEF Init, TypeOK
<1>4. OvershootBound
  BY <1>2, <1>3, AdmittedFinite, ConfigAssumption DEF OvershootBound
<1> QED
  BY <1>3, <1>4 DEF IInv, ThrottleHolds

(* Every step keeps the inductive invariant. *)
LEMMA InvStep == IInv /\ [Next]_vars => IInv'
<1> SUFFICES ASSUME IInv, [Next]_vars PROVE IInv'
  OBVIOUS
<1> USE ConfigAssumption DEF IInv, TypeOK, ThrottleHolds
<1>1. ASSUME NEW g \in Gates, EvaluateReject(g) PROVE IInv'
  <2>1. Admitted' = Admitted
    BY <1>1 DEF EvaluateReject, Admitted
  <2>2. UNCHANGED <<inflight, queueLen, throttling, gate>>
    BY <1>1 DEF EvaluateReject
  <2>3. seen' \in {seen, "rejected"}
    BY <1>1 DEF EvaluateReject
  <2>4. OvershootBound'
    BY <2>1, <2>2 DEF OvershootBound
  <2>5. TypeOK'
    BY <2>2, <2>3
  <2>6. ThrottleHolds'
    BY <2>2, <2>3
  <2> QED
    BY <2>4, <2>5, <2>6
<1>2. ASSUME NEW g \in Gates, EvaluateAdmit(g) PROVE IInv'
  <2>1. Throttled \in BOOLEAN /\ (seen = "throttled" => Throttled)
    BY ThrottledFacts
  <2>2. PICK answer \in {"allow", "throttle"} : gate' = [gate EXCEPT ![g] = answer]
    BY <1>2 DEF EvaluateAdmit
  <2>3. TypeOK' /\ ThrottleHolds'
    BY <1>2, <2>1, <2>2 DEF EvaluateAdmit
  <2>4. /\ Cardinality(Admitted') <= Cardinality(Gates)
        /\ Cardinality(Admitted') = Cardinality(Admitted) + 1
    BY <1>2, <2>2, GateAdmitted DEF EvaluateAdmit
  <2>5. inflight' = inflight /\ inflight < MaxInflight
    BY <1>2 DEF EvaluateAdmit, Saturated
  <2>6. OvershootBound'
    BY <2>4, <2>5, AdmittedFinite DEF OvershootBound
  <2> QED
    BY <2>3, <2>6
<1>3. ASSUME NEW g \in Gates, RequestStart(g) PROVE IInv'
  <2>1. Cardinality(Admitted') = Cardinality(Admitted) - 1
    BY <1>3, GateStarts DEF RequestStart
  <2> QED
    BY <1>3, <2>1, AdmittedFinite DEF RequestStart, OvershootBound
<1>4. CASE RequestComplete
  <2>1. Admitted' = Admitted
    BY <1>4 DEF RequestComplete, Admitted
  <2> QED
    BY <1>4, <2>1, AdmittedFinite DEF RequestComplete, OvershootBound
<1>5. ASSUME NEW len \in QueueLens, UpdateQueueLen(len) PROVE IInv'
  <2>1. Admitted' = Admitted
    BY <1>5 DEF UpdateQueueLen, Admitted
  <2> QED
    BY <1>5, <2>1 DEF UpdateQueueLen, OvershootBound
<1>6. CASE UNCHANGED vars
  <2>1. Admitted' = Admitted
    BY <1>6 DEF vars, Admitted
  <2> QED
    BY <1>6, <2>1 DEF vars, OvershootBound
<1> QED
  BY <1>1, <1>2, <1>3, <1>4, <1>5, <1>6 DEF Next

(* Every variable of the controller keeps its type. *)
THEOREM FlowTypeCorrect == Spec => []TypeOK
<1>1. IInv => TypeOK
  BY DEF IInv
<1> QED
  BY <1>1, InvInit, InvStep, PTL DEF Spec

(* Gates admitted together overshoot the limit by at most their number     *)
(* less one.                                                               *)
THEOREM OvershootBounded == Spec => []OvershootBound
<1>1. IInv => OvershootBound
  BY DEF IInv
<1> QED
  BY <1>1, InvInit, InvStep, PTL DEF Spec

(* No gate is told Allow between a Throttle and the low watermark. *)
THEOREM ThrottlingDoesNotFlap == Spec => NoFlap
<1>1. IInv /\ [Next]_vars =>
        [\A g \in Gates :
           gate[g] = "idle" /\ gate'[g] = "allow" => seen # "throttled"]_vars
  <2> SUFFICES ASSUME IInv, Next, NEW g \in Gates, gate[g] = "idle", gate'[g] = "allow",
                      seen = "throttled"
               PROVE  FALSE
    OBVIOUS
  <2>1. EvaluateAdmit(g)
    BY DEF Next, EvaluateReject, EvaluateAdmit, RequestStart, RequestComplete,
           UpdateQueueLen, IInv, TypeOK
  <2>2. Throttled
    BY ThrottledFacts
  <2> QED
    BY <2>1, <2>2 DEF EvaluateAdmit, IInv, TypeOK
<1> QED
  BY <1>1, InvInit, InvStep, PTL DEF Spec, NoFlap

=============================================================================
