---------------------------- MODULE Backpressure ----------------------------
(***************************************************************************)
(* Watermark flow control (src/src/backpressure.rs).  Several gates admit  *)
(* requests: a gate asks evaluate, and if the answer is not Reject calls   *)
(* on_request_start some time later, while other gates do the same; the    *)
(* request then runs on its own until on_request_complete.  The controller *)
(* takes &mut self, so each call is atomic and a gate's two are not.       *)
(*                                                                         *)
(* The ratios of the code are compared as counts: inflight / max_inflight  *)
(* >= high_watermark exactly when inflight >= HighMark, and <=             *)
(* low_watermark exactly when inflight <= LowMark.  rejected_count and     *)
(* throttled_count, statistics, are left out.                              *)
(***************************************************************************)
EXTENDS Integers, FiniteSets

CONSTANTS
  Gates,       \* the threads that admit requests
  MaxInflight, \* BackpressureConfig::max_inflight
  HighMark,    \* high_watermark, in requests (rounded up)
  LowMark,     \* low_watermark, in requests (rounded down)
  MaxQueueLen, \* BackpressureConfig::max_queue_len
  QueueLens    \* the lengths update_queue_len is called with

ASSUME ConfigAssumption ==
  /\ IsFiniteSet(Gates)
  /\ MaxInflight \in Nat /\ HighMark \in Nat /\ LowMark \in Nat
  /\ MaxQueueLen \in Nat /\ QueueLens \subseteq Nat

VARIABLES
  inflight,
  queueLen,
  throttling,
  gate,       \* a gate is idle or holds an answer it has not acted on yet
  seen        \* history, since inflight was last at or below the low mark:
              \* whether an evaluation found the high mark reached
              \* ("throttled" if one answered Throttle, else "rejected")

vars == <<inflight, queueLen, throttling, gate, seen>>

FlowAction == {"allow", "throttle", "reject"}

Admitted == {g \in Gates : gate[g] # "idle"}

Init ==
  /\ inflight = 0 /\ queueLen = 0 /\ throttling = FALSE
  /\ gate = [g \in Gates |-> "idle"]
  /\ seen = "low"

(* Mutant of Saturated: only more than max_inflight is too many. *)
SaturatedPastMax == queueLen >= MaxQueueLen \/ inflight > MaxInflight

Saturated == queueLen >= MaxQueueLen \/ inflight >= MaxInflight

-----------------------------------------------------------------------------
(* evaluate: the early return, which leaves throttling alone. *)
EvaluateReject(g) ==
  /\ gate[g] = "idle" /\ Saturated
  /\ seen' = IF inflight >= HighMark /\ inflight > LowMark /\ seen = "low"
             THEN "rejected" ELSE seen
  /\ UNCHANGED <<inflight, queueLen, throttling, gate>>

(* Mutant of Throttled: throttling is lifted as soon as below the high mark. *)
ThrottledOneMark == inflight >= HighMark

(* The hysteresis. *)
Throttled == IF inflight >= HighMark THEN TRUE
             ELSE IF inflight <= LowMark THEN FALSE
             ELSE throttling

EvaluateAdmit(g) ==
  /\ gate[g] = "idle" /\ ~Saturated
  /\ throttling' = Throttled
  /\ gate' = [gate EXCEPT ![g] = IF throttling' THEN "throttle" ELSE "allow"]
  /\ seen' = IF throttling' /\ inflight > LowMark THEN "throttled" ELSE seen
  /\ UNCHANGED <<inflight, queueLen>>

(* on_request_start, when the gate gets to it. *)
RequestStart(g) ==
  /\ gate[g] # "idle"
  /\ gate' = [gate EXCEPT ![g] = "idle"]
  /\ inflight' = inflight + 1
  /\ UNCHANGED <<queueLen, throttling, seen>>

(* Mutant of RequestComplete: a completion is counted by response and drop. *)
RequestCompleteTwice ==
  /\ inflight > 0
  /\ inflight' = inflight - 2
  /\ seen' = IF inflight' <= LowMark THEN "low" ELSE seen
  /\ UNCHANGED <<queueLen, throttling, gate>>

(* on_request_complete of one of the requests that run. *)
RequestComplete ==
  /\ inflight > 0
  /\ inflight' = inflight - 1
  /\ seen' = IF inflight' <= LowMark THEN "low" ELSE seen
  /\ UNCHANGED <<queueLen, throttling, gate>>

UpdateQueueLen(len) ==
  /\ queueLen' = len
  /\ UNCHANGED <<inflight, throttling, gate, seen>>

Next ==
  \/ \E g \in Gates : EvaluateReject(g) \/ EvaluateAdmit(g) \/ RequestStart(g)
  \/ RequestComplete
  \/ \E len \in QueueLens : UpdateQueueLen(len)

Spec == Init /\ [][Next]_vars

-----------------------------------------------------------------------------
(* Every variable keeps its type; inflight is a u64 (struct                *)
(* BackpressureController).                                                *)
TypeOK ==
  /\ inflight \in Nat /\ queueLen \in Nat
  /\ throttling \in BOOLEAN
  /\ gate \in [Gates -> {"idle"} \cup (FlowAction \ {"reject"})]
  /\ seen \in {"low", "throttled", "rejected"}

(* The limit is checked by evaluate and counted by on_request_start, so    *)
(* gates that were admitted together overshoot it: never by more than the  *)
(* other gates, counting those that have not started yet.                  *)
OvershootBound ==
  inflight + Cardinality(Admitted) <=
    (IF MaxInflight = 0 THEN 0 ELSE MaxInflight - 1 + Cardinality(Gates))

(* No flapping: once a gate was told to throttle, no gate is told Allow    *)
(* before inflight has been down at the low watermark, whatever is         *)
(* rejected, started or completed in between (evaluate).                   *)
NoFlap ==
  [][\A g \in Gates :
       gate[g] = "idle" /\ gate'[g] = "allow" => seen # "throttled"]_vars

(* backpressure.rs:103 says "hysteresis: throttling starts when high is    *)
(* exceeded, and is lifted when below low": once an evaluation has found   *)
(* the high mark reached, none answers Allow before the low one is.        *)
HighMarkStartsThrottling ==
  [][\A g \in Gates :
       gate[g] = "idle" /\ gate'[g] = "allow" => seen = "low"]_vars

=============================================================================
