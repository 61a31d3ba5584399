---------------------------- MODULE RateLimiter ----------------------------
(***************************************************************************)
(* Per-device token buckets (src/src/rate_limiter.rs).  A request costs    *)
(* Cost units and a tick refills Rate units, so that the f64 rate of the   *)
(* code is the ratio Rate / Cost and the arithmetic is exact.  The caller  *)
(* passes the time in; it read its clock up to MaxSkew ago, so with        *)
(* several callers the readings a bucket sees need not be monotone.        *)
(*                                                                         *)
(* total_rejected, a statistic, is left out.                               *)
(***************************************************************************)
EXTENDS Integers

CONSTANTS
  Devices,
  Rate,            \* units refilled per tick (requests_per_second)
  Cost,            \* units per request
  Burst,           \* RateLimiterConfig::burst_size, in requests
  PurgeThresholds, \* the values purge_inactive is called with, in ticks
  NoBucket,        \* a device without a limiter
  MaxSkew,         \* how old a clock reading may be when it is used
  MaxTime,         \* bound: the last tick
  MaxEarly         \* bound: the early purges of a device in one window

Full == Burst * Cost

(* purge_inactive takes any threshold, a negative one as well.             *)
ASSUME RateAssumption ==
  /\ Rate \in Nat /\ Cost \in Nat \ {0} /\ Burst \in Nat
  /\ PurgeThresholds \subseteq Int
  /\ MaxSkew \in Nat /\ MaxTime \in Nat /\ MaxEarly \in Nat
  /\ NoBucket \notin [tokens : Int, last : Int]

VARIABLES
  now,
  bucket, \* limiters: device -> its RateLimiter
  window, \* history: per device a moment from which its granted requests
          \* are counted, their number, and how often a purge since then
          \* took its bucket before that had filled up
  granted \* history: the reading at which a device was last granted

vars == <<now, bucket, window, granted>>

(* struct RateLimiter: at most the burst, and not updated in the future. *)
Bucket == [tokens : 0..Full, last : 0..now]

LesserOf(a, b) == IF a <= b THEN a ELSE b
GreaterOf(a, b) == IF a >= b THEN a ELSE b

Init ==
  /\ now = 0
  /\ bucket = [d \in Devices |-> NoBucket]
  /\ window = [d \in Devices |-> [start |-> 0, count |-> 0, early |-> 0]]
  /\ granted = [d \in Devices |-> 0]

(* Mutants of Refill: the burst does not cap the tokens; last_update stays; *)
(* only whole tokens are credited.                                         *)
RefillUncapped(b, t) ==
  [tokens |-> b.tokens + GreaterOf(t - b.last, 0) * Rate, last |-> t]

RefillKeepingTime(b, t) ==
  [tokens |-> LesserOf(b.tokens + GreaterOf(t - b.last, 0) * Rate, Full), last |-> b.last]

RefillWholeTokens(b, t) ==
  [tokens |-> LesserOf(b.tokens + ((GreaterOf(t - b.last, 0) * Rate) \div Cost) * Cost,
                       Full),
   last |-> t]

(* RateLimiter::refill at the reading t. *)
Refill(b, t) ==
  [tokens |-> LesserOf(b.tokens + GreaterOf(t - b.last, 0) * Rate, Full), last |-> t]

(* The device's limiter, a new and full one if it has none, after refill. *)
Refilled(d, t) ==
  Refill(IF bucket[d] = NoBucket THEN [tokens |-> Full, last |-> t] ELSE bucket[d], t)

(* DeviceRateLimiter::try_acquire *)
Grant(d, t) ==
  LET b == Refilled(d, t) IN
  /\ b.tokens >= Cost
  /\ bucket' = [bucket EXCEPT ![d] = [b EXCEPT !.tokens = @ - Cost]]
  /\ window' = [window EXCEPT ![d].count = @ + 1]
  /\ granted' = [granted EXCEPT ![d] = t]
  /\ UNCHANGED now

Refuse(d, t) ==
  LET b == Refilled(d, t) IN
  /\ b.tokens < Cost
  /\ bucket' = [bucket EXCEPT ![d] = b]
  /\ UNCHANGED <<now, window, granted>>

(* remove_device forgives the device what it used. *)
RemoveDevice(d) ==
  /\ bucket[d] # NoBucket
  /\ bucket' = [bucket EXCEPT ![d] = NoBucket]
  /\ window' = [window EXCEPT ![d] = [start |-> now, count |-> 0, early |-> 0]]
  /\ UNCHANGED <<now, granted>>

Inactive(t, threshold) ==
  {d \in Devices : bucket[d] # NoBucket /\ t - bucket[d].last >= threshold}

(* The devices whose bucket would not be full at the reading t: a purge    *)
(* gives them their burst back before the rate has earned it.              *)
NotFull(t) ==
  {d \in Devices : bucket[d] # NoBucket
                     /\ bucket[d].tokens + (t - bucket[d].last) * Rate < Full}

PurgeInactive(t, threshold) ==
  LET purged == Inactive(t, threshold) early == purged \cap NotFull(t) IN
  /\ \A d \in early : window[d].early < MaxEarly
  /\ bucket' = [d \in Devices |-> IF d \in purged THEN NoBucket ELSE bucket[d]]
  /\ window' = [d \in Devices |->
                  IF d \in early THEN [window[d] EXCEPT !.early = @ + 1] ELSE window[d]]
  /\ UNCHANGED <<now, granted>>

Tick ==
  /\ now < MaxTime /\ now' = now + 1
  /\ UNCHANGED <<bucket, window, granted>>

(* The observer starts counting anew. *)
OpenWindow(d) ==
  /\ window' = [window EXCEPT ![d] = [start |-> now, count |-> 0, early |-> 0]]
  /\ UNCHANGED <<now, bucket, granted>>

Readings == GreaterOf(now - MaxSkew, 0)..now

Next ==
  \/ \E d \in Devices, t \in Readings : Grant(d, t) \/ Refuse(d, t)
  \/ \E d \in Devices : RemoveDevice(d) \/ OpenWindow(d)
  \/ \E t \in Readings, threshold \in PurgeThresholds : PurgeInactive(t, threshold)
  \/ Tick

Spec == Init /\ [][Next]_vars

-----------------------------------------------------------------------------
(* Every variable keeps its type: a bucket holds at most the burst and was *)
(* not updated in the future (struct RateLimiter).                         *)
TypeOK ==
  /\ now \in 0..MaxTime
  /\ bucket \in [Devices -> Bucket \cup {NoBucket}]
  /\ window \in [Devices -> [start : 0..now, count : Nat, early : 0..MaxEarly]]
  /\ granted \in [Devices -> 0..now]

(* The promise of a token bucket: from any moment on, a device is granted  *)
(* no more than the burst and what the rate allows for the time since (and *)
(* for the age of a reading), however its requests are spaced and buckets  *)
(* are purged.  A purge costs one burst more when it comes before the      *)
(* bucket has filled up, and nothing otherwise (rate_limiter.rs:10-12,     *)
(* try_acquire, purge_inactive).                                           *)
RateBound ==
  \A d \in Devices :
    window[d].count * Cost
      <= Full * (1 + window[d].early) + Rate * (now - window[d].start + MaxSkew)

(* A device is refused only before the rate has earned it one request      *)
(* since its last granted one: however often it asks meanwhile, refusals   *)
(* cost it nothing and no earned fraction of a token is lost.              *)
WaitingSuffices ==
  \A d \in Devices :
    Burst > 0 /\ bucket[d] # NoBucket /\ bucket[d].tokens < Cost
      => (bucket[d].last - granted[d]) * Rate < Cost

=============================================================================
