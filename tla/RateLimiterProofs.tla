------------------------- MODULE RateLimiterProofs -------------------------
(***************************************************************************)
(* Theorems about RateLimiter, for every rate, cost, burst and set of      *)
(* devices, and for every time bound.                                      *)
(***************************************************************************)
EXTENDS RateLimiter, TLAPS

USE DEF Bucket

(* A full bucket is a natural number of tokens, and pays for a packet if *)
(* it can hold one.                                                      *)
LEMMA FullType == Full \in Nat /\ (Burst > 0 => Cost <= Full)
<1>1. ASSUME NEW a \in Nat, NEW b \in Nat PROVE a * b \in Nat /\ (a > 0 => b <= a * b)
  OBVIOUS
<1> QED
  BY <1>1, RateAssumption DEF Full

(* Rate times a longer time is more. *)
LEMMA RateMonotone ==
  ASSUME NEW a \in Int, NEW b \in Int, a <= b
  PROVE  a * Rate <= b * Rate /\ a * Rate \in Int /\ b * Rate \in Int
<1>1. ASSUME NEW c \in Nat, NEW r \in Nat PROVE c * r >= 0
  OBVIOUS
<1>2. (b - a) * Rate >= 0
  BY <1>1, RateAssumption
<1> QED
  BY <1>2, RateAssumption

(* What refilling a device's bucket at the reading t yields. *)
LEMMA RefilledFacts ==
  ASSUME TypeOK, NEW d \in Devices, NEW t \in 0..now
  PROVE  /\ Refilled(d, t) \in Bucket
         /\ Refilled(d, t).last = t
         /\ bucket[d] = NoBucket => Refilled(d, t).tokens = Full
         /\ bucket[d] # NoBucket =>
              /\ t >= bucket[d].last =>
                   Refilled(d, t).tokens <= bucket[d].tokens + (t - bucket[d].last) * Rate
              /\ \/ Refilled(d, t).tokens = Full
                 \/ Refilled(d, t).tokens =
                      bucket[d].tokens + GreaterOf(t - bucket[d].last, 0) * Rate
<1>1. CASE bucket[d] = NoBucket
  <2>1. Refilled(d, t) = [tokens |-> LesserOf(Full + GreaterOf(t - t, 0) * Rate, Full),
                          last |-> t]
    BY <1>1 DEF Refilled, Refill
  <2>2. GreaterOf(t - t, 0) = 0 /\ 0 * Rate = 0
    BY RateAssumption DEF GreaterOf
  <2>3. LesserOf(Full + GreaterOf(t - t, 0) * Rate, Full) = Full
    BY <2>2, FullType DEF LesserOf
  <2> QED
    BY <1>1, <2>1, <2>3, FullType DEF Bucket
<1>2. CASE bucket[d] # NoBucket
  <2> DEFINE e == GreaterOf(t - bucket[d].last, 0)
  <2>1. bucket[d].tokens \in 0..Full /\ bucket[d].last \in 0..now
    BY <1>2 DEF TypeOK
  <2>2. Refilled(d, t) = [tokens |-> LesserOf(bucket[d].tokens + e * Rate, Full), last |-> t]
    BY <1>2 DEF Refilled, Refill
  <2>3. e \in Nat /\ (t >= bucket[d].last => e = t - bucket[d].last)
    BY <2>1 DEF GreaterOf, TypeOK
  <2> HIDE DEF e
  <2>4. 0 * Rate <= e * Rate /\ e * Rate \in Int /\ 0 * Rate = 0
    BY <2>3, RateMonotone, RateAssumption
  <2>5. LET m == LesserOf(bucket[d].tokens + e * Rate, Full) IN
          /\ m \in 0..Full
          /\ m <= bucket[d].tokens + e * Rate
          /\ m = Full \/ m = bucket[d].tokens + e * Rate
    BY <2>1, <2>4, FullType DEF LesserOf
  <2> QED
    BY <1>2, <2>2, <2>3, <2>5 DEF Bucket, e
<1> QED
  BY <1>1, <1>2

(* A clock reading is never ahead of the clock. *)
LEMMA ReadingsInTime ==
  ASSUME TypeOK, NEW t \in Readings PROVE t \in 0..now
BY RateAssumption DEF TypeOK, Readings, GreaterOf

(* The types hold at the start. *)
LEMMA TypeInit == Init => TypeOK
BY RateAssumption DEF Init, TypeOK

(* Every step keeps the types. *)
LEMMA TypeStep == TypeOK /\ [Next]_vars => TypeOK'
<1> SUFFICES ASSUME TypeOK, [Next]_vars PROVE TypeOK'
  OBVIOUS
<1>1. ASSUME NEW d \in Devices, NEW t \in Readings, Grant(d, t) PROVE TypeOK'
  <2>1. t \in 0..now
    BY ReadingsInTime
  <2>2. Refilled(d, t) \in Bucket
    BY <2>1, RefilledFacts
  <2>3. [Refilled(d, t) EXCEPT !.tokens = @ - Cost] \in Bucket
    BY <1>1, <2>2, FullType, RateAssumption DEF Grant, Bucket
  <2> QED
    BY <1>1, <2>1, <2>3 DEF Grant, TypeOK, Bucket
<1>2. ASSUME NEW d \in Devices, NEW t \in Readings, Refuse(d, t) PROVE TypeOK'
  <2>1. Refilled(d, t) \in Bucket
    BY ReadingsInTime, RefilledFacts
  <2> QED
    BY <1>2, <2>1 DEF Refuse, TypeOK, Bucket
<1>3. ASSUME NEW d \in Devices, RemoveDevice(d) PROVE TypeOK'
  BY <1>3, RateAssumption DEF RemoveDevice, TypeOK
<1>4. ASSUME NEW d \in Devices, OpenWindow(d) PROVE TypeOK'
  BY <1>4, RateAssumption DEF OpenWindow, TypeOK
<1>5. ASSUME NEW t \in Readings, NEW n \in PurgeThresholds, PurgeInactive(t, n)
      PROVE  TypeOK'
  <2>1. bucket' \in [Devices -> Bucket \cup {NoBucket}] /\ now' = now /\ granted' = granted
    BY <1>5 DEF PurgeInactive, TypeOK
  <2>2. ASSUME NEW d \in Devices
        PROVE  window'[d] \in [start : 0..now, count : Nat, early : 0..MaxEarly]
    <3>1. window[d] \in [start : 0..now, count : Nat, early : 0..MaxEarly]
      BY DEF TypeOK
    <3>2. \/ window'[d] = window[d]
          \/ /\ window[d].early < MaxEarly
             /\ window'[d] = [window[d] EXCEPT !.early = @ + 1]
      BY <1>5 DEF PurgeInactive
    <3> QED
      BY <3>1, <3>2, RateAssumption
  <2>3. window' = [d \in Devices |-> window'[d]]
    BY <1>5 DEF PurgeInactive
  <2> QED
    BY <2>1, <2>2, <2>3 DEF TypeOK
<1>6. CASE Tick
  BY <1>6, RateAssumption DEF Tick, TypeOK
<1>7. CASE UNCHANGED vars
  BY <1>7 DEF vars, TypeOK
<1> QED
  BY <1>1, <1>2, <1>3, <1>4, <1>5, <1>6, <1>7 DEF Next

(* A bucket never holds more than the burst nor a time to come. *)
THEOREM LimiterTypeCorrect == Spec => []TypeOK
BY TypeInit, TypeStep, PTL DEF Spec

-----------------------------------------------------------------------------
(* The tokens left are the burst, or at least what the rate has earned     *)
(* since the last granted request.                                         *)
EarnedInv ==
  \A d \in Devices : bucket[d] # NoBucket =>
    \/ bucket[d].tokens = Full
    \/ bucket[d].tokens >= (bucket[d].last - granted[d]) * Rate

(* Every step keeps a bucket full, or with at least what it earned since *)
(* its last grant.                                                       *)
LEMMA EarnedStep == TypeOK /\ EarnedInv /\ [Next]_vars => EarnedInv'
<1> SUFFICES ASSUME TypeOK, EarnedInv, [Next]_vars PROVE EarnedInv'
  OBVIOUS
<1>1. ASSUME NEW d \in Devices, NEW t \in Readings, Grant(d, t) PROVE EarnedInv'
  <2>1. t \in 0..now
    BY ReadingsInTime
  <2>2. Refilled(d, t) \in Bucket /\ Refilled(d, t).last = t
    BY <2>1, RefilledFacts
  <2>3. /\ bucket'[d].last = t /\ granted'[d] = t
        /\ bucket'[d].tokens = Refilled(d, t).tokens - Cost
        /\ bucket'[d].tokens >= 0
        /\ \A e \in Devices \ {d} : bucket'[e] = bucket[e] /\ granted'[e] = granted[e]
    BY <1>1, <2>2, FullType, RateAssumption DEF Grant, TypeOK, Bucket
  <2>4. (bucket'[d].last - granted'[d]) * Rate = 0
    <3>1. t - t = 0 /\ 0 * Rate = 0
      BY <2>1, RateAssumption DEF TypeOK
    <3> QED
      BY <2>3, <3>1
  <2>5. ASSUME NEW e \in Devices, bucket'[e] # NoBucket
        PROVE  \/ bucket'[e].tokens = Full
               \/ bucket'[e].tokens >= (bucket'[e].last - granted'[e]) * Rate
    <3>1. CASE e = d
      BY <2>3, <2>4, <3>1
    <3>2. CASE e # d
      BY <2>3, <2>5, <3>2 DEF EarnedInv
    <3> QED
      BY <3>1, <3>2
  <2> QED
    BY <2>5 DEF EarnedInv
<1>2. ASSUME NEW d \in Devices, NEW t \in Readings, Refuse(d, t) PROVE EarnedInv'
  <2>1. t \in 0..now
    BY ReadingsInTime
  <2> DEFINE b == Refilled(d, t)
             early == bucket[d].last - granted[d]
             waited == GreaterOf(t - bucket[d].last, 0)
  <2>2. bucket' = [bucket EXCEPT ![d] = b] /\ granted' = granted
    BY <1>2 DEF Refuse
  <2>3. b \in Bucket /\ b.last = t
    BY <2>1, RefilledFacts
  <2>4. b.tokens = Full \/ b.tokens >= (t - granted[d]) * Rate
    <3>1. CASE bucket[d] = NoBucket \/ b.tokens = Full
      BY <2>1, <3>1, RefilledFacts
    <3>2. CASE bucket[d] # NoBucket /\ b.tokens # Full
      <4>1. b.tokens = bucket[d].tokens + waited * Rate
        BY <2>1, <3>2, RefilledFacts
      <4>2. /\ t \in Int /\ bucket[d].last \in Int /\ granted[d] \in Int
            /\ bucket[d].tokens \in 0..Full
        BY <2>1, <3>2, RateAssumption DEF TypeOK
      <4>3. waited \in Nat /\ early \in Int /\ t - granted[d] <= early + waited
        BY <4>2 DEF GreaterOf
      <4>4. (t - granted[d]) * Rate <= (early + waited) * Rate
        BY <4>2, <4>3, RateMonotone
      <4> HIDE DEF early, waited
      <4>5. (early + waited) * Rate = early * Rate + waited * Rate
        BY <4>3, RateAssumption
      <4>6. waited * Rate >= 0 /\ early * Rate \in Int /\ waited * Rate \in Int
        BY <4>3, RateMonotone, RateAssumption
      <4>7. bucket[d].tokens = Full \/ bucket[d].tokens >= early * Rate
        BY <3>2 DEF EarnedInv, early
      <4>8. b.tokens \in 0..Full
        BY <2>3 DEF Bucket
      <4>9. (t - granted[d]) * Rate \in Int
        BY <4>2, RateAssumption
      <4> HIDE DEF b
      <4> QED
        BY <3>2, <4>1, <4>2, <4>4, <4>5, <4>6, <4>7, <4>8, <4>9, FullType
    <3> QED
      BY <3>1, <3>2
  <2> HIDE DEF b
  <2> QED
    BY <2>2, <2>3, <2>4 DEF EarnedInv, TypeOK, Bucket
<1>3. ASSUME NEW d \in Devices, RemoveDevice(d) PROVE EarnedInv'
  BY <1>3 DEF RemoveDevice, EarnedInv
<1>4. ASSUME NEW d \in Devices, OpenWindow(d) PROVE EarnedInv'
  BY <1>4 DEF OpenWindow, EarnedInv
<1>5. ASSUME NEW t \in Readings, NEW n \in PurgeThresholds, PurgeInactive(t, n)
      PROVE  EarnedInv'
  BY <1>5 DEF PurgeInactive, EarnedInv
<1>6. CASE Tick
  BY <1>6 DEF Tick, EarnedInv
<1>7. CASE UNCHANGED vars
  BY <1>7 DEF vars, EarnedInv
<1> QED
  BY <1>1, <1>2, <1>3, <1>4, <1>5, <1>6, <1>7 DEF Next

(* A device is refused only before the rate has earned it one request.     *)
THEOREM RefusalsJustified == Spec => []WaitingSuffices
<1>1. Init => EarnedInv
  BY DEF Init, EarnedInv
<1>2. TypeOK /\ EarnedInv => WaitingSuffices
  <2> SUFFICES ASSUME TypeOK, EarnedInv, NEW d \in Devices, Burst > 0,
                      bucket[d] # NoBucket, bucket[d].tokens < Cost
               PROVE  (bucket[d].last - granted[d]) * Rate < Cost
    BY DEF WaitingSuffices
  <2>1. /\ bucket[d].tokens \in Int
        /\ (bucket[d].last - granted[d]) * Rate \in Int
    BY FullType, RateAssumption DEF TypeOK
  <2>2. Cost \in Int /\ Cost <= Full /\ Full \in Int
    BY FullType, RateAssumption
  <2>3. \/ bucket[d].tokens = Full
        \/ bucket[d].tokens >= (bucket[d].last - granted[d]) * Rate
    BY DEF EarnedInv
  <2> QED
    BY <2>1, <2>2, <2>3
<1> QED
  BY <1>1, <1>2, TypeInit, TypeStep, EarnedStep, PTL DEF Spec

-----------------------------------------------------------------------------
(* What a window may have granted besides what the rate has earned. *)
Bursts(d) == Full * (1 + window[d].early)

(* With readings that are never old, what a window has granted and what    *)
(* the bucket still holds come out of the burst, one more for each purge   *)
(* before the bucket had filled up, and the rate since the window opened;  *)
(* a bucket that is gone had filled up or is counted as an early purge.    *)
RateInv ==
  \A d \in Devices :
    IF bucket[d] = NoBucket
    THEN window[d].count * Cost + Full <= Bursts(d) + (now - window[d].start) * Rate
    ELSE \/ window[d].count = 0
         \/ /\ bucket[d].last >= window[d].start
            /\ window[d].count * Cost + bucket[d].tokens
                 <= Bursts(d) + (bucket[d].last - window[d].start) * Rate

(* The bursts are a number, at least one of them, and one more with every  *)
(* early purge.                                                            *)
LEMMA BurstsType ==
  ASSUME TypeOK, NEW d \in Devices PROVE Bursts(d) \in Nat /\ Full <= Bursts(d)
<1>1. ASSUME NEW a \in Nat, NEW e \in Nat PROVE a * (1 + e) \in Nat /\ a <= a * (1 + e)
  <2>1. a * (1 + e) = a + a * e /\ a * e \in Nat
    OBVIOUS
  <2> QED
    BY <2>1
<1>2. window[d].early \in Nat
  BY RateAssumption DEF TypeOK
<1> QED
  BY <1>1, <1>2, FullType DEF Bursts

(* Refilling a bucket at the present time keeps the sum within the bound.  *)
LEMMA RefillBound ==
  ASSUME TypeOK, RateInv, NEW d \in Devices
  PROVE  \/ window[d].count = 0
         \/ window[d].count * Cost + Refilled(d, now).tokens
              <= Bursts(d) + (now - window[d].start) * Rate
<1> DEFINE b == Refilled(d, now)
           w == window[d]
<1>1. /\ now \in Nat /\ w.count \in Nat /\ w.start \in 0..now
      /\ w.count * Cost \in Int
      /\ (now - w.start) * Rate \in Int
      /\ Full \in Nat /\ Bursts(d) \in Nat
  BY FullType, BurstsType, RateAssumption DEF TypeOK
<1>2. b.tokens \in 0..Full
  BY <1>1, RefilledFacts DEF Bucket
<1>3. CASE bucket[d] = NoBucket
  <2>1. w.count * Cost + Full <= Bursts(d) + (now - w.start) * Rate
    BY <1>3 DEF RateInv
  <2>2. b.tokens = Full
    BY <1>1, <1>3, RefilledFacts
  <2> QED
    BY <1>1, <2>1, <2>2
<1>4. CASE bucket[d] # NoBucket /\ w.count # 0
  <2>1. bucket[d].last \in 0..now /\ bucket[d].tokens \in 0..Full
    BY <1>4 DEF TypeOK
  <2>2. b.tokens <= bucket[d].tokens + (now - bucket[d].last) * Rate
    BY <1>1, <1>4, <2>1, RefilledFacts
  <2>3. w.count * Cost + bucket[d].tokens <= Bursts(d) + (bucket[d].last - w.start) * Rate
    BY <1>4 DEF RateInv
  <2>4. (now - w.start) * Rate = (now - bucket[d].last) * Rate + (bucket[d].last - w.start) * Rate
    BY <1>1, <2>1, RateAssumption
  <2>5. (now - bucket[d].last) * Rate \in Int /\ (bucket[d].last - w.start) * Rate \in Int
    BY <1>1, <2>1, RateMonotone
  <2> QED
    BY <1>1, <1>2, <2>1, <2>2, <2>3, <2>4, <2>5
<1> QED
  BY <1>3, <1>4

(* Every step keeps what a window has spent within what it has earned, on *)
(* an exact clock.                                                        *)
LEMMA RateStep ==
  ASSUME MaxSkew = 0, TypeOK, RateInv, [Next]_vars
  PROVE  RateInv'
<1>1. \A t \in Readings : t = now
  BY RateAssumption DEF Readings, GreaterOf, TypeOK
<1>2. /\ now \in Nat /\ Full \in Nat
      /\ \A d \in Devices : /\ window[d].count \in Nat /\ window[d].start \in 0..now
                            /\ Bursts(d) \in Nat /\ Full <= Bursts(d)
  BY FullType, BurstsType DEF TypeOK
<1>3. ASSUME NEW d \in Devices, NEW t \in Readings, Grant(d, t) PROVE RateInv'
  <2> DEFINE b == Refilled(d, now)
  <2>1. t = now
    BY <1>1
  <2>2. b \in Bucket /\ b.last = now
    BY <1>2, RefilledFacts
  <2>3. /\ bucket' = [bucket EXCEPT ![d] = [b EXCEPT !.tokens = @ - Cost]]
        /\ window' = [window EXCEPT ![d].count = @ + 1]
        /\ now' = now
    BY <1>3, <2>1 DEF Grant
  <2>4. /\ \A e \in Devices \ {d} : bucket'[e] = bucket[e] /\ window'[e] = window[e]
        /\ bucket'[d].tokens = b.tokens - Cost /\ bucket'[d].last = now
        /\ window'[d].count = window[d].count + 1
        /\ window'[d].start = window[d].start
        /\ \A e \in Devices : Bursts(e)' = Bursts(e)
    BY <2>2, <2>3 DEF TypeOK, Bucket, Bursts
  <2>5. (window[d].count + 1) * Cost = window[d].count * Cost + Cost
    BY <1>2, RateAssumption
  <2>6. window[d].count * Cost + b.tokens <= Bursts(d) + (now - window[d].start) * Rate
    <3>1. CASE window[d].count = 0
      <4>1. 0 * Cost = 0 /\ (now - window[d].start) * Rate >= 0
        BY <1>2, RateMonotone, RateAssumption
      <4>2. b.tokens <= Full /\ b.tokens \in Int
        BY <2>2 DEF Bucket
      <4>3. (now - window[d].start) * Rate \in Int
        BY <1>2, RateMonotone
      <4> HIDE DEF b
      <4> QED
        BY <1>2, <3>1, <4>1, <4>2, <4>3
    <3>2. CASE window[d].count # 0
      BY <3>2, RefillBound
    <3> QED
      BY <3>1, <3>2
  <2>7. /\ b.tokens \in Int /\ window[d].count * Cost \in Int /\ Cost \in Int
        /\ (now - window[d].start) * Rate \in Int
    BY <1>2, <2>2, RateMonotone, RateAssumption DEF Bucket
  <2> HIDE DEF b
  <2>8. window'[d].count * Cost + bucket'[d].tokens
          <= Bursts(d)' + (bucket'[d].last - window'[d].start) * Rate
    BY <1>2, <2>4, <2>5, <2>6, <2>7
  <2>9. bucket'[d] # NoBucket
    <3>1. bucket'[d] \in [tokens : Int, last : Int]
      BY <2>2, <2>3, <2>7, <1>2, RateAssumption DEF TypeOK, Bucket
    <3> QED
      BY <3>1, RateAssumption
  <2>10. bucket'[d].last >= window'[d].start
    BY <1>2, <2>4
  <2> QED
    BY <2>3, <2>4, <2>8, <2>9, <2>10 DEF RateInv
<1>4. ASSUME NEW d \in Devices, NEW t \in Readings, Refuse(d, t) PROVE RateInv'
  <2> DEFINE b == Refilled(d, now)
  <2>1. b \in Bucket /\ b.last = now
    BY <1>2, RefilledFacts
  <2>2. bucket' = [bucket EXCEPT ![d] = b] /\ window' = window /\ now' = now
    BY <1>1, <1>4 DEF Refuse
  <2>3. \/ window[d].count = 0
        \/ window[d].count * Cost + b.tokens <= Bursts(d) + (now - window[d].start) * Rate
    BY RefillBound
  <2>4. b # NoBucket
    <3>1. b \in [tokens : Int, last : Int]
      BY <1>2, <2>1 DEF Bucket
    <3> QED
      BY <3>1, RateAssumption
  <2> HIDE DEF b
  <2>5. \A e \in Devices : Bursts(e)' = Bursts(e)
    BY <2>2 DEF Bursts
  <2> QED
    BY <1>2, <2>1, <2>2, <2>3, <2>4, <2>5 DEF RateInv, TypeOK
<1>5. ASSUME NEW d \in Devices,
             window'[d] = [start |-> now, count |-> 0, early |-> 0], now' = now
      PROVE  /\ window'[d].count = 0
             /\ window'[d].count * Cost + Full
                  <= Bursts(d)' + (now' - window'[d].start) * Rate
  <2>1. now - now = 0 /\ 0 * Rate = 0 /\ 0 * Cost = 0 /\ Full * (1 + 0) = Full
    BY <1>2, RateAssumption
  <2> QED
    BY <1>2, <1>5, <2>1 DEF Bursts
<1>6. ASSUME NEW d \in Devices, RemoveDevice(d) PROVE RateInv'
  <2>1. /\ window'[d] = [start |-> now, count |-> 0, early |-> 0] /\ now' = now
        /\ \A e \in Devices \ {d} :
             bucket'[e] = bucket[e] /\ window'[e] = window[e] /\ Bursts(e)' = Bursts(e)
    BY <1>6 DEF RemoveDevice, TypeOK, Bursts
  <2> QED
    BY <1>5, <2>1 DEF RateInv
<1>7. ASSUME NEW d \in Devices, OpenWindow(d) PROVE RateInv'
  <2>1. /\ window'[d] = [start |-> now, count |-> 0, early |-> 0] /\ now' = now
        /\ \A e \in Devices \ {d} :
             bucket'[e] = bucket[e] /\ window'[e] = window[e] /\ Bursts(e)' = Bursts(e)
    BY <1>7 DEF OpenWindow, TypeOK, Bursts
  <2> QED
    BY <1>5, <1>7, <2>1 DEF RateInv, OpenWindow
<1>8. ASSUME NEW t \in Readings, NEW n \in PurgeThresholds, PurgeInactive(t, n)
      PROVE  RateInv'
  <2>1. t = now /\ now' = now
    BY <1>1, <1>8 DEF PurgeInactive
  <2>2. ASSUME NEW d \in Devices \ Inactive(now, n)
        PROVE  bucket'[d] = bucket[d] /\ window'[d] = window[d] /\ Bursts(d)' = Bursts(d)
    BY <1>8, <2>1 DEF PurgeInactive, Bursts
  <2>3. ASSUME NEW d \in Inactive(now, n)
        PROVE  /\ bucket'[d] = NoBucket
               /\ window'[d].count * Cost + Full
                    <= Bursts(d)' + (now' - window'[d].start) * Rate
    <3> DEFINE w == window[d]
               b == bucket[d]
    <3>1. d \in Devices /\ b # NoBucket /\ bucket'[d] = NoBucket
      BY <1>8, <2>1 DEF Inactive, PurgeInactive
    <3>2. b.last \in 0..now /\ b.tokens \in 0..Full /\ w.early \in Nat
      BY <3>1, RateAssumption DEF TypeOK
    <3>3. /\ (now - b.last) * Rate \in Int /\ (b.last - w.start) * Rate \in Int
          /\ (now - w.start) * Rate \in Int /\ w.count * Cost \in Int
          /\ (now - w.start) * Rate = (now - b.last) * Rate + (b.last - w.start) * Rate
      BY <1>2, <3>1, <3>2, RateAssumption
    <3>4. /\ 0 * Cost = 0 /\ 0 * Rate = 0
          /\ 0 * Rate <= (now - w.start) * Rate /\ 0 * Rate <= (now - b.last) * Rate
      BY <1>2, <3>1, <3>2, RateMonotone, RateAssumption
    <3>5. \/ w.count = 0
          \/ w.count * Cost + b.tokens <= Bursts(d) + (b.last - w.start) * Rate
      BY <3>1 DEF RateInv
    <3>6. /\ d \notin NotFull(now) => window'[d] = w
          /\ d \in NotFull(now) => window'[d] = [w EXCEPT !.early = @ + 1]
      BY <1>8, <2>1, <3>1 DEF PurgeInactive
    <3>7. CASE d \notin NotFull(now)
      <4>1. b.tokens + (now - b.last) * Rate >= Full
        BY <1>2, <3>1, <3>2, <3>3, <3>7 DEF NotFull
      <4>2. window'[d] = w /\ Bursts(d)' = Bursts(d)
        BY <3>6, <3>7 DEF Bursts
      <4>3. w.count * Cost + Full <= Bursts(d) + (now - w.start) * Rate
        <5> HIDE DEF w, b
        <5> QED
          BY <1>2, <3>1, <3>2, <3>3, <3>4, <3>5, <4>1
      <4> QED
        BY <2>1, <3>1, <4>2, <4>3
    <3>8. CASE d \in NotFull(now)
      <4>1. /\ window'[d].count = w.count /\ window'[d].start = w.start
            /\ window'[d].early = w.early + 1
        BY <3>1, <3>6, <3>8 DEF TypeOK
      <4>2. Bursts(d)' = Bursts(d) + Full
        <5>1. \A a, e \in Nat : a * (1 + (e + 1)) = a * (1 + e) + a
          OBVIOUS
        <5> QED
          BY <1>2, <3>2, <4>1, <5>1 DEF Bursts
      <4>3. w.count * Cost + Full <= Bursts(d) + Full + (now - w.start) * Rate
        <5> HIDE DEF w, b
        <5> QED
          BY <1>2, <3>1, <3>2, <3>3, <3>4, <3>5
      <4> QED
        BY <2>1, <3>1, <4>1, <4>2, <4>3
    <3> QED
      BY <3>1, <3>7, <3>8
  <2> QED
    BY <2>1, <2>2, <2>3 DEF RateInv
<1>9. CASE Tick
  <2>1. now' = now + 1 /\ bucket' = bucket /\ window' = window
    BY <1>9 DEF Tick
  <2>2. ASSUME NEW d \in Devices
        PROVE  /\ (now - window[d].start) * Rate <= (now' - window[d].start) * Rate
               /\ (now - window[d].start) * Rate \in Int
               /\ (now' - window[d].start) * Rate \in Int
               /\ window[d].count * Cost \in Int /\ Bursts(d)' = Bursts(d)
    BY <1>2, <2>1, RateMonotone, RateAssumption DEF Bursts
  <2>3. ASSUME NEW d \in Devices,
               window[d].count * Cost + Full <= Bursts(d) + (now - window[d].start) * Rate
        PROVE  window[d].count * Cost + Full <= Bursts(d)' + (now' - window[d].start) * Rate
    BY <1>2, <2>2, <2>3
  <2> QED
    BY <2>1, <2>2, <2>3 DEF RateInv
<1>10. CASE UNCHANGED vars
  BY <1>10 DEF vars, RateInv, Bursts
<1> QED
  BY <1>3, <1>4, <1>6, <1>7, <1>8, <1>9, <1>10 DEF Next

(* Then no window lets more packets through than the rate allows. *)
LEMMA RateInvImpliesBound ==
  ASSUME MaxSkew = 0, TypeOK, RateInv PROVE RateBound
<1> SUFFICES ASSUME NEW d \in Devices
             PROVE  window[d].count * Cost
                      <= Bursts(d) + Rate * (now - window[d].start + MaxSkew)
  BY DEF RateBound, Bursts
<1> DEFINE w == window[d]
<1>1. /\ now \in Nat /\ Full \in Nat /\ w.count \in Nat /\ w.start \in 0..now
      /\ Bursts(d) \in Nat
      /\ w.count * Cost \in Int /\ (now - w.start) * Rate \in Int
      /\ (now - w.start) * Rate >= 0
  <2>1. now \in Nat /\ Full \in Nat /\ w.count \in Nat /\ w.start \in 0..now
    BY FullType DEF TypeOK
  <2>2. 0 * Rate = 0 /\ 0 * Rate <= (now - w.start) * Rate
    BY <2>1, RateMonotone, RateAssumption
  <2> QED
    BY <2>1, <2>2, BurstsType, RateAssumption
<1>2. Rate * (now - w.start + MaxSkew) = (now - w.start) * Rate
  BY <1>1, RateAssumption
<1>3. CASE bucket[d] = NoBucket
  BY <1>1, <1>2, <1>3 DEF RateInv
<1>4. CASE w.count = 0
  <2>1. 0 * Cost = 0
    BY RateAssumption
  <2> QED
    BY <1>1, <1>2, <1>4, <2>1
<1>5. CASE bucket[d] # NoBucket /\ w.count # 0
  <2>1. bucket[d].last \in 0..now /\ bucket[d].tokens \in 0..Full
    BY <1>5 DEF TypeOK
  <2>2. w.count * Cost + bucket[d].tokens <= Bursts(d) + (bucket[d].last - w.start) * Rate
    BY <1>5 DEF RateInv
  <2>3. /\ (bucket[d].last - w.start) * Rate <= (now - w.start) * Rate
        /\ (bucket[d].last - w.start) * Rate \in Int
    BY <1>1, <2>1, RateMonotone
  <2> QED
    BY <1>1, <1>2, <2>1, <2>2, <2>3
<1> QED
  BY <1>3, <1>4, <1>5

(* From any moment on a device is granted at most the burst, one more for  *)
(* each purge that came before its bucket had filled up, and what the rate *)
(* allows for the time since, when clock readings are not stale: for any   *)
(* purge thresholds.                                                       *)
THEOREM RateKept ==
  ASSUME MaxSkew = 0 PROVE Spec => []RateBound
<1>1. Init => RateInv
  <2> SUFFICES ASSUME Init PROVE RateInv
    OBVIOUS
  <2>1. 0 * Cost = 0 /\ 0 - 0 = 0 /\ 0 * Rate = 0 /\ Full * (1 + 0) = Full /\ Full \in Nat
    BY FullType, RateAssumption
  <2>2. ASSUME NEW d \in Devices
        PROVE  /\ bucket[d] = NoBucket
               /\ window[d].count * Cost + Full
                    <= Bursts(d) + (now - window[d].start) * Rate
    <3>1. /\ bucket[d] = NoBucket /\ now = 0
          /\ window[d] = [start |-> 0, count |-> 0, early |-> 0]
      BY DEF Init
    <3>2. /\ window[d].count * Cost = 0 /\ (now - window[d].start) * Rate = 0
          /\ Bursts(d) = Full
      BY <2>1, <3>1 DEF Bursts
    <3> QED
      BY <2>1, <3>1, <3>2
  <2> QED
    BY <2>2 DEF RateInv
<1>2. TypeOK /\ RateInv /\ [Next]_vars => RateInv'
  BY RateStep
<1>3. TypeOK /\ RateInv => RateBound
  BY RateInvImpliesBound
<1> QED
  BY <1>1, <1>2, <1>3, TypeInit, TypeStep, PTL DEF Spec

=============================================================================
