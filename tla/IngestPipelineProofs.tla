------------------------ MODULE IngestPipelineProofs ------------------------
(***************************************************************************)
(* Theorems about IngestPipeline, for every set of tasks, devices, packets *)
(* and every cache capacity.                                               *)
(***************************************************************************)
EXTENDS IngestPipeline, Sums

(* What the helpers on packets return. *)
LEMMA PacketFacts ==
  ASSUME NEW p \in Packets
  PROVE  /\ p.device \in DeviceIds /\ p.version \in Versions
         /\ RawLen(p) \in Nat
         /\ IsKeyframe(p) \in BOOLEAN
         /\ SdfRecord(p) \in [cell : Cells, version : Versions, value : Nat]
         /\ SdfRecord(p).cell \in Cells
         /\ FrameKey(p) \in Keys
<1>1. p \in Packet
  BY ConstantsAssumption
<1>2. FrameKey(p) \in Keys
  BY <1>1 DEF Packet, FrameKey, Keys
<1> QED
  BY <1>1, <1>2, ConstantsAssumption DEF Packet, RawLen, IsKeyframe, SdfRecord

(* The type invariant holds initially and is kept by every step. *)
LEMMA TypeInit == Init => TypeOK
<1> SUFFICES ASSUME Init PROVE TypeOK
  OBVIOUS
<1> USE DEF Init
<1>1. pc \in [Tasks -> Stages] /\ \A t \in Tasks : pc[t] = "idle"
  BY DEF Stages
<1>2. cache \in [Keys -> Packets \cup {NoFrame}]
  BY DEF EmptyCache
<1>3. hub \in [DeviceIds -> Versions \cup {NoVersion}]
  BY DEF EmptyHub
<1>4. /\ telemetry \in [packets : Nat, keyframes : Nat, deltas : Nat, bytes : Nat]
      /\ stats \in [requests : Nat, hits : Nat]
  BY DEF ZeroTelemetry, ZeroStats
<1>5. restarts \in 0..MaxRestarts
  BY ConstantsAssumption
<1> QED
  BY <1>1, <1>2, <1>3, <1>4, <1>5 DEF TypeOK

(* Every step keeps the types. *)
LEMMA TypeStep == TypeOK /\ [Next]_vars => TypeOK'
<1> SUFFICES ASSUME TypeOK, [Next]_vars PROVE TypeOK'
  OBVIOUS
<1> USE DEF TypeOK, Goto, locals, stores, counters, Stages, AfterOpen, AfterStore,
            AfterLookup, AfterPut, AfterSync, AfterQueue, AfterTelemetry, AfterStats,
            Final, Rejected
<1>1. ASSUME NEW t \in Tasks, Receive(t) PROVE TypeOK'
  BY <1>1 DEF Receive
<1>2. ASSUME NEW t \in Tasks, RejectMalformed(t) PROVE TypeOK'
  BY <1>2 DEF RejectMalformed
<1>3. ASSUME NEW t \in Tasks, Decrypt(t) PROVE TypeOK'
  BY <1>3, PacketFacts DEF Decrypt
<1>4. ASSUME NEW t \in Tasks, StoreKeyframe(t) PROVE TypeOK'
  BY <1>4, PacketFacts DEF StoreKeyframe
<1>5. ASSUME NEW t \in Tasks, StoreFails(t) PROVE TypeOK'
  BY <1>5, PacketFacts DEF StoreFails
<1>6. ASSUME NEW t \in Tasks, RouteCdn(t) PROVE TypeOK'
  BY <1>6, PacketFacts DEF RouteCdn
<1>7. ASSUME NEW t \in Tasks, LookupCache(t) PROVE TypeOK'
  BY <1>7 DEF LookupCache
<1>8. ASSUME NEW t \in Tasks, PutCache(t) PROVE TypeOK'
  BY <1>8, PacketFacts DEF PutCache
<1>9. ASSUME NEW t \in Tasks, SyncHub(t) PROVE TypeOK'
  BY <1>9, PacketFacts DEF SyncHub, Connected
<1>10. ASSUME NEW t \in Tasks, RouteQueue(t) PROVE TypeOK'
  BY <1>10 DEF RouteQueue
<1>11. ASSUME NEW t \in Tasks, RecordTelemetry(t) PROVE TypeOK'
  BY <1>11, PacketFacts DEF RecordTelemetry
<1>12. ASSUME NEW t \in Tasks, RecordStats(t) PROVE TypeOK'
  BY <1>12 DEF RecordStats
<1>13. CASE SetCdnRouter
  BY <1>13 DEF SetCdnRouter
<1>14. CASE Restart
  <2>1. stored' \subseteq stored /\ restarts' \in 0..MaxRestarts
    BY <1>14, ConstantsAssumption DEF Restart
  <2>2. /\ pc' \in [Tasks -> Stages]
        /\ \A t \in Tasks : pc'[t] # "idle" => pkt'[t] \in Packets
    BY <1>14 DEF Restart
  <2>3. /\ cache' \in [Keys -> Packets \cup {NoFrame}]
        /\ hub' \in [DeviceIds -> Versions \cup {NoVersion}]
    BY <1>14 DEF Restart, EmptyCache, EmptyHub
  <2>4. /\ telemetry' \in [packets : Nat, keyframes : Nat, deltas : Nat, bytes : Nat]
        /\ stats' \in [requests : Nat, hits : Nat]
        /\ messagesRouted' \in Nat
    BY <1>14 DEF Restart, ZeroTelemetry, ZeroStats
  <2>5. UNCHANGED <<pkt, locals>> /\ keyCache' = {} /\ cdnRouter' = FALSE
    BY <1>14 DEF Restart
  <2> QED
    BY <2>1, <2>2, <2>3, <2>4, <2>5
<1>15. CASE UNCHANGED vars
  BY <1>15 DEF vars
<1> QED
  BY <1>1, <1>2, <1>3, <1>4, <1>5, <1>6, <1>7, <1>8, <1>9, <1>10, <1>11, <1>12,
     <1>13, <1>14, <1>15 DEF Next, Process

(* Every variable of the pipeline keeps its type. *)
THEOREM TypeCorrect == Spec => []TypeOK
BY TypeInit, TypeStep, PTL DEF Spec

-----------------------------------------------------------------------------
(* What every frame in the cache owes to a task that put it, and every     *)
(* device at the hub to a task that registered it.                         *)
CacheSound ==
  \A k \in Keys : cache[k] # NoFrame =>
    \E u \in At(AfterPut) : ~hit[u] /\ FrameKey(pkt[u]) = k

HitInv == CacheSound /\ HitHasEarlierMiss

(* Every step keeps the cached frames those of their keys, and an earlier *)
(* miss to every hit.                                                     *)
LEMMA HitStep == TypeOK /\ HitInv /\ [Next]_vars => HitInv'
<1> SUFFICES ASSUME TypeOK, HitInv, [Next]_vars PROVE HitInv'
  OBVIOUS
<1> USE DEF TypeOK, HitInv, CacheSound, HitHasEarlierMiss, At, Goto, locals, stores,
            counters, AfterOpen, AfterStore, AfterLookup, AfterPut, AfterSync, AfterQueue, AfterTelemetry,
            AfterStats
<1>1. ASSUME NEW t \in Tasks, Receive(t) PROVE HitInv'
  BY <1>1 DEF Receive
<1>2. ASSUME NEW t \in Tasks, RejectMalformed(t) PROVE HitInv'
  BY <1>2 DEF RejectMalformed
<1>3. ASSUME NEW t \in Tasks, Decrypt(t) PROVE HitInv'
  BY <1>3 DEF Decrypt
<1>4. ASSUME NEW t \in Tasks, StoreKeyframe(t) PROVE HitInv'
  BY <1>4 DEF StoreKeyframe
<1>5. ASSUME NEW t \in Tasks, StoreFails(t) PROVE HitInv'
  BY <1>5 DEF StoreFails
<1>6. ASSUME NEW t \in Tasks, RouteCdn(t) PROVE HitInv'
  BY <1>6 DEF RouteCdn
<1>7. ASSUME NEW t \in Tasks, LookupCache(t) PROVE HitInv'
  <2>1. /\ pc[t] = "lookup" /\ pc' = [pc EXCEPT ![t] = "put"] /\ UNCHANGED <<pkt, cache>>
        /\ hit' = [hit EXCEPT ![t] = cache[FrameKey(pkt[t])] # NoFrame]
        /\ FrameKey(pkt[t]) \in Keys
    BY <1>7, PacketFacts DEF LookupCache
  <2>2. At(AfterPut)' = At(AfterPut) /\ t \notin At(AfterPut)
        /\ At(AfterLookup)' = At(AfterLookup) \cup {t}
    BY <2>1
  <2>3. \A u \in At(AfterPut) : u # t /\ hit'[u] = hit[u]
    BY <2>1
  <2>4. CacheSound'
    <3> USE DEF At
    <3>1. \A k \in Keys : cache[k] # NoFrame =>
            \E u \in At(AfterPut) : ~hit'[u] /\ FrameKey(pkt[u]) = k
      BY <2>3
    <3> QED
      BY <2>1, <2>2, <3>1
  <2>5. HitHasEarlierMiss'
    <3>1. ASSUME NEW v \in At(AfterLookup)', hit'[v]
          PROVE  \E u \in At(AfterPut) :
                   u # v /\ ~hit[u] /\ FrameKey(pkt[u]) = FrameKey(pkt[v])
      <4>1. CASE v = t
        BY <2>1, <2>3, <3>1, <4>1
      <4>2. CASE v # t
        BY <2>1, <2>2, <3>1, <4>2
      <4> QED
        BY <4>1, <4>2
    <3> QED
      BY <2>1, <2>2, <2>3, <3>1
  <2> QED
    BY <2>4, <2>5
<1>8. ASSUME NEW t \in Tasks, PutCache(t) PROVE HitInv'
  BY <1>8, PacketFacts DEF PutCache
<1>9. ASSUME NEW t \in Tasks, SyncHub(t) PROVE HitInv'
  BY <1>9 DEF SyncHub
<1>10. ASSUME NEW t \in Tasks, RouteQueue(t) PROVE HitInv'
  BY <1>10 DEF RouteQueue
<1>11. ASSUME NEW t \in Tasks, RecordTelemetry(t) PROVE HitInv'
  BY <1>11 DEF RecordTelemetry
<1>12. ASSUME NEW t \in Tasks, RecordStats(t) PROVE HitInv'
  BY <1>12 DEF RecordStats
<1>13. CASE SetCdnRouter
  BY <1>13 DEF SetCdnRouter
<1>14. CASE Restart
  BY <1>14 DEF Restart, EmptyCache
<1>15. CASE UNCHANGED vars
  BY <1>15 DEF vars
<1> QED
  BY <1>1, <1>2, <1>3, <1>4, <1>5, <1>6, <1>7, <1>8, <1>9, <1>10, <1>11, <1>12,
     <1>13, <1>14, <1>15 DEF Next, Process

(* A cache hit is always backed by an earlier miss of this process. *)
THEOREM HitsAreEarned == Spec => []HitHasEarlierMiss
<1>1. Init => HitInv
  BY DEF Init, HitInv, CacheSound, HitHasEarlierMiss, EmptyCache, At, AfterLookup,
         AfterPut, AfterSync, AfterQueue, AfterTelemetry, AfterStats
<1>2. HitInv => HitHasEarlierMiss
  BY DEF HitInv
<1> QED
  BY <1>1, <1>2, TypeInit, TypeStep, HitStep, PTL DEF Spec

-----------------------------------------------------------------------------
(* Accepted packets opened, and what was put there by them is what is in   *)
(* the cache and at the hub.                                               *)
TraceInv ==
  /\ NoTraceOfRejected
  /\ \A t \in At(AfterOpen) : Opens(pkt[t])

(* Every step keeps a packet that opened behind each cached frame and *)
(* each version at the hub.                                           *)
LEMMA TraceStep == TypeOK /\ TraceInv /\ [Next]_vars => TraceInv'
<1> SUFFICES ASSUME TypeOK, TraceInv, [Next]_vars PROVE TraceInv'
  OBVIOUS
<1> USE DEF TypeOK, TraceInv, NoTraceOfRejected, At, Connected, Goto, locals, stores, counters,
            AfterOpen, AfterStore, AfterLookup, AfterPut, AfterSync, AfterQueue,
            AfterTelemetry, AfterStats
<1>1. ASSUME NEW t \in Tasks, Receive(t) PROVE TraceInv'
  BY <1>1 DEF Receive
<1>2. ASSUME NEW t \in Tasks, RejectMalformed(t) PROVE TraceInv'
  BY <1>2 DEF RejectMalformed
<1>3. ASSUME NEW t \in Tasks, Decrypt(t) PROVE TraceInv'
  BY <1>3 DEF Decrypt
<1>4. ASSUME NEW t \in Tasks, StoreKeyframe(t) PROVE TraceInv'
  BY <1>4 DEF StoreKeyframe
<1>5. ASSUME NEW t \in Tasks, StoreFails(t) PROVE TraceInv'
  BY <1>5 DEF StoreFails
<1>6. ASSUME NEW t \in Tasks, RouteCdn(t) PROVE TraceInv'
  BY <1>6 DEF RouteCdn
<1>7. ASSUME NEW t \in Tasks, LookupCache(t) PROVE TraceInv'
  BY <1>7 DEF LookupCache
<1>8. ASSUME NEW t \in Tasks, PutCache(t) PROVE TraceInv'
  BY <1>8, PacketFacts DEF PutCache
<1>9. ASSUME NEW t \in Tasks, SyncHub(t) PROVE TraceInv'
  <2>1. /\ pc[t] = "sync" /\ pc' = [pc EXCEPT ![t] = "queue"] /\ UNCHANGED <<pkt, cache>>
        /\ hub' = [hub EXCEPT ![pkt[t].device] = pkt[t].version]
        /\ pkt[t].device \in DeviceIds /\ pkt[t].version \in Versions /\ Opens(pkt[t])
    BY <1>9, PacketFacts DEF SyncHub
  <2>2. /\ At(AfterSync)' = At(AfterSync) \cup {t} /\ At(AfterPut)' = At(AfterPut)
        /\ At(AfterOpen)' = At(AfterOpen)
    BY <2>1
  <2>3. ASSUME NEW d \in Connected'
        PROVE  \E u \in At(AfterSync)' :
                 Opens(pkt[u]) /\ pkt[u].device = d /\ pkt[u].version = hub'[d]
    <3>1. CASE d = pkt[t].device
      BY <2>1, <2>2, <3>1
    <3>2. CASE d # pkt[t].device
      <4>1. d \in Connected /\ hub'[d] = hub[d]
        BY <2>1, <2>3, <3>2
      <4> QED
        BY <2>2, <4>1
    <3> QED
      BY <3>1, <3>2
  <2> QED
    BY <2>1, <2>2, <2>3
<1>10. ASSUME NEW t \in Tasks, RouteQueue(t) PROVE TraceInv'
  BY <1>10 DEF RouteQueue
<1>11. ASSUME NEW t \in Tasks, RecordTelemetry(t) PROVE TraceInv'
  BY <1>11 DEF RecordTelemetry
<1>12. ASSUME NEW t \in Tasks, RecordStats(t) PROVE TraceInv'
  BY <1>12 DEF RecordStats
<1>13. CASE SetCdnRouter
  BY <1>13 DEF SetCdnRouter
<1>14. CASE Restart
  BY <1>14, ConstantsAssumption DEF Restart, EmptyCache, EmptyHub
<1>15. CASE UNCHANGED vars
  BY <1>15 DEF vars
<1> QED
  BY <1>1, <1>2, <1>3, <1>4, <1>5, <1>6, <1>7, <1>8, <1>9, <1>10, <1>11, <1>12,
     <1>13, <1>14, <1>15 DEF Next, Process

(* Rejected packets leave no trace in the cache or at the sync hub. *)
THEOREM RejectedLeaveNoTrace == Spec => []NoTraceOfRejected
<1>1. Init => TraceInv
  BY DEF Init, TraceInv, NoTraceOfRejected, EmptyCache, EmptyHub, Connected, At, AfterOpen, AfterStore,
         AfterLookup, AfterPut, AfterSync, AfterQueue, AfterTelemetry, AfterStats
<1>2. TraceInv => NoTraceOfRejected
  BY DEF TraceInv
<1> QED
  BY <1>1, <1>2, TypeInit, TypeStep, TraceStep, PTL DEF Spec

-----------------------------------------------------------------------------
(* The task that is past the store has its record on disk; the same then   *)
(* holds for what it puts into the cache.                                  *)
LEMMA StoredStep == TypeOK /\ StoredBeforeVisible /\ [Next]_vars => StoredBeforeVisible'
<1> SUFFICES ASSUME TypeOK, StoredBeforeVisible, [Next]_vars PROVE StoredBeforeVisible'
  OBVIOUS
<1> USE DEF TypeOK, StoredBeforeVisible, At, Goto, locals, stores, counters,
            AfterOpen, AfterStore, AfterLookup, AfterPut, AfterSync, AfterQueue,
            AfterTelemetry, AfterStats
<1>1. ASSUME NEW t \in Tasks, Receive(t) PROVE StoredBeforeVisible'
  BY <1>1 DEF Receive
<1>2. ASSUME NEW t \in Tasks, RejectMalformed(t) PROVE StoredBeforeVisible'
  BY <1>2 DEF RejectMalformed
<1>3. ASSUME NEW t \in Tasks, Decrypt(t) PROVE StoredBeforeVisible'
  BY <1>3 DEF Decrypt
<1>4. ASSUME NEW t \in Tasks, StoreKeyframe(t) PROVE StoredBeforeVisible'
  BY <1>4, PacketFacts DEF StoreKeyframe
<1>5. ASSUME NEW t \in Tasks, StoreFails(t) PROVE StoredBeforeVisible'
  BY <1>5 DEF StoreFails
<1>6. ASSUME NEW t \in Tasks, RouteCdn(t) PROVE StoredBeforeVisible'
  BY <1>6 DEF RouteCdn
<1>7. ASSUME NEW t \in Tasks, LookupCache(t) PROVE StoredBeforeVisible'
  BY <1>7 DEF LookupCache
<1>8. ASSUME NEW t \in Tasks, PutCache(t) PROVE StoredBeforeVisible'
  BY <1>8, PacketFacts DEF PutCache
<1>9. ASSUME NEW t \in Tasks, SyncHub(t) PROVE StoredBeforeVisible'
  BY <1>9 DEF SyncHub
<1>10. ASSUME NEW t \in Tasks, RouteQueue(t) PROVE StoredBeforeVisible'
  BY <1>10 DEF RouteQueue
<1>11. ASSUME NEW t \in Tasks, RecordTelemetry(t) PROVE StoredBeforeVisible'
  BY <1>11 DEF RecordTelemetry
<1>12. ASSUME NEW t \in Tasks, RecordStats(t) PROVE StoredBeforeVisible'
  BY <1>12 DEF RecordStats
<1>13. CASE SetCdnRouter
  BY <1>13 DEF SetCdnRouter
<1>14. CASE Restart
  BY <1>14 DEF Restart, EmptyCache
<1>15. CASE UNCHANGED vars
  BY <1>15 DEF vars
<1> QED
  BY <1>1, <1>2, <1>3, <1>4, <1>5, <1>6, <1>7, <1>8, <1>9, <1>10, <1>11, <1>12,
     <1>13, <1>14, <1>15 DEF Next, Process

(* No keyframe is cached, routed or synced before its record is on disk. *)
THEOREM StoredFirst == Spec => []StoredBeforeVisible
<1>1. Init => StoredBeforeVisible
  BY DEF Init, StoredBeforeVisible, EmptyCache, At, AfterStore,
         AfterLookup, AfterPut, AfterSync, AfterQueue, AfterTelemetry, AfterStats
<1> QED
  BY <1>1, TypeInit, TypeStep, StoredStep, PTL DEF Spec

-----------------------------------------------------------------------------
(* A device that went through the hub stays connected, so the later of two *)
(* updates finds the earlier device.                                       *)
SyncInv ==
  /\ SyncReciprocity
  /\ \A t \in At(AfterSync) : pkt[t].device \in Connected

(* Every step keeps the devices past the hub connected, and one of any *)
(* two among the recipients of the other.                              *)
LEMMA SyncStep == TypeOK /\ SyncInv /\ [Next]_vars => SyncInv'
<1> SUFFICES ASSUME TypeOK, SyncInv, [Next]_vars PROVE SyncInv'
  OBVIOUS
<1> USE DEF TypeOK, SyncInv, SyncReciprocity, At, Connected, Goto, locals, stores, counters,
            AfterOpen, AfterStore, AfterLookup, AfterPut, AfterSync, AfterQueue,
            AfterTelemetry, AfterStats
<1>1. ASSUME NEW t \in Tasks, Receive(t) PROVE SyncInv'
  BY <1>1 DEF Receive
<1>2. ASSUME NEW t \in Tasks, RejectMalformed(t) PROVE SyncInv'
  BY <1>2 DEF RejectMalformed
<1>3. ASSUME NEW t \in Tasks, Decrypt(t) PROVE SyncInv'
  BY <1>3 DEF Decrypt
<1>4. ASSUME NEW t \in Tasks, StoreKeyframe(t) PROVE SyncInv'
  BY <1>4 DEF StoreKeyframe
<1>5. ASSUME NEW t \in Tasks, StoreFails(t) PROVE SyncInv'
  BY <1>5 DEF StoreFails
<1>6. ASSUME NEW t \in Tasks, RouteCdn(t) PROVE SyncInv'
  BY <1>6 DEF RouteCdn
<1>7. ASSUME NEW t \in Tasks, LookupCache(t) PROVE SyncInv'
  BY <1>7 DEF LookupCache
<1>8. ASSUME NEW t \in Tasks, PutCache(t) PROVE SyncInv'
  BY <1>8 DEF PutCache
<1>9. ASSUME NEW t \in Tasks, SyncHub(t) PROVE SyncInv'
  BY <1>9, PacketFacts, ConstantsAssumption DEF SyncHub
<1>10. ASSUME NEW t \in Tasks, RouteQueue(t) PROVE SyncInv'
  BY <1>10 DEF RouteQueue
<1>11. ASSUME NEW t \in Tasks, RecordTelemetry(t) PROVE SyncInv'
  BY <1>11 DEF RecordTelemetry
<1>12. ASSUME NEW t \in Tasks, RecordStats(t) PROVE SyncInv'
  BY <1>12 DEF RecordStats
<1>13. CASE SetCdnRouter
  BY <1>13 DEF SetCdnRouter
<1>14. CASE Restart
  BY <1>14 DEF Restart, EmptyHub
<1>15. CASE UNCHANGED vars
  BY <1>15 DEF vars
<1> QED
  BY <1>1, <1>2, <1>3, <1>4, <1>5, <1>6, <1>7, <1>8, <1>9, <1>10, <1>11, <1>12,
     <1>13, <1>14, <1>15 DEF Next, Process

(* Of two synced packets of different devices, one reached the other's     *)
(* device.                                                                 *)
THEOREM DevicesMeet == Spec => []SyncReciprocity
<1>1. Init => SyncInv
  BY DEF Init, SyncInv, SyncReciprocity, At,
         AfterSync, AfterQueue, AfterTelemetry, AfterStats
<1>2. SyncInv => SyncReciprocity
  BY DEF SyncInv
<1> QED
  BY <1>1, <1>2, TypeInit, TypeStep, SyncStep, PTL DEF Spec

-----------------------------------------------------------------------------
(* The cache key is injective on device ids that fit its upper half. *)
LEMMA CacheKeyInjective ==
  ASSUME NEW d1 \in 0..(Word - 1), NEW v1 \in 0..(Word - 1),
         NEW d2 \in 0..(Word - 1), NEW v2 \in 0..(Word - 1),
         CacheKey(d1, v1) = CacheKey(d2, v2)
  PROVE  d1 = d2 /\ v1 = v2
<1>1. Word \in Nat \ {0}
  BY ConstantsAssumption
<1>2. ASSUME NEW d \in 0..(Word - 1)
      PROVE  (d * Word) % (Word * Word) = d * Word
  <2>1. d * Word \in Nat /\ Word * Word \in Nat
    BY <1>1
  <2>2. d * Word < Word * Word
    BY <1>1
  <2> QED
    BY <2>1, <2>2
<1>3. d1 * Word + v1 = d2 * Word + v2
  BY <1>2 DEF CacheKey
<1>4. ASSUME NEW a \in 0..(Word - 1), NEW b \in 0..(Word - 1), a < b
      PROVE  a * Word + Word <= b * Word
  BY <1>1, <1>4
<1>5. ~(d1 < d2) /\ ~(d2 < d1)
  BY <1>1, <1>3, <1>4
<1> QED
  BY <1>1, <1>3, <1>5

(* Frames of devices whose ids fit the key do not answer for each other. *)
THEOREM SmallIdsApart == Spec => []SmallIdFramesApart
<1>1. TypeOK /\ TraceInv => SmallIdFramesApart
  <2> SUFFICES ASSUME TypeOK, TraceInv,
                      NEW d \in DeviceIds, NEW v \in Versions, d < Word,
                      CachedFrame(d, v) # NoFrame, CachedFrame(d, v).device < Word
               PROVE  CachedFrame(d, v).device = d /\ CachedFrame(d, v).version = v
    BY DEF SmallIdFramesApart
  <2>1. CacheKey(d, v) \in Keys
    BY DEF Keys
  <2>2. PICK t \in At(AfterPut) : /\ pkt[t] = CachedFrame(d, v)
                                  /\ FrameKey(pkt[t]) = CacheKey(d, v)
    BY <2>1 DEF TraceInv, NoTraceOfRejected, CachedFrame
  <2>3. pkt[t] \in Packets
    BY <2>1, <2>2 DEF TypeOK, CachedFrame
  <2>4. /\ pkt[t].device \in 0..(Word - 1) /\ pkt[t].version \in 0..(Word - 1)
        /\ d \in 0..(Word - 1) /\ v \in 0..(Word - 1)
    <3>1. pkt[t].device < Word
      BY <2>2
    <3>2. Word \in Nat /\ DeviceIds \subseteq Nat /\ Versions \subseteq 0..(Word - 1)
      BY ConstantsAssumption
    <3>3. pkt[t].device \in DeviceIds /\ pkt[t].version \in Versions
      BY <2>3, PacketFacts
    <3>4. ASSUME NEW n \in Nat, n < Word PROVE n \in 0..(Word - 1)
      BY <3>2, <3>4
    <3> QED
      BY <3>1, <3>2, <3>3, <3>4
  <2> QED
    BY <2>2, <2>4, CacheKeyInjective DEF FrameKey
<1>2. Init => TraceInv
  BY DEF Init, TraceInv, NoTraceOfRejected, EmptyCache, EmptyHub, Connected, At, AfterOpen, AfterStore,
         AfterLookup, AfterPut, AfterSync, AfterQueue, AfterTelemetry, AfterStats
<1> QED
  BY <1>1, <1>2, TypeInit, TypeStep, TraceStep, PTL DEF Spec

-----------------------------------------------------------------------------
(* The sets of tasks that the six counters count. *)
Routed == At(AfterQueue)
Recorded == At(AfterTelemetry)
Keyframes == {t \in At(AfterTelemetry) : IsKeyframe(pkt[t])}
Deltas == {t \in At(AfterTelemetry) : ~IsKeyframe(pkt[t])}
Counted == At(AfterStats)
Hits == {t \in At(AfterStats) : hit[t]}

SameSets ==
  /\ UNCHANGED <<Routed, Recorded, Keyframes, Deltas, Counted, Hits>>
  /\ UNCHANGED counters

(* The sets of tasks that the counters count are finite. *)
LEMMA SetsFinite ==
  /\ IsFiniteSet(Routed) /\ IsFiniteSet(Recorded) /\ IsFiniteSet(Keyframes)
  /\ IsFiniteSet(Deltas) /\ IsFiniteSet(Counted) /\ IsFiniteSet(Hits)
<1>1. ASSUME NEW S \in SUBSET Tasks PROVE IsFiniteSet(S)
  BY ConstantsAssumption, FS_Subset
<1> QED
  BY <1>1 DEF Routed, Recorded, Keyframes, Deltas, Counted, Hits, At

(* One element more is one more element. *)
LEMMA OneMore ==
  ASSUME NEW S, NEW x, IsFiniteSet(S), x \notin S
  PROVE  Cardinality(S \cup {x}) = Cardinality(S) + 1
BY FS_AddElement

(* Every step keeps each counter equal to the tasks it counts. *)
LEMMA AccountingStep == TypeOK /\ Accounting /\ [Next]_vars => Accounting'
<1> SUFFICES ASSUME TypeOK, Accounting, [Next]_vars PROVE Accounting'
  OBVIOUS
<1> DEFINE Counts == /\ messagesRouted = Cardinality(Routed)
                     /\ telemetry.packets = Cardinality(Recorded)
                     /\ telemetry.keyframes = Cardinality(Keyframes)
                     /\ telemetry.deltas = Cardinality(Deltas)
                     /\ stats.requests = Cardinality(Counted)
                     /\ stats.hits = Cardinality(Hits)
<1>a. Counts
  BY DEF Accounting, Routed, Recorded, Keyframes, Deltas, Counted, Hits
<1> SUFFICES Counts'
  BY DEF Accounting, Routed, Recorded, Keyframes, Deltas, Counted, Hits
<1> HIDE DEF Counts
<1> USE DEF TypeOK, Goto, locals, stores, counters, AfterQueue, AfterTelemetry,
            AfterStats
<1>0. ASSUME SameSets PROVE Counts'
  BY <1>0, <1>a DEF SameSets, Counts
<1>1. ASSUME NEW t \in Tasks, Receive(t) PROVE Counts'
  <2> SameSets
    BY <1>1 DEF Receive, SameSets, At, Routed, Recorded, Keyframes, Deltas, Counted, Hits
  <2> QED BY <1>0
<1>2. ASSUME NEW t \in Tasks, RejectMalformed(t) PROVE Counts'
  <2> SameSets
    BY <1>2 DEF RejectMalformed, SameSets, At, Routed, Recorded, Keyframes, Deltas, Counted, Hits
  <2> QED BY <1>0
<1>3. ASSUME NEW t \in Tasks, Decrypt(t) PROVE Counts'
  <2> SameSets
    BY <1>3 DEF Decrypt, SameSets, At, Routed, Recorded, Keyframes, Deltas, Counted, Hits
  <2> QED BY <1>0
<1>4. ASSUME NEW t \in Tasks, StoreKeyframe(t) PROVE Counts'
  <2> SameSets
    BY <1>4 DEF StoreKeyframe, SameSets, At, Routed, Recorded, Keyframes, Deltas, Counted, Hits
  <2> QED BY <1>0
<1>5. ASSUME NEW t \in Tasks, StoreFails(t) PROVE Counts'
  <2> SameSets
    BY <1>5 DEF StoreFails, SameSets, At, Routed, Recorded, Keyframes, Deltas, Counted, Hits
  <2> QED BY <1>0
<1>6. ASSUME NEW t \in Tasks, RouteCdn(t) PROVE Counts'
  <2> SameSets
    BY <1>6 DEF RouteCdn, SameSets, At, Routed, Recorded, Keyframes, Deltas, Counted, Hits
  <2> QED BY <1>0
<1>7. ASSUME NEW t \in Tasks, LookupCache(t) PROVE Counts'
  <2> SameSets
    BY <1>7 DEF LookupCache, SameSets, At, Routed, Recorded, Keyframes, Deltas, Counted, Hits
  <2> QED BY <1>0
<1>8. ASSUME NEW t \in Tasks, PutCache(t) PROVE Counts'
  <2> SameSets
    BY <1>8 DEF PutCache, SameSets, At, Routed, Recorded, Keyframes, Deltas, Counted, Hits
  <2> QED BY <1>0
<1>9. ASSUME NEW t \in Tasks, SyncHub(t) PROVE Counts'
  <2> SameSets
    BY <1>9 DEF SyncHub, SameSets, At, Routed, Recorded, Keyframes, Deltas, Counted, Hits
  <2> QED BY <1>0
<1>10. ASSUME NEW t \in Tasks, RouteQueue(t) PROVE Counts'
  <2>1. Routed' = Routed \cup {t} /\ t \notin Routed
    BY <1>10 DEF RouteQueue, At, Routed, Recorded, Keyframes, Deltas, Counted, Hits
  <2>2. Cardinality(Routed') = messagesRouted'
    BY <1>10, <2>1, OneMore, SetsFinite, <1>a DEF RouteQueue, Counts
  <2>3. UNCHANGED <<Recorded, Keyframes, Deltas, Counted, Hits, telemetry, stats>>
    BY <1>10 DEF RouteQueue, At, Routed, Recorded, Keyframes, Deltas, Counted, Hits
  <2> QED
    BY <2>2, <2>3, <1>a DEF Counts
<1>11. ASSUME NEW t \in Tasks, RecordTelemetry(t) PROVE Counts'
  <2>1. Recorded' = Recorded \cup {t} /\ t \notin Recorded
    BY <1>11 DEF RecordTelemetry, At, Routed, Recorded, Keyframes, Deltas, Counted, Hits
  <2>2. Cardinality(Recorded') = telemetry'.packets
    BY <1>11, <2>1, OneMore, SetsFinite, <1>a DEF RecordTelemetry, Counts
  <2>3. UNCHANGED <<Routed, Counted, Hits, messagesRouted, stats>>
    BY <1>11 DEF RecordTelemetry, At, Routed, Recorded, Keyframes, Deltas, Counted, Hits
  <2>4. CASE IsKeyframe(pkt[t])
    <3>1. Keyframes' = Keyframes \cup {t} /\ t \notin Keyframes /\ Deltas' = Deltas
      BY <1>11, <2>4 DEF RecordTelemetry, At, Routed, Recorded, Keyframes, Deltas, Counted, Hits
    <3>2. /\ telemetry'.keyframes = telemetry.keyframes + 1
          /\ telemetry'.deltas = telemetry.deltas
      BY <1>11, <2>4 DEF RecordTelemetry
    <3>3. Cardinality(Keyframes') = telemetry'.keyframes
      BY <3>1, <3>2, OneMore, SetsFinite, <1>a DEF Counts
    <3>4. Cardinality(Deltas') = telemetry'.deltas
      BY <3>1, <3>2, <1>a DEF Counts
    <3> QED
      BY <2>2, <2>3, <3>3, <3>4, <1>a DEF Counts
  <2>5. CASE ~IsKeyframe(pkt[t])
    <3>1. Deltas' = Deltas \cup {t} /\ t \notin Deltas /\ Keyframes' = Keyframes
      BY <1>11, <2>5 DEF RecordTelemetry, At, Routed, Recorded, Keyframes, Deltas, Counted, Hits
    <3>2. /\ telemetry'.deltas = telemetry.deltas + 1
          /\ telemetry'.keyframes = telemetry.keyframes
      BY <1>11, <2>5 DEF RecordTelemetry
    <3>3. Cardinality(Deltas') = telemetry'.deltas
      BY <3>1, <3>2, OneMore, SetsFinite, <1>a DEF Counts
    <3>4. Cardinality(Keyframes') = telemetry'.keyframes
      BY <3>1, <3>2, <1>a DEF Counts
    <3> QED
      BY <2>2, <2>3, <3>3, <3>4, <1>a DEF Counts
  <2> QED
    BY <2>4, <2>5
<1>12. ASSUME NEW t \in Tasks, RecordStats(t) PROVE Counts'
  <2>1. Counted' = Counted \cup {t} /\ t \notin Counted
    BY <1>12 DEF RecordStats, At, Routed, Recorded, Keyframes, Deltas, Counted, Hits
  <2>2. Cardinality(Counted') = stats'.requests
    BY <1>12, <2>1, OneMore, SetsFinite, <1>a DEF RecordStats, Counts
  <2>3. UNCHANGED <<Routed, Recorded, Keyframes, Deltas, messagesRouted, telemetry>>
    BY <1>12 DEF RecordStats, At, Routed, Recorded, Keyframes, Deltas, Counted, Hits
  <2>4. CASE hit[t]
    <3>1. Hits' = Hits \cup {t} /\ t \notin Hits
      BY <1>12, <2>4 DEF RecordStats, At, Routed, Recorded, Keyframes, Deltas, Counted, Hits
    <3> QED
      BY <1>12, <2>2, <2>3, <2>4, <3>1, OneMore, SetsFinite, <1>a DEF RecordStats, Counts
  <2>5. CASE ~hit[t]
    <3>1. Hits' = Hits
      BY <1>12, <2>5 DEF RecordStats, At, Routed, Recorded, Keyframes, Deltas, Counted, Hits
    <3> QED
      BY <1>12, <2>2, <2>3, <2>5, <3>1, <1>a DEF RecordStats, Counts
  <2> QED
    BY <2>4, <2>5
<1>13. CASE SetCdnRouter
  <2> SameSets
    BY <1>13 DEF SetCdnRouter, SameSets, At, Routed, Recorded, Keyframes, Deltas, Counted, Hits
  <2> QED BY <1>0
<1>14. CASE Restart
  <2>1. /\ Routed' = {} /\ Recorded' = {} /\ Keyframes' = {}
        /\ Deltas' = {} /\ Counted' = {} /\ Hits' = {}
    BY <1>14 DEF Restart, At, Routed, Recorded, Keyframes, Deltas, Counted, Hits
  <2>2. /\ messagesRouted' = 0 /\ telemetry' = ZeroTelemetry /\ stats' = ZeroStats
    BY <1>14 DEF Restart
  <2> QED
    BY <2>1, <2>2, FS_EmptySet DEF Counts, ZeroTelemetry, ZeroStats
<1>15. CASE UNCHANGED vars
  <2> SameSets
    BY <1>15 DEF vars, SameSets, At, Routed, Recorded, Keyframes, Deltas, Counted, Hits
  <2> QED BY <1>0
<1> QED
  BY <1>1, <1>2, <1>3, <1>4, <1>5, <1>6, <1>7, <1>8, <1>9, <1>10, <1>11, <1>12,
     <1>13, <1>14, <1>15 DEF Next, Process

(* At every moment each counter equals the number of packets of this       *)
(* process that are past the lock that guards it.                          *)
THEOREM CountersExact == Spec => []Accounting
<1>1. Init => Accounting
  <2> SUFFICES ASSUME Init PROVE Accounting
    OBVIOUS
  <2>1. /\ At(AfterQueue) = {} /\ At(AfterTelemetry) = {} /\ At(AfterStats) = {}
    BY DEF Init, At, AfterQueue, AfterTelemetry, AfterStats
  <2> QED
    BY <2>1, FS_EmptySet DEF Init, Accounting, ZeroTelemetry, ZeroStats
<1> QED
  BY <1>1, TypeInit, TypeStep, AccountingStep, PTL DEF Spec

-----------------------------------------------------------------------------
(* The size of each datagram the telemetry has recorded. *)
Lengths == [t \in Recorded |-> RawLen(pkt[t])]

(* The bytes accounted are the sum of the recorded packets' lengths. *)
LEMMA BytesAreLengths == BytesAccounted <=> telemetry.bytes = SumFunctionOnSet(Lengths, Recorded)
BY DEF BytesAccounted, SumFunction, Lengths, Recorded

(* A step that records no packet keeps the bytes accounted. *)
LEMMA BytesKept ==
  ASSUME BytesAccounted, telemetry'.bytes = telemetry.bytes, Recorded' = Recorded,
         \A t \in Recorded : pkt'[t] = pkt[t]
  PROVE  BytesAccounted'
<1>1. Lengths' = Lengths
  BY DEF Lengths
<1>2. telemetry'.bytes = SumFunctionOnSet(Lengths, Recorded)'
  BY <1>1, BytesAreLengths
<1> QED
  BY <1>2 DEF BytesAccounted, SumFunction, Lengths, Recorded

(* Recording a packet adds its length to a sum it was not yet part of. *)
LEMMA BytesGrow ==
  ASSUME TypeOK, BytesAccounted, NEW t \in Tasks, RecordTelemetry(t)
  PROVE  BytesAccounted'
<1> DEFINE old == Lengths
           new == [u \in Recorded \cup {t} |-> RawLen(pkt[u])]
<1>1. /\ t \notin Recorded /\ Recorded' = Recorded \cup {t} /\ pkt' = pkt
      /\ telemetry'.bytes = telemetry.bytes + RawLen(pkt[t])
  BY DEF RecordTelemetry, Recorded, At, AfterTelemetry, AfterStats, TypeOK, Goto
<1>2. \A u \in Recorded \cup {t} : RawLen(pkt[u]) \in Nat
  BY PacketFacts DEF TypeOK, Recorded, At, AfterTelemetry, AfterStats, RecordTelemetry
<1>3. SumFunctionOnSet(new, Recorded \cup {t}) = SumFunctionOnSet(new, Recorded) + new[t]
  <2>1. \A u \in Recorded \cup {t} : new[u] \in Nat
    BY <1>2
  <2> HIDE DEF new
  <2> QED
    BY <1>1, <2>1, SetsFinite, SumWith
<1>4. SumFunctionOnSet(new, Recorded) = SumFunctionOnSet(old, Recorded)
  <2>1. \A u \in Recorded : new[u] = old[u]
    BY DEF Lengths
  <2> HIDE DEF new, old
  <2> QED
    BY <2>1, SetsFinite, SumAgrees
<1>5. telemetry.bytes = SumFunctionOnSet(old, Recorded)
  BY BytesAreLengths
<1>6. telemetry'.bytes = SumFunctionOnSet(new, Recorded \cup {t})
  BY <1>1, <1>3, <1>4, <1>5
<1>7. Lengths' = new
  BY <1>1 DEF Lengths
<1>8. telemetry'.bytes = SumFunctionOnSet(Lengths, Recorded)'
  BY <1>1, <1>6, <1>7
<1> QED
  BY <1>8 DEF BytesAccounted, SumFunction, Lengths, Recorded

(* Every step keeps the bytes accounted. *)
LEMMA BytesStep == TypeOK /\ BytesAccounted /\ [Next]_vars => BytesAccounted'
<1> SUFFICES ASSUME TypeOK, BytesAccounted, [Next]_vars PROVE BytesAccounted'
  OBVIOUS
<1>1. ASSUME NEW t \in Tasks, Receive(t) \/ RejectMalformed(t) \/ Decrypt(t)
      PROVE  BytesAccounted'
  <2>1. /\ UNCHANGED telemetry /\ Recorded' = Recorded
        /\ \A u \in Recorded : pkt'[u] = pkt[u]
    BY <1>1 DEF Receive, RejectMalformed, Decrypt, Recorded, At, AfterTelemetry,
       AfterStats, TypeOK, Goto, counters
  <2> QED
    BY <2>1, BytesKept
<1>2. ASSUME NEW t \in Tasks, \/ StoreKeyframe(t) \/ StoreFails(t) \/ RouteCdn(t)
                              \/ LookupCache(t) \/ PutCache(t)
      PROVE  BytesAccounted'
  <2>1. UNCHANGED <<telemetry, pkt>> /\ Recorded' = Recorded
    BY <1>2 DEF StoreKeyframe, StoreFails, RouteCdn, LookupCache, PutCache, Recorded, At,
       AfterTelemetry, AfterStats, TypeOK, Goto, counters
  <2> QED
    BY <2>1, BytesKept
<1>3. ASSUME NEW t \in Tasks, SyncHub(t) \/ RouteQueue(t) \/ RecordStats(t)
      PROVE  BytesAccounted'
  <2>1. UNCHANGED <<telemetry, pkt>> /\ Recorded' = Recorded
    BY <1>3 DEF SyncHub, RouteQueue, RecordStats, Recorded, At, AfterTelemetry,
       AfterStats, TypeOK, Goto, counters
  <2> QED
    BY <2>1, BytesKept
<1>4. ASSUME NEW t \in Tasks, RecordTelemetry(t) PROVE BytesAccounted'
  BY <1>4, BytesGrow
<1>5. CASE SetCdnRouter \/ UNCHANGED vars
  <2>1. UNCHANGED <<telemetry, pkt>> /\ Recorded' = Recorded
    BY <1>5 DEF SetCdnRouter, vars, Recorded, At, counters
  <2> QED
    BY <2>1, BytesKept
<1>6. CASE Restart
  <2>1. Recorded' = {} /\ telemetry'.bytes = 0
    BY <1>6 DEF Restart, Recorded, At, AfterTelemetry, AfterStats, ZeroTelemetry
  <2>2. SumFunctionOnSet(Lengths', {}) = 0
    BY SumEmpty
  <2>3. telemetry'.bytes = SumFunctionOnSet(Lengths, Recorded)'
    BY <2>1, <2>2
  <2> QED
    BY <2>3 DEF BytesAccounted, SumFunction, Lengths, Recorded
<1> QED
  BY <1>1, <1>2, <1>3, <1>4, <1>5, <1>6 DEF Next, Process

(* The bytes recorded are those of the datagrams recorded, each counted    *)
(* once, whatever the interleaving (ingest.rs step 8).                     *)
THEOREM BytesExact == Spec => []BytesAccounted
<1>1. Init => BytesAccounted
  <2> SUFFICES ASSUME Init PROVE BytesAccounted
    OBVIOUS
  <2>1. Recorded = {} /\ telemetry.bytes = 0
    BY DEF Init, Recorded, At, AfterTelemetry, AfterStats, ZeroTelemetry
  <2>2. SumFunctionOnSet(Lengths, {}) = 0
    BY SumEmpty
  <2> QED
    BY <2>1, <2>2, BytesAreLengths
<1> QED
  BY <1>1, TypeInit, TypeStep, BytesStep, PTL DEF Spec

=============================================================================
