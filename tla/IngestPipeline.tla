--------------------------- MODULE IngestPipeline ---------------------------
(***************************************************************************)
(* The packet pipeline of the gateway (src/src/ingest.rs) under the        *)
(* receive loop of src/src/main.rs: every datagram is handed to a task of  *)
(* its own, the tasks run process_packet concurrently, and what they share *)
(* is reached one lock (or one thread-safe store) at a time.  Each action  *)
(* below is one such critical section, or the local code that leads to it. *)
(*                                                                         *)
(* The process may be killed and started again at any moment: only the SDF *)
(* storage is on disk.                                                     *)
(***************************************************************************)
EXTENDS Integers, FiniteSets, Functions

CONSTANTS
  Tasks,          \* one spawned task per received datagram
  DeviceIds,      \* device ids a header may carry (u64)
  Versions,       \* scene versions a header may carry (u32)
  Cells,          \* Morton codes of the world grid
  OriginCell,     \* the Morton code of (0, 0, 0)
  Packets,        \* the datagrams that may arrive
  Word,           \* 2^32 in the code: the range of a scene version
  MaxPacketSize,  \* GatewayConfig::max_packet_size, the receive buffer
  SealOverhead,   \* bytes alice_crypto::seal adds to a payload
  CacheCapacity,  \* GatewayConfig::cache_capacity
  CdnRoute,       \* SdfCdnRouter::route_sdf_request: cell -> edge node
  NoNode,         \* no edge node (None)
  NoFrame,        \* a cache miss (None)
  NoVersion,      \* a device the sync hub has not seen
  NoPacket,       \* a task that has not been spawned yet
  MaxRestarts     \* bound: how often the process is restarted

Packet == [device : DeviceIds, version : Versions, size : Nat,
           sealed : BOOLEAN, keyTag : BOOLEAN, cell : Cells, sdf : Nat]

ASSUME ConstantsAssumption ==
  /\ IsFiniteSet(Tasks)
  /\ Word \in Nat \ {0}
  /\ DeviceIds \subseteq Nat /\ Versions \subseteq 0..(Word - 1)
  /\ OriginCell \in Cells
  /\ Packets \subseteq Packet
  /\ MaxPacketSize \in Nat /\ SealOverhead \in Nat
  /\ CacheCapacity \in Nat \ {0}
  /\ DOMAIN CdnRoute = Cells
  /\ NoFrame \notin Packets
  /\ NoVersion \notin Versions
  /\ NoPacket \notin Packets
  /\ MaxRestarts \in Nat

-----------------------------------------------------------------------------
(* What a task computes from its datagram alone.                           *)

HeaderLen == 12

(* recv_from cuts a datagram that does not fit the buffer. *)
RawLen(p) == IF p.size <= MaxPacketSize THEN p.size ELSE MaxPacketSize

(* alice_crypto::open under the device's own key: the payload was sealed   *)
(* with that key and arrived whole.                                        *)
Opens(p) == p.sealed /\ p.size <= MaxPacketSize

PayloadLen(p) == RawLen(p) - (HeaderLen + SealOverhead)

IsKeyframe(p) == PayloadLen(p) > 0 /\ p.keyTag

(* A keyframe that is more than its type byte goes to the storage. *)
HasSdf(p) == IsKeyframe(p) /\ PayloadLen(p) > 1

(* Coordinates and value default to zero when the payload stops short. *)
SdfRecord(p) ==
  [cell    |-> IF PayloadLen(p) >= 13 THEN p.cell ELSE OriginCell,
   version |-> p.version,
   value   |-> IF PayloadLen(p) >= 17 THEN p.sdf ELSE 0]

(* Mutant of CacheKey: the version is added to an unshifted id. *)
UnshiftedKey(d, v) == d + v

(* (device_id << 32) | scene_version on u64: the upper half of the device  *)
(* id is shifted out.                                                      *)
CacheKey(d, v) == ((d * Word) % (Word * Word)) + v

FrameKey(p) == CacheKey(p.device, p.version)

Keys == {CacheKey(d, v) : d \in DeviceIds, v \in Versions}

(* The frame evicted to make room for key, if room has to be made. *)
Evictions(frames, key) ==
  LET others == {k \in Keys : k # key /\ frames[k] # NoFrame} IN
  IF Cardinality(others) < CacheCapacity THEN {{}} ELSE {{k} : k \in others}

-----------------------------------------------------------------------------
VARIABLES
  pc,             \* the stage each task is at
  pkt,            \* the datagram each task was given
  hit,            \* the task's cache_hit
  recipients,     \* the devices the task's sync update went to
  cdnNode,        \* the edge node the task's keyframe was routed to
  keyCache,       \* devices whose derived key is cached
  stored,         \* keyframes in the SDF storage (on disk)
  cdnRouter,      \* whether set_cdn_router has been called
  cache,          \* the frame cache: key -> frame or NoFrame
  hub,            \* the sync hub: device -> last version pushed
  messagesRouted, \* GatewayRouter::messages_routed
  telemetry,      \* packets, keyframes, deltas and bytes recorded
  stats,          \* SdfRoutingStats: requests and cache hits
  restarts        \* how often the process was restarted

locals == <<hit, recipients, cdnNode>>
counters == <<messagesRouted, telemetry, stats>>
stores == <<keyCache, stored, cdnRouter, cache, hub>>
vars == <<pc, pkt, locals, stores, counters, restarts>>

Rejected == {"malformed", "undecryptable", "storageError"}
Final == Rejected \cup {"done", "gone"}

(* The stages at or after each critical section of a packet that is       *)
(* not rejected.                                                           *)
AfterStats == {"done"}
AfterTelemetry == {"stats"} \cup AfterStats
AfterQueue == {"telemetry"} \cup AfterTelemetry
AfterSync == {"queue"} \cup AfterQueue
AfterPut == {"sync"} \cup AfterSync
AfterLookup == {"put"} \cup AfterPut
AfterStore == {"route", "lookup"} \cup AfterLookup
AfterOpen == {"store"} \cup AfterStore
Stages == {"idle", "received"} \cup AfterOpen \cup Final

At(S) == {t \in Tasks : pc[t] \in S}

ZeroTelemetry == [packets |-> 0, keyframes |-> 0, deltas |-> 0, bytes |-> 0]
ZeroStats == [requests |-> 0, hits |-> 0]
EmptyCache == [k \in Keys |-> NoFrame]
EmptyHub == [d \in DeviceIds |-> NoVersion]

Connected == {d \in DeviceIds : hub[d] # NoVersion}

Init ==
  /\ pc = [t \in Tasks |-> "idle"]
  /\ pkt = [t \in Tasks |-> NoPacket]
  /\ hit = [t \in Tasks |-> FALSE]
  /\ recipients = [t \in Tasks |-> {}]
  /\ cdnNode = [t \in Tasks |-> NoNode]
  /\ keyCache = {} /\ stored = {} /\ cdnRouter = FALSE
  /\ cache = EmptyCache /\ hub = EmptyHub
  /\ messagesRouted = 0 /\ telemetry = ZeroTelemetry /\ stats = ZeroStats
  /\ restarts = 0

Goto(t, stage) == pc' = [pc EXCEPT ![t] = stage]

-----------------------------------------------------------------------------
(* The receive loop: a datagram arrives and a task is spawned for it.      *)
Receive(t) ==
  /\ pc[t] = "idle"
  /\ \E p \in Packets : pkt' = [pkt EXCEPT ![t] = p]
  /\ Goto(t, "received")
  /\ UNCHANGED <<locals, stores, counters, restarts>>

(* Steps 1-3.  The key is derived, and cached, before the payload is opened *)
(* under it, and whether or not it opens.                                  *)
RejectMalformed(t) ==
  /\ pc[t] = "received" /\ RawLen(pkt[t]) < HeaderLen
  /\ Goto(t, "malformed")
  /\ UNCHANGED <<pkt, locals, stores, counters, restarts>>

(* Mutants of Decrypt: an open that fails counts as an empty payload; the  *)
(* request is counted on entry as well as at the end.                      *)
DecryptIgnoresFailure(t) ==
  LET p == pkt[t] IN
  /\ pc[t] = "received" /\ RawLen(p) >= HeaderLen
  /\ keyCache' = keyCache \cup {p.device}
  /\ Goto(t, IF Opens(p) /\ HasSdf(p) THEN "store" ELSE "lookup")
  /\ UNCHANGED <<pkt, locals, stored, cdnRouter, cache, hub, counters, restarts>>

DecryptCountsRequest(t) ==
  LET p == pkt[t] IN
  /\ pc[t] = "received" /\ RawLen(p) >= HeaderLen
  /\ keyCache' = keyCache \cup {p.device}
  /\ stats' = [stats EXCEPT !.requests = @ + 1]
  /\ Goto(t, IF ~Opens(p) THEN "undecryptable"
             ELSE IF HasSdf(p) THEN "store" ELSE "lookup")
  /\ UNCHANGED <<pkt, locals, stored, cdnRouter, cache, hub, messagesRouted,
                 telemetry, restarts>>

Decrypt(t) ==
  LET p == pkt[t] IN
  /\ pc[t] = "received" /\ RawLen(p) >= HeaderLen
  /\ keyCache' = keyCache \cup {p.device}
  /\ Goto(t, IF ~Opens(p) THEN "undecryptable"
             ELSE IF HasSdf(p) THEN "store" ELSE "lookup")
  /\ UNCHANGED <<pkt, locals, stored, cdnRouter, cache, hub, counters, restarts>>

(* Step 4.  A failing store may have written the keyframe or not. *)
StoreKeyframe(t) ==
  /\ pc[t] = "store"
  /\ stored' = stored \cup {SdfRecord(pkt[t])}
  /\ Goto(t, "route")
  /\ UNCHANGED <<pkt, locals, keyCache, cdnRouter, cache, hub, counters, restarts>>

(* Mutant of StoreFails: the error is logged and the packet goes on. *)
StoreErrorSwallowed(t) ==
  /\ pc[t] = "store"
  /\ stored' \in {stored, stored \cup {SdfRecord(pkt[t])}}
  /\ Goto(t, "route")
  /\ UNCHANGED <<pkt, locals, keyCache, cdnRouter, cache, hub, counters, restarts>>

StoreFails(t) ==
  /\ pc[t] = "store"
  /\ stored' \in {stored, stored \cup {SdfRecord(pkt[t])}}
  /\ Goto(t, "storageError")
  /\ UNCHANGED <<pkt, locals, keyCache, cdnRouter, cache, hub, counters, restarts>>

(* Mutant of RouteCdn: a keyframe waits for a router to be installed. *)
RouteCdnWaits(t) ==
  /\ pc[t] = "route" /\ cdnRouter
  /\ cdnNode' = [cdnNode EXCEPT ![t] = CdnRoute[SdfRecord(pkt[t]).cell]]
  /\ Goto(t, "lookup")
  /\ UNCHANGED <<pkt, hit, recipients, stores, counters, restarts>>

RouteCdn(t) ==
  /\ pc[t] = "route"
  /\ cdnNode' = [cdnNode EXCEPT ![t] =
                   IF cdnRouter THEN CdnRoute[SdfRecord(pkt[t]).cell] ELSE NoNode]
  /\ Goto(t, "lookup")
  /\ UNCHANGED <<pkt, hit, recipients, stores, counters, restarts>>

(* Step 5.  The cache is thread-safe, the get and the put are two calls. *)
LookupCache(t) ==
  /\ pc[t] = "lookup"
  /\ hit' = [hit EXCEPT ![t] = cache[FrameKey(pkt[t])] # NoFrame]
  /\ Goto(t, "put")
  /\ UNCHANGED <<pkt, recipients, cdnNode, stores, counters, restarts>>

(* Mutant of PutCache: the hit is looked up after the put. *)
PutThenLookup(t) ==
  LET key == FrameKey(pkt[t]) IN
  /\ pc[t] = "put"
  /\ \E evicted \in Evictions(cache, key) :
       cache' = [k \in Keys |-> IF k = key THEN pkt[t]
                                ELSE IF k \in evicted THEN NoFrame ELSE cache[k]]
  /\ hit' = [hit EXCEPT ![t] = cache'[key] # NoFrame]
  /\ Goto(t, "sync")
  /\ UNCHANGED <<pkt, recipients, cdnNode, keyCache, stored, cdnRouter, hub,
                 counters, restarts>>

PutCache(t) ==
  LET key == FrameKey(pkt[t]) IN
  /\ pc[t] = "put"
  /\ \E evicted \in Evictions(cache, key) :
       cache' = [k \in Keys |-> IF k = key THEN pkt[t]
                                ELSE IF k \in evicted THEN NoFrame ELSE cache[k]]
  /\ Goto(t, "sync")
  /\ UNCHANGED <<pkt, locals, keyCache, stored, cdnRouter, hub, counters, restarts>>

(* Step 6, under lock #2: register, heartbeat and update in one section.   *)
(* Mutants of SyncHub: the update goes only to devices on an older version; *)
(* the world hash is recorded in place of the version.                     *)
SyncDevicesBehind(t) ==
  LET p == pkt[t] IN
  /\ pc[t] = "sync"
  /\ hub' = [hub EXCEPT ![p.device] = p.version]
  /\ recipients' = [recipients EXCEPT ![t] =
                       {d \in Connected \ {p.device} : hub[d] < p.version}]
  /\ Goto(t, "queue")
  /\ UNCHANGED <<pkt, hit, cdnNode, keyCache, stored, cdnRouter, cache, counters,
                 restarts>>

SyncRecordsKey(t) ==
  LET p == pkt[t] IN
  /\ pc[t] = "sync"
  /\ hub' = [hub EXCEPT ![p.device] = FrameKey(p)]
  /\ recipients' = [recipients EXCEPT ![t] = Connected \ {p.device}]
  /\ Goto(t, "queue")
  /\ UNCHANGED <<pkt, hit, cdnNode, keyCache, stored, cdnRouter, cache, counters,
                 restarts>>

SyncHub(t) ==
  LET p == pkt[t] IN
  /\ pc[t] = "sync"
  /\ hub' = [hub EXCEPT ![p.device] = p.version]
  /\ recipients' = [recipients EXCEPT ![t] = Connected \ {p.device}]
  /\ Goto(t, "queue")
  /\ UNCHANGED <<pkt, hit, cdnNode, keyCache, stored, cdnRouter, cache, counters,
                 restarts>>

(* Step 7, under lock #3. *)
RouteQueue(t) ==
  /\ pc[t] = "queue"
  /\ messagesRouted' = messagesRouted + 1
  /\ Goto(t, "telemetry")
  /\ UNCHANGED <<pkt, locals, stores, telemetry, stats, restarts>>

(* Step 8, under lock #4 and then, separately, lock #5. *)
(* Mutant of RecordTelemetry: the size recorded is that of the payload. *)
RecordPayloadBytes(t) ==
  LET p == pkt[t] IN
  /\ pc[t] = "telemetry"
  /\ telemetry' =
       [packets   |-> telemetry.packets + 1,
        keyframes |-> telemetry.keyframes + (IF IsKeyframe(p) THEN 1 ELSE 0),
        deltas    |-> telemetry.deltas + (IF IsKeyframe(p) THEN 0 ELSE 1),
        bytes     |-> telemetry.bytes + PayloadLen(p)]
  /\ Goto(t, "stats")
  /\ UNCHANGED <<pkt, locals, stores, messagesRouted, stats, restarts>>

RecordTelemetry(t) ==
  LET p == pkt[t] IN
  /\ pc[t] = "telemetry"
  /\ telemetry' =
       [packets   |-> telemetry.packets + 1,
        keyframes |-> telemetry.keyframes + (IF IsKeyframe(p) THEN 1 ELSE 0),
        deltas    |-> telemetry.deltas + (IF IsKeyframe(p) THEN 0 ELSE 1),
        bytes     |-> telemetry.bytes + RawLen(p)]
  /\ Goto(t, "stats")
  /\ UNCHANGED <<pkt, locals, stores, messagesRouted, stats, restarts>>

RecordStats(t) ==
  /\ pc[t] = "stats"
  /\ stats' = [requests |-> stats.requests + 1,
               hits     |-> stats.hits + (IF hit[t] THEN 1 ELSE 0)]
  /\ Goto(t, "done")
  /\ UNCHANGED <<pkt, locals, stores, messagesRouted, telemetry, restarts>>

(* The embedding program installs the CDN topology while packets flow. *)
SetCdnRouter ==
  /\ ~cdnRouter /\ cdnRouter' = TRUE
  /\ UNCHANGED <<pc, pkt, locals, keyCache, stored, cache, hub, counters, restarts>>

(* The process dies (the release profile aborts on panic) and is started   *)
(* again with IngestPipeline::new: every task and every in-memory structure *)
(* is lost, and of the SDF storage what had reached the disk remains.      *)
Restart ==
  /\ restarts < MaxRestarts
  /\ restarts' = restarts + 1
  /\ pc' = [t \in Tasks |-> IF pc[t] = "idle" THEN "idle" ELSE "gone"]
  /\ stored' \in SUBSET stored
  /\ keyCache' = {} /\ cdnRouter' = FALSE
  /\ cache' = EmptyCache /\ hub' = EmptyHub
  /\ messagesRouted' = 0 /\ telemetry' = ZeroTelemetry /\ stats' = ZeroStats
  /\ UNCHANGED <<pkt, locals>>

Process(t) ==
  \/ RejectMalformed(t) \/ Decrypt(t)
  \/ StoreKeyframe(t) \/ StoreFails(t) \/ RouteCdn(t)
  \/ LookupCache(t) \/ PutCache(t) \/ SyncHub(t)
  \/ RouteQueue(t) \/ RecordTelemetry(t) \/ RecordStats(t)

Next ==
  \/ \E t \in Tasks : Receive(t) \/ Process(t)
  \/ SetCdnRouter
  \/ Restart

(* tokio keeps polling a spawned task until it returns; nothing forces a   *)
(* datagram to arrive, a router to be installed or the process to die.     *)
Fairness == \A t \in Tasks : WF_vars(Process(t))

Spec == Init /\ [][Next]_vars /\ Fairness

-----------------------------------------------------------------------------
(* Every variable keeps its type (ingest.rs, struct IngestPipeline), and   *)
(* only a task that was never spawned has no packet.                       *)
TypeOK ==
  /\ pc \in [Tasks -> Stages]
  /\ pkt \in [Tasks -> Packets \cup {NoPacket}]
  /\ \A t \in Tasks : pc[t] # "idle" => pkt[t] \in Packets
  /\ hit \in [Tasks -> BOOLEAN]
  /\ recipients \in [Tasks -> SUBSET DeviceIds]
  /\ cdnNode \in [Tasks -> {CdnRoute[c] : c \in Cells} \cup {NoNode}]
  /\ keyCache \in SUBSET DeviceIds
  /\ stored \in SUBSET [cell : Cells, version : Versions, value : Nat]
  /\ cdnRouter \in BOOLEAN
  /\ cache \in [Keys -> Packets \cup {NoFrame}]
  /\ hub \in [DeviceIds -> Versions \cup {NoVersion}]
  /\ messagesRouted \in Nat
  /\ telemetry \in [packets : Nat, keyframes : Nat, deltas : Nat, bytes : Nat]
  /\ stats \in [requests : Nat, hits : Nat]
  /\ restarts \in 0..MaxRestarts

(* The counters of the queue router, the telemetry and the routing stats   *)
(* are updated under three locks one after the other: at every moment each *)
(* counts exactly the packets of this process that got past it, none is    *)
(* counted twice, and a packet rejected halfway is in none of them.        *)
Accounting ==
  /\ messagesRouted = Cardinality(At(AfterQueue))
  /\ telemetry.packets = Cardinality(At(AfterTelemetry))
  /\ telemetry.keyframes =
       Cardinality({t \in At(AfterTelemetry) : IsKeyframe(pkt[t])})
  /\ telemetry.deltas =
       Cardinality({t \in At(AfterTelemetry) : ~IsKeyframe(pkt[t])})
  /\ stats.requests = Cardinality(At(AfterStats))
  /\ stats.hits = Cardinality({t \in At(AfterStats) : hit[t]})

(* total_bytes is the sum of the datagrams as received (header included)   *)
(* of the packets telemetry has counted (ingest.rs step 8).                *)
BytesAccounted ==
  telemetry.bytes = SumFunction([t \in At(AfterTelemetry) |-> RawLen(pkt[t])])

(* A hit is never spurious: whatever the interleaving of the gets and puts *)
(* of step 5, evictions included, a task that reports a hit was preceded   *)
(* by another task of this process that missed on the same key and has put *)
(* its frame.  In particular the hits stay below the requests.             *)
HitHasEarlierMiss ==
  \A t \in At(AfterLookup) : hit[t] =>
    \E u \in At(AfterPut) : u # t /\ ~hit[u] /\ FrameKey(pkt[u]) = FrameKey(pkt[t])

(* A frame is served or routed only once its SDF data is on disk: the      *)
(* cache, the CDN route and the sync push of a keyframe all come after the *)
(* store of step 4 succeeded, and a restart forgets them before it can     *)
(* forget the record.                                                      *)
StoredBeforeVisible ==
  /\ \A k \in Keys : cache[k] # NoFrame /\ HasSdf(cache[k])
                       => SdfRecord(cache[k]) \in stored
  /\ \A t \in At(AfterStore) : HasSdf(pkt[t]) => SdfRecord(pkt[t]) \in stored

(* Packets that were rejected leave no trace in what other devices see:    *)
(* every cached frame and every device version at the sync hub was put     *)
(* there by a packet that opened under its device's key.                   *)
NoTraceOfRejected ==
  /\ \A k \in Keys : cache[k] # NoFrame =>
       \E t \in At(AfterPut) : pkt[t] = cache[k] /\ Opens(pkt[t]) /\ FrameKey(pkt[t]) = k
  /\ \A d \in Connected :
       \E t \in At(AfterSync) :
         Opens(pkt[t]) /\ pkt[t].device = d /\ pkt[t].version = hub[d]

(* No two devices miss each other: of two packets of different devices     *)
(* that both went through the sync hub, at least one was pushed to the     *)
(* device of the other (ingest.rs step 6, registration before the update,  *)
(* both under one lock).                                                   *)
SyncReciprocity ==
  \A t, u \in At(AfterSync) : pkt[t].device # pkt[u].device =>
    pkt[t].device \in recipients[u] \/ pkt[u].device \in recipients[t]

(* Every datagram handed to a task is eventually accepted, rejected or     *)
(* lost with the process (process_packet always returns).                  *)
EveryPacketResolved ==
  \A t \in Tasks : pc[t] = "received" ~> pc[t] \in Final

CachedFrame(d, v) == cache[CacheKey(d, v)]

(* get_cached_frame(device, version) (ingest.rs:333) answers "cached frame *)
(* for a device + scene version": a frame it returns is that device's.     *)
FrameIsTheDevices ==
  \A d \in DeviceIds, v \in Versions :
    CachedFrame(d, v) # NoFrame => CachedFrame(d, v).device = d

(* What the key of ingest.rs:251 does give: among device ids that fit its  *)
(* upper half, a frame that get_cached_frame returns is that device's and  *)
(* that version's, even with other devices' frames in the same cache.      *)
SmallIdFramesApart ==
  \A d \in DeviceIds, v \in Versions :
    LET frame == CachedFrame(d, v) IN
    d < Word /\ frame # NoFrame /\ frame.device < Word
      => frame.device = d /\ frame.version = v

=============================================================================
