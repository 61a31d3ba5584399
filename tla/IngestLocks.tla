---------------------------- MODULE IngestLocks ----------------------------
(***************************************************************************)
(* The locks of the ingest pipeline (src/src/ingest.rs).  IngestPipeline   *)
(* takes every critical section for one atomic step; here a task waits for *)
(* the mutex of the section, does what the section does one write at a     *)
(* time, and lets go, while monitor threads read the accessors             *)
(* routing_stats, telemetry_snapshot and connected_device_count under the  *)
(* same mutexes.  The packets, the stores and the steps that take no lock  *)
(* are those of IngestPipeline, which this module implements.              *)
(***************************************************************************)
EXTENDS IngestPipeline

CONSTANTS
  Monitors,  \* threads that read the pipeline's counters
  Free       \* a lock nobody holds

(* The mutexes by their number in struct IngestPipeline; the mutex inside  *)
(* DeviceKeyStore comes before them.                                       *)
KeyLock == 0
CdnLock == 1
HubLock == 2
QueueLock == 3
TelemetryLock == 4
StatsLock == 5
Locks == KeyLock..StatsLock

Threads == Tasks \cup Monitors

ASSUME LocksAssumption ==
  /\ Tasks \cap Monitors = {} /\ Free \notin Threads
  /\ IsFiniteSet(DeviceIds)

VARIABLES
  lock,        \* the thread that holds each mutex
  registered,  \* the devices registered at the sync hub
  at,          \* the accessor each monitor is about to call
  seen         \* what each monitor has read so far

locking == <<lock, registered, at, seen>>
locksVars == <<vars, locking>>

(* The mutex under which each stage of a task runs. *)
GuardOf == [key |-> KeyLock, route |-> CdnLock,
            sync |-> HubLock, update |-> HubLock, queue |-> QueueLock,
            telemetry |-> TelemetryLock, countKind |-> TelemetryLock,
            stats |-> StatsLock, countHit |-> StatsLock]

FineStages == Stages \cup {"key", "open", "update", "countKind", "countHit"}

(* A monitor reads in the order opposite to that of the mutexes. *)
ReadOrder == [stats |-> StatsLock, telemetry |-> TelemetryLock, hub |-> HubLock]
MonitorStages == {"idle", "finished"} \cup DOMAIN ReadOrder

NothingSeen == [requests |-> 0, hits |-> 0, packets |-> 0, keyframes |-> 0,
                deltas |-> 0, devices |-> 0]

(* The stage of x needs mutex k. *)
Needs(x, k) ==
  \/ x \in Tasks /\ pc[x] \in DOMAIN GuardOf /\ GuardOf[pc[x]] = k
  \/ x \in Monitors /\ at[x] \in DOMAIN ReadOrder /\ ReadOrder[at[x]] = k

LocksInit ==
  /\ Init
  /\ lock = [k \in Locks |-> Free]
  /\ registered = {}
  /\ at = [m \in Monitors |-> "idle"]
  /\ seen = [m \in Monitors |-> NothingSeen]

-----------------------------------------------------------------------------
(* parking_lot::Mutex::lock returns once the mutex is free. *)
Acquire(x) ==
  /\ \E k \in Locks : /\ Needs(x, k) /\ lock[k] = Free
                      /\ lock' = [lock EXCEPT ![k] = x]
  /\ UNCHANGED <<vars, registered, at, seen>>

Release(k) == lock' = [lock EXCEPT ![k] = Free]

Receives(t) == Receive(t) /\ UNCHANGED locking

ParseHeader(t) ==
  /\ pc[t] = "received" /\ RawLen(pkt[t]) >= HeaderLen
  /\ Goto(t, "key")
  /\ UNCHANGED <<pkt, locals, stores, counters, restarts, locking>>

(* Mutant of DeriveKey: the guard outlives the call. *)
DeriveKeepingLock(t) ==
  /\ pc[t] = "key" /\ lock[KeyLock] = t
  /\ keyCache' = keyCache \cup {pkt[t].device}
  /\ Goto(t, "open")
  /\ UNCHANGED <<pkt, locals, stored, cdnRouter, cache, hub, counters, restarts,
                 locking>>

(* derive_device_key looks up and inserts under the mutex of the key store. *)
DeriveKey(t) ==
  /\ pc[t] = "key" /\ lock[KeyLock] = t
  /\ keyCache' = keyCache \cup {pkt[t].device}
  /\ Goto(t, "open")
  /\ Release(KeyLock)
  /\ UNCHANGED <<pkt, locals, stored, cdnRouter, cache, hub, counters, restarts,
                 registered, at, seen>>

Opened(p) ==
  IF ~Opens(p) THEN "undecryptable" ELSE IF HasSdf(p) THEN "store" ELSE "lookup"

OpenPayload(t) ==
  /\ pc[t] = "open"
  /\ Goto(t, Opened(pkt[t]))
  /\ UNCHANGED <<pkt, locals, stores, counters, restarts, locking>>

(* The steps of the pipeline that take no mutex, and those whose section   *)
(* is a single access.                                                     *)
Unlocked(t) ==
  /\ \/ RejectMalformed(t) \/ StoreKeyframe(t) \/ StoreFails(t)
     \/ LookupCache(t) \/ PutCache(t)
  /\ UNCHANGED locking

RoutesCdn(t) ==
  /\ lock[CdnLock] = t /\ RouteCdn(t)
  /\ Release(CdnLock) /\ UNCHANGED <<registered, at, seen>>

RoutesQueue(t) ==
  /\ lock[QueueLock] = t /\ RouteQueue(t)
  /\ Release(QueueLock) /\ UNCHANGED <<registered, at, seen>>

(* Step 6: the device is registered, then its update goes to the others.   *)
(* Mutant of RegisterDevice: the mutex is released between the two.        *)
RegisterAlone(t) ==
  /\ pc[t] = "sync" /\ lock[HubLock] = t
  /\ registered' = registered \cup {pkt[t].device}
  /\ Goto(t, "update")
  /\ Release(HubLock)
  /\ UNCHANGED <<pkt, locals, stores, counters, restarts, at, seen>>

RegisterDevice(t) ==
  /\ pc[t] = "sync" /\ lock[HubLock] = t
  /\ registered' = registered \cup {pkt[t].device}
  /\ Goto(t, "update")
  /\ UNCHANGED <<pkt, locals, stores, counters, restarts, lock, at, seen>>

UpdateDevice(t) ==
  LET d == pkt[t].device IN
  /\ pc[t] = "update" /\ lock[HubLock] = t
  /\ hub' = [hub EXCEPT ![d] = pkt[t].version]
  /\ recipients' = [recipients EXCEPT ![t] = registered \ {d}]
  /\ Goto(t, "queue")
  /\ Release(HubLock)
  /\ UNCHANGED <<pkt, hit, cdnNode, keyCache, stored, cdnRouter, cache, counters,
                 restarts, registered, at, seen>>

(* Step 8: record_packet writes its counters one after the other, then the *)
(* routing stats are written under a mutex of their own.                   *)
CountPacket(t) ==
  /\ pc[t] = "telemetry" /\ lock[TelemetryLock] = t
  /\ telemetry' = [telemetry EXCEPT !.packets = @ + 1, !.bytes = @ + RawLen(pkt[t])]
  /\ Goto(t, "countKind")
  /\ UNCHANGED <<pkt, locals, stores, messagesRouted, stats, restarts, locking>>

CountKind(t) ==
  /\ pc[t] = "countKind" /\ lock[TelemetryLock] = t
  /\ telemetry' = IF IsKeyframe(pkt[t])
                  THEN [telemetry EXCEPT !.keyframes = @ + 1]
                  ELSE [telemetry EXCEPT !.deltas = @ + 1]
  /\ Goto(t, "stats")
  /\ Release(TelemetryLock)
  /\ UNCHANGED <<pkt, locals, stores, messagesRouted, stats, restarts,
                 registered, at, seen>>

CountRequest(t) ==
  /\ pc[t] = "stats" /\ lock[StatsLock] = t
  /\ stats' = [stats EXCEPT !.requests = @ + 1]
  /\ Goto(t, "countHit")
  /\ UNCHANGED <<pkt, locals, stores, messagesRouted, telemetry, restarts, locking>>

CountHit(t) ==
  /\ pc[t] = "countHit" /\ lock[StatsLock] = t
  /\ stats' = [stats EXCEPT !.hits = @ + (IF hit[t] THEN 1 ELSE 0)]
  /\ Goto(t, "done")
  /\ Release(StatsLock)
  /\ UNCHANGED <<pkt, locals, stores, messagesRouted, telemetry, restarts,
                 registered, at, seen>>

-----------------------------------------------------------------------------
StartReading(m) ==
  /\ at[m] = "idle"
  /\ at' = [at EXCEPT ![m] = "stats"]
  /\ UNCHANGED <<vars, lock, registered, seen>>

ReadStats(m) ==
  /\ at[m] = "stats" /\ lock[StatsLock] = m
  /\ seen' = [seen EXCEPT ![m].requests = stats.requests, ![m].hits = stats.hits]
  /\ at' = [at EXCEPT ![m] = "telemetry"]
  /\ Release(StatsLock)
  /\ UNCHANGED <<vars, registered>>

(* Mutant of ReadTelemetry: the clone is taken after the guard is dropped, *)
(* modelled by a read that needs no mutex.                                 *)
ReadUnlocked(m) ==
  /\ at[m] = "telemetry"
  /\ seen' = [seen EXCEPT ![m].packets = telemetry.packets,
                          ![m].keyframes = telemetry.keyframes,
                          ![m].deltas = telemetry.deltas]
  /\ at' = [at EXCEPT ![m] = "hub"]
  /\ lock' = [k \in Locks |-> IF lock[k] = m THEN Free ELSE lock[k]]
  /\ UNCHANGED <<vars, registered>>

ReadTelemetry(m) ==
  /\ at[m] = "telemetry" /\ lock[TelemetryLock] = m
  /\ seen' = [seen EXCEPT ![m].packets = telemetry.packets,
                          ![m].keyframes = telemetry.keyframes,
                          ![m].deltas = telemetry.deltas]
  /\ at' = [at EXCEPT ![m] = "hub"]
  /\ Release(TelemetryLock)
  /\ UNCHANGED <<vars, registered>>

(* Mutant of ReadDevices: the count is returned and the guard leaks. *)
ReadDevicesLeaking(m) ==
  /\ at[m] = "hub" /\ lock[HubLock] = m
  /\ seen' = [seen EXCEPT ![m].devices = Cardinality(registered)]
  /\ at' = [at EXCEPT ![m] = "finished"]
  /\ UNCHANGED <<vars, lock, registered>>

ReadDevices(m) ==
  /\ at[m] = "hub" /\ lock[HubLock] = m
  /\ seen' = [seen EXCEPT ![m].devices = Cardinality(registered)]
  /\ at' = [at EXCEPT ![m] = "finished"]
  /\ Release(HubLock)
  /\ UNCHANGED <<vars, registered>>

-----------------------------------------------------------------------------
SetsCdnRouter ==
  lock[CdnLock] = Free /\ SetCdnRouter /\ UNCHANGED locking

Restarts ==
  /\ Restart
  /\ lock' = [k \in Locks |-> Free] /\ registered' = {}
  /\ at' = [m \in Monitors |-> "idle"] /\ seen' = [m \in Monitors |-> NothingSeen]

Advance(t) ==
  \/ ParseHeader(t) \/ DeriveKey(t) \/ OpenPayload(t) \/ Unlocked(t)
  \/ RoutesCdn(t) \/ RegisterDevice(t) \/ UpdateDevice(t) \/ RoutesQueue(t)
  \/ CountPacket(t) \/ CountKind(t) \/ CountRequest(t) \/ CountHit(t)

Read(m) == ReadStats(m) \/ ReadTelemetry(m) \/ ReadDevices(m)

LocksNext ==
  \/ \E t \in Tasks : Receives(t) \/ Acquire(t) \/ Advance(t)
  \/ \E m \in Monitors : StartReading(m) \/ Acquire(m) \/ Read(m)
  \/ SetsCdnRouter
  \/ Restarts

(* A running thread keeps running, and parking_lot hands a contended mutex *)
(* to a waiter from time to time (its eventual fairness), so a waiter for  *)
(* a mutex that is free again and again gets it.                           *)
LocksFairness ==
  /\ \A t \in Tasks : WF_locksVars(Advance(t)) /\ SF_locksVars(Acquire(t))
  /\ \A m \in Monitors : WF_locksVars(Read(m)) /\ SF_locksVars(Acquire(m))

LocksSpec == LocksInit /\ [][LocksNext]_locksVars /\ LocksFairness

-----------------------------------------------------------------------------
HoldersNeed == \A k \in Locks : lock[k] # Free => Needs(lock[k], k)

(* Every variable keeps its type, and a mutex is held only by a thread     *)
(* whose stage needs it: no two sections of one mutex overlap.             *)
LocksTypeOK ==
  /\ pc \in [Tasks -> FineStages]
  /\ pkt \in [Tasks -> Packets \cup {NoPacket}]
  /\ \A t \in Tasks : pc[t] # "idle" => pkt[t] \in Packets
  /\ telemetry \in [packets : Nat, keyframes : Nat, deltas : Nat, bytes : Nat]
  /\ stats \in [requests : Nat, hits : Nat]
  /\ hit \in [Tasks -> BOOLEAN] /\ recipients \in [Tasks -> SUBSET DeviceIds]
  /\ hub \in [DeviceIds -> Versions \cup {NoVersion}]
  /\ lock \in [Locks -> Threads \cup {Free}]
  /\ HoldersNeed
  /\ registered \in SUBSET DeviceIds
  /\ at \in [Monitors -> MonitorStages]
  /\ seen \in [Monitors -> [requests : Nat, hits : Nat, packets : Nat,
                            keyframes : Nat, deltas : Nat, devices : Nat]]

(* "Never acquire a lock with a lower number while already holding one     *)
(* with a higher number" (ingest.rs:82-95): a thread that waits for mutex  *)
(* k holds none that is numbered k or higher, and the key store's mutex is *)
(* let go before any other is asked for.                                   *)
LocksAscend ==
  \A x \in Threads, k, held \in Locks :
    Needs(x, k) /\ lock[k] # x /\ lock[held] = x => held < k /\ held # KeyLock

(* What a monitor reads through telemetry_snapshot, routing_stats and      *)
(* connected_device_count while packets are in flight is a state of the    *)
(* counters between two packets: keyframes and deltas add up, and read in  *)
(* the order stats, telemetry, devices no count runs ahead of what must    *)
(* precede it (ingest.rs steps 6 and 8).                                   *)
SnapshotsConsistent ==
  \A m \in Monitors :
    LET s == seen[m] IN
    /\ s.hits <= s.requests
    /\ s.keyframes + s.deltas = s.packets
    /\ at[m] \in {"hub", "finished"} => s.requests <= s.packets
    /\ at[m] = "finished" /\ s.packets > 0 => s.devices > 0

-----------------------------------------------------------------------------
(* The mapping to IngestPipeline: an open payload's outcome is settled     *)
(* when the key is derived, the sync happens at the update, and a packet   *)
(* is counted at the first write of the section that counts it.            *)
StageOf(t) ==
  CASE pc[t] = "key" -> "received"
    [] pc[t] = "open" -> Opened(pkt[t])
    [] pc[t] = "update" -> "sync"
    [] pc[t] = "countKind" -> "stats"
    [] pc[t] = "countHit" -> "done"
    [] OTHER -> pc[t]

StagesThen == [t \in Tasks |-> StageOf(t)]

Counting(k, stage) == lock[k] \in Tasks /\ pc[lock[k]] = stage

TelemetryThen ==
  IF ~Counting(TelemetryLock, "countKind") THEN telemetry
  ELSE IF IsKeyframe(pkt[lock[TelemetryLock]])
  THEN [telemetry EXCEPT !.keyframes = @ + 1]
  ELSE [telemetry EXCEPT !.deltas = @ + 1]

StatsThen ==
  IF Counting(StatsLock, "countHit") /\ hit[lock[StatsLock]]
  THEN [stats EXCEPT !.hits = @ + 1] ELSE stats

Pipeline == INSTANCE IngestPipeline
              WITH pc <- StagesThen,
                   telemetry <- TelemetryThen, stats <- StatsThen

(* Under its mutexes the pipeline behaves as if every section were atomic: *)
(* all that IngestPipeline promises, its liveness included, holds of the   *)
(* tasks that take the locks of ingest.rs one by one.                      *)
ImplementsPipeline == Pipeline!Spec
=============================================================================
