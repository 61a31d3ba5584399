------------------------- MODULE IngestLocksProofs -------------------------
(***************************************************************************)
(* Theorems about IngestLocks, for any number of tasks and monitors: its   *)
(* mutual exclusion, its lock order, and that each of its steps is a step  *)
(* of IngestPipeline or changes nothing there.                             *)
(***************************************************************************)
EXTENDS IngestLocks, FiniteSetTheorems, TLAPS

(* A task in the middle of a section holds the section's mutex, and one    *)
(* that derives a key has a whole header.                                  *)
SectionsHeld ==
  \A t \in Tasks :
    /\ pc[t] = "key" => RawLen(pkt[t]) >= HeaderLen
    /\ pc[t] = "update" => lock[HubLock] = t /\ pkt[t].device \in registered
    /\ pc[t] = "countKind" => lock[TelemetryLock] = t
    /\ pc[t] = "countHit" => lock[StatsLock] = t

(* Every registered device has been updated, but for the one a task is     *)
(* about to update.                                                        *)
HubSettled ==
  \A d \in DeviceIds :
    /\ hub[d] # NoVersion => d \in registered
    /\ d \in registered /\ hub[d] = NoVersion
         => \E t \in Tasks : pc[t] = "update" /\ pkt[t].device = d

LInv == LocksTypeOK /\ SectionsHeld /\ HubSettled

USE DEF Locks, KeyLock, CdnLock, HubLock, QueueLock, TelemetryLock, StatsLock

(* The stages of tasks and monitors, listed. *)
LEMMA StageSets ==
  /\ FineStages = {"idle", "received", "key", "open", "store", "route", "lookup", "put",
                   "sync", "update", "queue", "telemetry", "countKind", "stats",
                   "countHit", "done", "gone", "malformed", "undecryptable",
                   "storageError"}
  /\ MonitorStages = {"idle", "finished", "stats", "telemetry", "hub"}
BY DEF FineStages, Stages, Final, Rejected, AfterOpen, AfterStore, AfterLookup, AfterPut,
   AfterSync, AfterQueue, AfterTelemetry, AfterStats, MonitorStages, ReadOrder

(* Each stage needs at most one mutex. *)
LEMMA NeedsOne ==
  ASSUME NEW x \in Threads, NEW k \in Locks, NEW l \in Locks, Needs(x, k), Needs(x, l)
  PROVE  k = l
BY LocksAssumption DEF Needs, Threads

(* The initial states satisfy the inductive invariant. *)
LEMMA InvInit == LocksInit => LInv
<1> SUFFICES ASSUME LocksInit PROVE LInv
  OBVIOUS
<1>1. LocksTypeOK
  BY ConstantsAssumption, LocksAssumption, StageSets
     DEF LocksInit, Init, LocksTypeOK, HoldersNeed, NothingSeen, ZeroTelemetry,
            ZeroStats, EmptyHub, Threads
<1>2. SectionsHeld /\ HubSettled
  BY DEF LocksInit, Init, SectionsHeld, HubSettled, EmptyHub
<1> QED
  BY <1>1, <1>2 DEF LInv

(* A thread waits for at most one mutex and then holds none. *)
LEMMA AscendFromInv == LocksTypeOK => LocksAscend
<1> SUFFICES ASSUME LocksTypeOK, NEW x \in Threads, NEW k \in Locks, NEW held \in Locks,
                    Needs(x, k), lock[k] # x, lock[held] = x
             PROVE  FALSE
  BY DEF LocksAscend
<1>1. Needs(x, held)
  BY LocksAssumption DEF LocksTypeOK, HoldersNeed
<1> QED
  BY <1>1, NeedsOne

-----------------------------------------------------------------------------
(* The mutex each stage needs, now and after a step. *)
Need(p, k) == \/ p = "key" /\ k = KeyLock
              \/ p = "route" /\ k = CdnLock
              \/ p \in {"sync", "update"} /\ k = HubLock
              \/ p = "queue" /\ k = QueueLock
              \/ p \in {"telemetry", "countKind"} /\ k = TelemetryLock
              \/ p \in {"stats", "countHit"} /\ k = StatsLock

MonitorNeed(p, k) == \/ p = "stats" /\ k = StatsLock
                     \/ p = "telemetry" /\ k = TelemetryLock
                     \/ p = "hub" /\ k = HubLock

(* What a thread must hold follows from where it is alone. *)
LEMMA NeedsCases ==
  /\ \A t \in Tasks, k \in Locks :
       (Needs(t, k) <=> Need(pc[t], k)) /\ (Needs(t, k) <=> Need(pc[t], k))'
  /\ \A m \in Monitors, k \in Locks :
       (Needs(m, k) <=> MonitorNeed(at[m], k)) /\ (Needs(m, k) <=> MonitorNeed(at[m], k))'
<1>1. DOMAIN GuardOf = {"key", "route", "sync", "update", "queue", "telemetry",
                        "countKind", "stats", "countHit"}
  BY DEF GuardOf
<1>2. /\ GuardOf["key"] = KeyLock /\ GuardOf["route"] = CdnLock
      /\ GuardOf["sync"] = HubLock /\ GuardOf["update"] = HubLock
      /\ GuardOf["queue"] = QueueLock /\ GuardOf["telemetry"] = TelemetryLock
      /\ GuardOf["countKind"] = TelemetryLock /\ GuardOf["stats"] = StatsLock
      /\ GuardOf["countHit"] = StatsLock
  BY DEF GuardOf
<1>3. /\ DOMAIN ReadOrder = {"stats", "telemetry", "hub"}
      /\ ReadOrder["stats"] = StatsLock /\ ReadOrder["telemetry"] = TelemetryLock
      /\ ReadOrder["hub"] = HubLock
  BY DEF ReadOrder
<1> QED
  BY <1>1, <1>2, <1>3, LocksAssumption DEF Needs, Need, MonitorNeed

(* The types without the holders. *)
Types ==
  /\ pc \in [Tasks -> FineStages]
  /\ pkt \in [Tasks -> Packets \cup {NoPacket}]
  /\ \A t \in Tasks : pc[t] # "idle" => pkt[t] \in Packets
  /\ telemetry \in [packets : Nat, keyframes : Nat, deltas : Nat, bytes : Nat]
  /\ stats \in [requests : Nat, hits : Nat]
  /\ hit \in [Tasks -> BOOLEAN] /\ recipients \in [Tasks -> SUBSET DeviceIds]
  /\ hub \in [DeviceIds -> Versions \cup {NoVersion}]
  /\ lock \in [Locks -> Threads \cup {Free}]
  /\ registered \in SUBSET DeviceIds
  /\ at \in [Monitors -> MonitorStages]
  /\ seen \in [Monitors -> [requests : Nat, hits : Nat, packets : Nat,
                            keyframes : Nat, deltas : Nat, devices : Nat]]

(* A step of task t keeps the holders if it takes no mutex and keeps only  *)
(* one that its next stage needs too.                                      *)
LEMMA TaskKeepsHolders ==
  ASSUME LInv, Types', NEW t \in Tasks, at' = at,
         \A u \in Tasks : u # t => pc'[u] = pc[u],
         \A k \in Locks : lock'[k] \in {lock[k], Free},
         \A k \in Locks : lock[k] = t /\ Need(pc[t], k) /\ lock'[k] = t => Need(pc'[t], k)
  PROVE  LocksTypeOK'
<1>1. ASSUME NEW k \in Locks, lock'[k] # Free PROVE Needs(lock[k], k)'
  <2>1. PICK x \in Threads : lock'[k] = x /\ lock[k] = x /\ Needs(x, k)
    BY <1>1 DEF LInv, LocksTypeOK, HoldersNeed
  <2>2. CASE x \in Monitors
    <3>1. MonitorNeed(at'[x], k)
      BY <2>1, <2>2, NeedsCases
    <3>2. Needs(x, k)'
      BY <2>2, <3>1, NeedsCases
    <3> QED
      BY <2>1, <3>2
  <2>3. CASE x \in Tasks
    <3>1. Need(pc'[x], k)
      BY <2>1, <2>3, NeedsCases
    <3>2. Needs(x, k)'
      BY <2>3, <3>1, NeedsCases
    <3> QED
      BY <2>1, <3>2
  <2> QED
    BY <2>1, <2>2, <2>3 DEF Threads
<1>2. HoldersNeed'
  BY <1>1 DEF HoldersNeed
<1> QED
  BY <1>2 DEF Types, LocksTypeOK

(* A monitor's step that gives up only its own guards leaves every other *)
(* thread's guards held.                                                 *)
LEMMA MonitorKeepsHolders ==
  ASSUME LInv, Types', NEW m \in Monitors, pc' = pc,
         \A n \in Monitors : n # m => at'[n] = at[n],
         \A k \in Locks : lock'[k] \in {lock[k], Free},
         \A k \in Locks : MonitorNeed(at[m], k) => lock'[k] # m
  PROVE  LocksTypeOK'
<1>1. ASSUME NEW k \in Locks, lock'[k] # Free PROVE Needs(lock[k], k)'
  <2>1. PICK x \in Threads : lock'[k] = x /\ lock[k] = x /\ Needs(x, k)
    BY <1>1 DEF LInv, LocksTypeOK, HoldersNeed
  <2>2. CASE x \in Monitors
    <3>1. MonitorNeed(at'[x], k)
      BY <2>1, <2>2, NeedsCases
    <3>2. Needs(x, k)'
      BY <2>2, <3>1, NeedsCases
    <3> QED
      BY <2>1, <3>2
  <2>3. CASE x \in Tasks
    <3>1. Need(pc'[x], k)
      BY <2>1, <2>3, NeedsCases
    <3>2. Needs(x, k)'
      BY <2>3, <3>1, NeedsCases
    <3> QED
      BY <2>1, <3>2
  <2> QED
    BY <2>1, <2>2, <2>3 DEF Threads
<1>2. HoldersNeed'
  BY <1>1 DEF HoldersNeed
<1> QED
  BY <1>2 DEF Types, LocksTypeOK

(* What a monitor writes into its snapshot keeps the snapshot's type. *)
LEMMA Overwrite ==
  ASSUME NEW r \in [requests : Nat, hits : Nat, packets : Nat, keyframes : Nat,
                    deltas : Nat, devices : Nat],
         NEW a \in Nat, NEW b \in Nat, NEW c \in Nat
  PROVE  /\ [r EXCEPT !.requests = a, !.hits = b] \in
              [requests : Nat, hits : Nat, packets : Nat, keyframes : Nat,
               deltas : Nat, devices : Nat]
         /\ [r EXCEPT !.packets = a, !.keyframes = b, !.deltas = c] \in
              [requests : Nat, hits : Nat, packets : Nat, keyframes : Nat,
               deltas : Nat, devices : Nat]
OBVIOUS

(* Every step keeps the types and the guards that a stage needs. *)
LEMMA StepTypes ==
  ASSUME LInv, [LocksNext]_locksVars PROVE LocksTypeOK'
<1>1. Types /\ HoldersNeed
  BY DEF LInv, LocksTypeOK, Types
<1> USE <1>1, ConstantsAssumption, LocksAssumption, StageSets DEF Types, locking, locals,
    stores, counters, Goto, Release, Threads
<1>2. CASE UNCHANGED locksVars
  BY <1>2 DEF locksVars, vars, LInv, LocksTypeOK, HoldersNeed, Needs
<1>3. ASSUME NEW t \in Tasks, Receives(t) PROVE LocksTypeOK'
  <2>1. Types'
    BY <1>3 DEF Receives, Receive
  <2>2. \A k \in Locks : /\ lock'[k] \in {lock[k], Free}
                         /\ lock[k] = t /\ Need(pc[t], k) /\ lock'[k] = t => Need(pc'[t], k)
    BY <1>3 DEF Receives, Receive, Need
  <2> QED
    BY <1>3, <2>1, <2>2, TaskKeepsHolders DEF Receives, Receive
<1>4. ASSUME NEW t \in Tasks, ParseHeader(t) PROVE LocksTypeOK'
  <2>1. Types'
    BY <1>4 DEF ParseHeader
  <2>2. \A k \in Locks : /\ lock'[k] \in {lock[k], Free}
                         /\ lock[k] = t /\ Need(pc[t], k) /\ lock'[k] = t => Need(pc'[t], k)
    BY <1>4 DEF ParseHeader, Need
  <2> QED
    BY <1>4, <2>1, <2>2, TaskKeepsHolders DEF ParseHeader
<1>5. ASSUME NEW t \in Tasks, DeriveKey(t) PROVE LocksTypeOK'
  <2>1. Types'
    BY <1>5 DEF DeriveKey
  <2>2. \A k \in Locks : /\ lock'[k] \in {lock[k], Free}
                         /\ lock[k] = t /\ Need(pc[t], k) /\ lock'[k] = t => Need(pc'[t], k)
    BY <1>5 DEF DeriveKey, Need
  <2> QED
    BY <1>5, <2>1, <2>2, TaskKeepsHolders DEF DeriveKey
<1>6. ASSUME NEW t \in Tasks, OpenPayload(t) PROVE LocksTypeOK'
  <2>1. Types'
    BY <1>6 DEF OpenPayload, Opened
  <2>2. \A k \in Locks : /\ lock'[k] \in {lock[k], Free}
                         /\ lock[k] = t /\ Need(pc[t], k) /\ lock'[k] = t => Need(pc'[t], k)
    BY <1>6 DEF OpenPayload, Opened, Need
  <2> QED
    BY <1>6, <2>1, <2>2, TaskKeepsHolders DEF OpenPayload, Opened
<1>7. ASSUME NEW t \in Tasks, Unlocked(t) PROVE LocksTypeOK'
  <2>1. Types'
    <3>1. CASE RejectMalformed(t)
      BY <1>7, <3>1 DEF Unlocked, RejectMalformed
    <3>2. CASE StoreKeyframe(t)
      BY <1>7, <3>2 DEF Unlocked, StoreKeyframe
    <3>3. CASE StoreFails(t)
      BY <1>7, <3>3 DEF Unlocked, StoreFails
    <3>4. CASE LookupCache(t)
      BY <1>7, <3>4 DEF Unlocked, LookupCache
    <3>5. CASE PutCache(t)
      BY <1>7, <3>5 DEF Unlocked, PutCache
    <3> QED
      BY <1>7, <3>1, <3>2, <3>3, <3>4, <3>5 DEF Unlocked
  <2>2. \A k \in Locks : /\ lock'[k] \in {lock[k], Free}
                         /\ lock[k] = t /\ Need(pc[t], k) /\ lock'[k] = t => Need(pc'[t], k)
    BY <1>7
       DEF Unlocked, RejectMalformed, StoreKeyframe, StoreFails, LookupCache, PutCache,
           Need
  <2> QED
    BY <1>7, <2>1, <2>2, TaskKeepsHolders
       DEF Unlocked, RejectMalformed, StoreKeyframe, StoreFails, LookupCache, PutCache
<1>8. ASSUME NEW t \in Tasks, RoutesCdn(t) PROVE LocksTypeOK'
  <2>1. Types'
    BY <1>8 DEF RoutesCdn, RouteCdn
  <2>2. \A k \in Locks : /\ lock'[k] \in {lock[k], Free}
                         /\ lock[k] = t /\ Need(pc[t], k) /\ lock'[k] = t => Need(pc'[t], k)
    BY <1>8 DEF RoutesCdn, RouteCdn, Need
  <2> QED
    BY <1>8, <2>1, <2>2, TaskKeepsHolders DEF RoutesCdn, RouteCdn
<1>9. ASSUME NEW t \in Tasks, RoutesQueue(t) PROVE LocksTypeOK'
  <2>1. Types'
    BY <1>9 DEF RoutesQueue, RouteQueue
  <2>2. \A k \in Locks : /\ lock'[k] \in {lock[k], Free}
                         /\ lock[k] = t /\ Need(pc[t], k) /\ lock'[k] = t => Need(pc'[t], k)
    BY <1>9 DEF RoutesQueue, RouteQueue, Need
  <2> QED
    BY <1>9, <2>1, <2>2, TaskKeepsHolders DEF RoutesQueue, RouteQueue
<1>10. ASSUME NEW t \in Tasks, RegisterDevice(t) PROVE LocksTypeOK'
  <2>1. pkt[t] \in Packet /\ RawLen(pkt[t]) \in Nat
    BY <1>10 DEF RegisterDevice, RawLen, Packet
  <2>2. Types'
    BY <1>10, <2>1 DEF RegisterDevice, Packet
  <2>3. \A k \in Locks : /\ lock'[k] \in {lock[k], Free}
                         /\ lock[k] = t /\ Need(pc[t], k) /\ lock'[k] = t => Need(pc'[t], k)
    BY <1>10 DEF RegisterDevice, Need
  <2> QED
    BY <1>10, <2>2, <2>3, TaskKeepsHolders DEF RegisterDevice
<1>11. ASSUME NEW t \in Tasks, UpdateDevice(t) PROVE LocksTypeOK'
  <2>1. pkt[t] \in Packet /\ RawLen(pkt[t]) \in Nat
    BY <1>11 DEF UpdateDevice, RawLen, Packet
  <2>2. Types'
    BY <1>11, <2>1 DEF UpdateDevice, Packet
  <2>3. \A k \in Locks : /\ lock'[k] \in {lock[k], Free}
                         /\ lock[k] = t /\ Need(pc[t], k) /\ lock'[k] = t => Need(pc'[t], k)
    BY <1>11 DEF UpdateDevice, Need
  <2> QED
    BY <1>11, <2>2, <2>3, TaskKeepsHolders DEF UpdateDevice
<1>12. ASSUME NEW t \in Tasks, CountPacket(t) PROVE LocksTypeOK'
  <2>1. pkt[t] \in Packet /\ RawLen(pkt[t]) \in Nat
    BY <1>12 DEF CountPacket, RawLen, Packet
  <2>2. /\ telemetry' = [telemetry EXCEPT !.packets = @ + 1, !.bytes = @ + RawLen(pkt[t])]
        /\ telemetry.packets + 1 \in Nat /\ telemetry.bytes + RawLen(pkt[t]) \in Nat
    BY <1>12, <2>1 DEF CountPacket
  <2>3. telemetry' \in [packets : Nat, keyframes : Nat, deltas : Nat, bytes : Nat]
    BY <2>2
  <2>4. Types'
    BY <1>12, <2>3 DEF CountPacket
  <2>5. \A k \in Locks : /\ lock'[k] \in {lock[k], Free}
                         /\ lock[k] = t /\ Need(pc[t], k) /\ lock'[k] = t => Need(pc'[t], k)
    BY <1>12 DEF CountPacket, Need
  <2> QED
    BY <1>12, <2>4, <2>5, TaskKeepsHolders DEF CountPacket
<1>13. ASSUME NEW t \in Tasks, CountKind(t) PROVE LocksTypeOK'
  <2>1. Types'
    BY <1>13 DEF CountKind
  <2>2. \A k \in Locks : /\ lock'[k] \in {lock[k], Free}
                         /\ lock[k] = t /\ Need(pc[t], k) /\ lock'[k] = t => Need(pc'[t], k)
    BY <1>13 DEF CountKind, Need
  <2> QED
    BY <1>13, <2>1, <2>2, TaskKeepsHolders DEF CountKind
<1>14. ASSUME NEW t \in Tasks, CountRequest(t) PROVE LocksTypeOK'
  <2>1. Types'
    BY <1>14 DEF CountRequest
  <2>2. \A k \in Locks : /\ lock'[k] \in {lock[k], Free}
                         /\ lock[k] = t /\ Need(pc[t], k) /\ lock'[k] = t => Need(pc'[t], k)
    BY <1>14 DEF CountRequest, Need
  <2> QED
    BY <1>14, <2>1, <2>2, TaskKeepsHolders DEF CountRequest
<1>15. ASSUME NEW t \in Tasks, CountHit(t) PROVE LocksTypeOK'
  <2>1. Types'
    BY <1>15 DEF CountHit
  <2>2. \A k \in Locks : /\ lock'[k] \in {lock[k], Free}
                         /\ lock[k] = t /\ Need(pc[t], k) /\ lock'[k] = t => Need(pc'[t], k)
    BY <1>15 DEF CountHit, Need
  <2> QED
    BY <1>15, <2>1, <2>2, TaskKeepsHolders DEF CountHit
<1>16. ASSUME NEW x \in Threads, Acquire(x) PROVE LocksTypeOK'
  <2>1. PICK k \in Locks : Needs(x, k) /\ lock' = [lock EXCEPT ![k] = x]
    BY <1>16 DEF Acquire
  <2>2. UNCHANGED <<pc, at>> /\ Types'
    BY <1>16, <2>1 DEF Acquire, vars
  <2>3. \A y \in Threads, l \in Locks : Needs(y, l)' <=> Needs(y, l)
    BY <2>2 DEF Needs
  <2> QED
    BY <2>1, <2>2, <2>3 DEF LocksTypeOK, HoldersNeed
<1>17. ASSUME NEW m \in Monitors, StartReading(m) \/ Read(m) PROVE LocksTypeOK'
  <2>1. Cardinality(registered) \in Nat
    BY FS_Subset, FS_CardinalityType
  <2>2. Types'
    <3>1. CASE StartReading(m)
      BY <3>1 DEF StartReading, vars
    <3>2. CASE ReadStats(m)
      <4>1. [seen[m] EXCEPT !.requests = stats.requests, !.hits = stats.hits] \in
              [requests : Nat, hits : Nat, packets : Nat, keyframes : Nat,
               deltas : Nat, devices : Nat]
        <5>1. /\ seen[m] \in [requests : Nat, hits : Nat, packets : Nat, keyframes : Nat,
                               deltas : Nat, devices : Nat]
              /\ stats.requests \in Nat /\ stats.hits \in Nat
              /\ telemetry.packets \in Nat /\ telemetry.keyframes \in Nat
              /\ telemetry.deltas \in Nat
          OBVIOUS
        <5> HIDE <1>1, ConstantsAssumption, LocksAssumption, StageSets
        <5> QED
          BY <5>1, Overwrite
      <4> QED
        BY <3>2, <4>1 DEF ReadStats, vars
    <3>3. CASE ReadTelemetry(m)
      <4>1. [seen[m] EXCEPT !.packets = telemetry.packets,
               !.keyframes = telemetry.keyframes, !.deltas = telemetry.deltas] \in
              [requests : Nat, hits : Nat, packets : Nat, keyframes : Nat,
               deltas : Nat, devices : Nat]
        <5>1. /\ seen[m] \in [requests : Nat, hits : Nat, packets : Nat, keyframes : Nat,
                               deltas : Nat, devices : Nat]
              /\ stats.requests \in Nat /\ stats.hits \in Nat
              /\ telemetry.packets \in Nat /\ telemetry.keyframes \in Nat
              /\ telemetry.deltas \in Nat
          OBVIOUS
        <5> HIDE <1>1, ConstantsAssumption, LocksAssumption, StageSets
        <5> QED
          BY <5>1, Overwrite
      <4> QED
        BY <3>3, <4>1 DEF ReadTelemetry, vars
    <3>4. CASE ReadDevices(m)
      BY <3>4, <2>1 DEF ReadDevices, vars
    <3> QED
      BY <1>17, <3>1, <3>2, <3>3, <3>4 DEF Read
  <2>3. \A k \in Locks : /\ lock'[k] \in {lock[k], Free}
                         /\ MonitorNeed(at[m], k) => lock'[k] # m
    BY <1>17 DEF StartReading, Read, ReadStats, ReadTelemetry, ReadDevices, MonitorNeed
  <2> QED
    BY <1>17, <2>2, <2>3, MonitorKeepsHolders
       DEF StartReading, Read, ReadStats, ReadTelemetry, ReadDevices, vars
<1>18. CASE SetsCdnRouter
  BY <1>18 DEF SetsCdnRouter, SetCdnRouter, LocksTypeOK, HoldersNeed, Needs
<1>19. CASE Restarts
  BY <1>19 DEF Restarts, Restart, NothingSeen, ZeroTelemetry, ZeroStats, EmptyHub,
     LocksTypeOK, HoldersNeed
<1> QED
  BY <1>2, <1>3, <1>4, <1>5, <1>6, <1>7, <1>8, <1>9, <1>10, <1>11, <1>12, <1>13, <1>14,
     <1>15, <1>16, <1>17, <1>18, <1>19
     DEF LocksNext, Advance

-----------------------------------------------------------------------------
(* A section in progress stays with the task that is in it, whatever the   *)
(* other threads do.                                                       *)
LEMMA StepSections ==
  ASSUME LInv, LocksTypeOK', [LocksNext]_locksVars PROVE SectionsHeld' /\ HubSettled'
<1>1. /\ Types /\ SectionsHeld /\ HubSettled
      /\ \A k \in Locks, t \in Tasks : lock[k] = t => lock[k] # Free
      /\ \A t \in Tasks, m \in Monitors : t # m
  BY LocksAssumption DEF LInv, LocksTypeOK, Types, Threads
<1> USE <1>1 DEF Types, locking, locals, stores, counters, Goto, Release, SectionsHeld,
    HubSettled, Counting
<1>2. CASE UNCHANGED locksVars
  BY <1>2 DEF locksVars, vars
<1>3. ASSUME NEW t \in Tasks, Receives(t) PROVE SectionsHeld' /\ HubSettled'
  <2>1. /\ pc[t] = "idle" /\ pc'[t] = "received"
        /\ \A u \in Tasks : u # t => pc'[u] = pc[u] /\ pkt'[u] = pkt[u]
        /\ UNCHANGED <<lock, registered, hub>>
    BY <1>3 DEF Receives, Receive
  <2>2. SectionsHeld'
    BY <2>1
  <2>3. HubSettled'
    BY <2>1
  <2> QED
    BY <2>2, <2>3
<1>4. ASSUME NEW t \in Tasks, ParseHeader(t) PROVE SectionsHeld' /\ HubSettled'
  BY <1>4 DEF ParseHeader
<1>5. ASSUME NEW t \in Tasks, DeriveKey(t) PROVE SectionsHeld' /\ HubSettled'
  BY <1>5 DEF DeriveKey
<1>6. ASSUME NEW t \in Tasks, OpenPayload(t) PROVE SectionsHeld' /\ HubSettled'
  BY <1>6 DEF OpenPayload, Opened
<1>7. ASSUME NEW t \in Tasks, Unlocked(t) PROVE SectionsHeld' /\ HubSettled'
  BY <1>7 DEF Unlocked, RejectMalformed, StoreKeyframe, StoreFails, LookupCache, PutCache
<1>8. ASSUME NEW t \in Tasks, RoutesCdn(t) PROVE SectionsHeld' /\ HubSettled'
  BY <1>8 DEF RoutesCdn, RouteCdn
<1>9. ASSUME NEW t \in Tasks, RegisterDevice(t) PROVE SectionsHeld' /\ HubSettled'
  BY <1>9 DEF RegisterDevice
<1>10. ASSUME NEW t \in Tasks, UpdateDevice(t) PROVE SectionsHeld' /\ HubSettled'
  <2>1. pkt[t].device \in DeviceIds /\ pkt[t].version \in Versions \ {NoVersion}
    BY <1>10, ConstantsAssumption DEF UpdateDevice, Packet
  <2>2. SectionsHeld'
    BY <1>10 DEF UpdateDevice
  <2>3. /\ lock[HubLock] = t /\ pc[t] = "update" /\ UNCHANGED registered
        /\ hub' = [hub EXCEPT ![pkt[t].device] = pkt[t].version]
    BY <1>10 DEF UpdateDevice
  <2>4. pkt[t].device \in registered
    BY <2>3
  <2>5. ASSUME NEW d \in DeviceIds, d \in registered, hub[d] = NoVersion
        PROVE  d = pkt[t].device
    <3>1. PICK u \in Tasks : pc[u] = "update" /\ pkt[u].device = d
      BY <2>5
    <3> QED
      BY <2>3, <3>1
  <2>6. ASSUME NEW d \in DeviceIds
        PROVE  /\ hub'[d] # NoVersion => d \in registered
               /\ d \in registered => hub'[d] # NoVersion
    <3>1. CASE d = pkt[t].device
      BY <2>1, <2>3, <2>4, <3>1
    <3>2. CASE d # pkt[t].device
      BY <2>3, <2>5, <3>2
    <3> QED
      BY <3>1, <3>2
  <2>7. HubSettled'
    BY <2>3, <2>6
  <2> QED
    BY <2>2, <2>7
<1>11. ASSUME NEW t \in Tasks, RoutesQueue(t) PROVE SectionsHeld' /\ HubSettled'
  BY <1>11 DEF RoutesQueue, RouteQueue
<1>12. ASSUME NEW t \in Tasks, CountPacket(t) PROVE SectionsHeld' /\ HubSettled'
  BY <1>12 DEF CountPacket
<1>13. ASSUME NEW t \in Tasks, CountKind(t) PROVE SectionsHeld' /\ HubSettled'
  BY <1>13 DEF CountKind
<1>14. ASSUME NEW t \in Tasks, CountRequest(t) PROVE SectionsHeld' /\ HubSettled'
  BY <1>14 DEF CountRequest
<1>15. ASSUME NEW t \in Tasks, CountHit(t) PROVE SectionsHeld' /\ HubSettled'
  BY <1>15 DEF CountHit
<1>16. ASSUME NEW x \in Threads, Acquire(x) PROVE SectionsHeld' /\ HubSettled'
  <2>1. PICK k \in Locks : lock[k] = Free /\ lock' = [lock EXCEPT ![k] = x]
    BY <1>16 DEF Acquire
  <2>2. UNCHANGED <<pc, pkt, hub, registered>>
    BY <1>16 DEF Acquire, vars
  <2>3. \A l \in Locks, t \in Tasks : lock[l] = t => lock'[l] = t
    BY <2>1
  <2>4. SectionsHeld'
    BY <2>2, <2>3
  <2>5. HubSettled'
    BY <2>2, <2>3
  <2> QED
    BY <2>4, <2>5
<1>17. ASSUME NEW m \in Monitors, StartReading(m) \/ Read(m) PROVE SectionsHeld' /\ HubSettled'
  <2>1. UNCHANGED <<pc, pkt, hub, registered>>
    BY <1>17 DEF StartReading, Read, ReadStats, ReadTelemetry, ReadDevices, vars
  <2>2. \A l \in Locks : lock'[l] = lock[l] \/ lock[l] = m
    BY <1>17 DEF StartReading, Read, ReadStats, ReadTelemetry, ReadDevices
  <2>3. \A l \in Locks, t \in Tasks : lock[l] = t => lock'[l] = t
    BY <2>2
  <2>4. SectionsHeld'
    BY <2>1, <2>3
  <2>5. HubSettled'
    BY <2>1, <2>3
  <2> QED
    BY <2>4, <2>5
<1>18. CASE SetsCdnRouter
  BY <1>18 DEF SetsCdnRouter, SetCdnRouter
<1>19. CASE Restarts
  BY <1>19 DEF Restarts, Restart, EmptyHub
<1> QED
  BY <1>2, <1>3, <1>4, <1>5, <1>6, <1>7, <1>8, <1>9, <1>10, <1>11, <1>12, <1>13, <1>14,
     <1>15, <1>16, <1>17, <1>18, <1>19
     DEF LocksNext, Advance, Threads

(* Every step keeps the locks' invariant. *)
LEMMA InvNext == LInv /\ [LocksNext]_locksVars => LInv'
BY StepTypes, StepSections DEF LInv

(* A mutex is held only by a thread whose stage needs it, so that no two   *)
(* threads are in sections of one mutex (ingest.rs:96-120).                *)
THEOREM MutualExclusion == LocksSpec => []LocksTypeOK
<1>1. LInv => LocksTypeOK
  BY DEF LInv
<1> QED
  BY InvInit, InvNext, <1>1, PTL DEF LocksSpec

(* No thread waits for a mutex while it holds one of the same or a higher  *)
(* number, the ordering rule of ingest.rs:82-95: no cycle of waiters.      *)
THEOREM LocksInOrder == LocksSpec => []LocksAscend
BY MutualExclusion, AscendFromInv, PTL

-----------------------------------------------------------------------------
(* The tasks counted by record_packet, and by the section after it.        *)
Packeted == At({"countKind", "stats", "countHit", "done"})
Requested == At({"countHit", "done"})

(* The counters count these tasks; the kinds lag behind the packets, and   *)
(* the hits behind the requests, only inside the section that counts them. *)
CountsHeld ==
  /\ telemetry.packets = Cardinality(Packeted)
  /\ stats.requests = Cardinality(Requested)
  /\ \A t \in Tasks : pc[t] = "countKind" =>
       telemetry.keyframes + telemetry.deltas + 1 = telemetry.packets
  /\ (\A t \in Tasks : pc[t] # "countKind") =>
       telemetry.keyframes + telemetry.deltas = telemetry.packets
  /\ stats.hits <= stats.requests
  /\ \A t \in Tasks : pc[t] = "countHit" => stats.hits < stats.requests

(* A packet counted is one whose device is registered. *)
MetFirst ==
  \A t \in At({"update", "queue", "telemetry"}) \cup Packeted :
    pkt[t].device \in registered

(* What a monitor has read stays below what it has yet to read. *)
SeenBelow ==
  \A m \in Monitors :
    /\ at[m] = "telemetry" => seen[m].requests <= telemetry.packets
    /\ at[m] = "hub" /\ seen[m].packets > 0 => registered # {}

CountInv == CountsHeld /\ MetFirst /\ SeenBelow /\ SnapshotsConsistent

(* The tasks that were counted are finitely many; those past the stats *)
(* lock are past the telemetry lock too.                               *)
LEMMA CountedFinite ==
  /\ IsFiniteSet(Packeted) /\ IsFiniteSet(Requested)
  /\ Cardinality(Requested) <= Cardinality(Packeted)
  /\ Cardinality(Packeted) > 0 => Packeted # {}
<1>1. Packeted \in SUBSET Tasks /\ Requested \in SUBSET Packeted
  BY DEF Packeted, Requested, At
<1>2. IsFiniteSet(Packeted)
  BY <1>1, ConstantsAssumption, FS_Subset
<1> QED
  BY <1>1, <1>2, FS_Subset, FS_EmptySet

(* At most one task is inside each of the counting sections, and none      *)
(* while a monitor reads there.                                            *)
LEMMA OneCounting ==
  ASSUME LInv, NEW x \in Threads
  PROVE  /\ lock[TelemetryLock] = x => \A u \in Tasks : u # x => pc[u] # "countKind"
         /\ lock[StatsLock] = x => \A u \in Tasks : u # x => pc[u] # "countHit"
BY DEF LInv, SectionsHeld

(* A step that counts nothing keeps the counts. *)
LEMMA CountsKept ==
  ASSUME CountsHeld, UNCHANGED <<telemetry, stats>>,
         Packeted' = Packeted, Requested' = Requested,
         \A u \in Tasks : /\ pc'[u] = "countKind" <=> pc[u] = "countKind"
                          /\ pc'[u] = "countHit" => pc[u] = "countHit"
  PROVE  CountsHeld'
BY DEF CountsHeld

(* Every step keeps the two counters equal to the tasks they have *)
(* counted.                                                       *)
LEMMA StepCounts ==
  ASSUME LInv, CountsHeld, [LocksNext]_locksVars PROVE CountsHeld'
<1>1. /\ pc \in [Tasks -> FineStages]
      /\ telemetry \in [packets : Nat, keyframes : Nat, deltas : Nat, bytes : Nat]
      /\ stats \in [requests : Nat, hits : Nat]
  BY DEF LInv, LocksTypeOK
<1> USE DEF Goto, counters
<1>2. CASE UNCHANGED locksVars
  BY <1>2, CountsKept DEF locksVars, vars, Packeted, Requested, At
<1>3. ASSUME NEW t \in Tasks, Receives(t) \/ ParseHeader(t) \/ DeriveKey(t) \/ OpenPayload(t)
      PROVE  CountsHeld'
  <2>1. /\ UNCHANGED <<telemetry, stats>> /\ Packeted' = Packeted /\ Requested' = Requested
        /\ \A u \in Tasks : /\ pc'[u] = "countKind" <=> pc[u] = "countKind"
                            /\ pc'[u] = "countHit" => pc[u] = "countHit"
    BY <1>1, <1>3 DEF Receives, Receive, ParseHeader, DeriveKey, OpenPayload, Opened,
       Packeted, Requested, At
  <2> QED
    BY <2>1, CountsKept
<1>4. ASSUME NEW t \in Tasks, Unlocked(t) PROVE CountsHeld'
  <2>1. /\ UNCHANGED <<telemetry, stats>> /\ Packeted' = Packeted /\ Requested' = Requested
        /\ \A u \in Tasks : /\ pc'[u] = "countKind" <=> pc[u] = "countKind"
                            /\ pc'[u] = "countHit" => pc[u] = "countHit"
    BY <1>1, <1>4 DEF Unlocked, RejectMalformed, StoreKeyframe, StoreFails, LookupCache,
       PutCache, Packeted, Requested, At
  <2> QED
    BY <2>1, CountsKept
<1>5. ASSUME NEW t \in Tasks, \/ RoutesCdn(t) \/ RegisterDevice(t)
                              \/ UpdateDevice(t) \/ RoutesQueue(t)
      PROVE  CountsHeld'
  <2>1. /\ UNCHANGED <<telemetry, stats>> /\ Packeted' = Packeted /\ Requested' = Requested
        /\ \A u \in Tasks : /\ pc'[u] = "countKind" <=> pc[u] = "countKind"
                            /\ pc'[u] = "countHit" => pc[u] = "countHit"
    BY <1>1, <1>5 DEF RoutesCdn, RouteCdn, RegisterDevice, UpdateDevice, RoutesQueue,
       RouteQueue, Packeted, Requested, At
  <2> QED
    BY <2>1, CountsKept
<1>6. ASSUME NEW t \in Tasks, CountPacket(t) PROVE CountsHeld'
  <2>1. /\ lock[TelemetryLock] = t /\ pc[t] = "telemetry"
        /\ pc' = [pc EXCEPT ![t] = "countKind"] /\ UNCHANGED stats
        /\ telemetry'.packets = telemetry.packets + 1
        /\ UNCHANGED <<telemetry.keyframes, telemetry.deltas>>
    BY <1>1, <1>6 DEF CountPacket
  <2>2. /\ Packeted' = Packeted \cup {t} /\ t \notin Packeted /\ Requested' = Requested
    BY <1>1, <2>1 DEF Packeted, Requested, At
  <2>3. telemetry'.packets = Cardinality(Packeted)'
    <3>1. Cardinality(Packeted \cup {t}) = Cardinality(Packeted) + 1
      BY <2>2, CountedFinite, FS_AddElement
    <3> QED
      BY <2>1, <2>2, <3>1 DEF CountsHeld
  <2>4. \A u \in Tasks : pc[u] # "countKind"
    BY <2>1, OneCounting DEF Threads
  <2>5. \A u \in Tasks : pc'[u] = "countHit" => pc[u] = "countHit"
    BY <1>1, <2>1
  <2>6. telemetry'.keyframes + telemetry'.deltas + 1 = telemetry'.packets
    BY <1>1, <2>1, <2>4 DEF CountsHeld
  <2>7. pc'[t] = "countKind"
    BY <1>1, <2>1
  <2> QED
    BY <2>1, <2>2, <2>3, <2>5, <2>6, <2>7 DEF CountsHeld
<1>7. ASSUME NEW t \in Tasks, CountKind(t) PROVE CountsHeld'
  <2>1. /\ lock[TelemetryLock] = t /\ pc[t] = "countKind"
        /\ pc' = [pc EXCEPT ![t] = "stats"] /\ UNCHANGED stats
        /\ telemetry'.packets = telemetry.packets
        /\ telemetry'.keyframes + telemetry'.deltas = telemetry.keyframes + telemetry.deltas + 1
    BY <1>1, <1>7 DEF CountKind
  <2>2. Packeted' = Packeted /\ Requested' = Requested
    BY <1>1, <2>1 DEF Packeted, Requested, At
  <2>3. \A u \in Tasks : pc'[u] # "countKind" /\ (pc'[u] = "countHit" => pc[u] = "countHit")
    BY <1>1, <2>1, OneCounting DEF Threads
  <2> QED
    BY <2>1, <2>2, <2>3 DEF CountsHeld
<1>8. ASSUME NEW t \in Tasks, CountRequest(t) PROVE CountsHeld'
  <2>1. /\ lock[StatsLock] = t /\ pc[t] = "stats"
        /\ pc' = [pc EXCEPT ![t] = "countHit"] /\ UNCHANGED telemetry
        /\ stats'.requests = stats.requests + 1 /\ stats'.hits = stats.hits
    BY <1>1, <1>8 DEF CountRequest
  <2>2. /\ Requested' = Requested \cup {t} /\ t \notin Requested /\ Packeted' = Packeted
    BY <1>1, <2>1 DEF Packeted, Requested, At
  <2>3. stats'.requests = Cardinality(Requested)'
    <3>1. Cardinality(Requested \cup {t}) = Cardinality(Requested) + 1
      BY <2>2, CountedFinite, FS_AddElement
    <3> QED
      BY <2>1, <2>2, <3>1 DEF CountsHeld
  <2>4. \A u \in Tasks : pc'[u] = "countKind" <=> pc[u] = "countKind"
    BY <1>1, <2>1
  <2>5. stats'.hits < stats'.requests
    BY <1>1, <2>1 DEF CountsHeld
  <2>6. stats'.hits <= stats'.requests
    BY <1>1, <2>1 DEF CountsHeld
  <2> QED
    BY <2>1, <2>2, <2>3, <2>4, <2>5, <2>6 DEF CountsHeld
<1>9. ASSUME NEW t \in Tasks, CountHit(t) PROVE CountsHeld'
  <2>1. /\ lock[StatsLock] = t /\ pc[t] = "countHit"
        /\ pc' = [pc EXCEPT ![t] = "done"] /\ UNCHANGED telemetry
        /\ stats'.requests = stats.requests /\ stats'.hits \in {stats.hits, stats.hits + 1}
    BY <1>1, <1>9 DEF CountHit
  <2>2. Packeted' = Packeted /\ Requested' = Requested
    BY <1>1, <2>1 DEF Packeted, Requested, At
  <2>3. \A u \in Tasks : /\ pc'[u] # "countHit"
                         /\ pc'[u] = "countKind" <=> pc[u] = "countKind"
    BY <1>1, <2>1, OneCounting DEF Threads
  <2>4. stats'.hits <= stats'.requests
    BY <1>1, <2>1 DEF CountsHeld
  <2> QED
    BY <2>1, <2>2, <2>3, <2>4 DEF CountsHeld
<1>10. ASSUME NEW x \in Threads, Acquire(x) PROVE CountsHeld'
  BY <1>10, CountsKept DEF Acquire, vars, Packeted, Requested, At
<1>11. ASSUME NEW m \in Monitors, StartReading(m) \/ Read(m) PROVE CountsHeld'
  BY <1>11, CountsKept DEF StartReading, Read, ReadStats, ReadTelemetry, ReadDevices,
     vars, Packeted, Requested, At
<1>12. CASE SetsCdnRouter
  BY <1>12, CountsKept DEF SetsCdnRouter, SetCdnRouter, Packeted, Requested, At
<1>13. CASE Restarts
  <2>1. /\ Packeted' = {} /\ Requested' = {}
        /\ telemetry' = ZeroTelemetry /\ stats' = ZeroStats
        /\ \A t \in Tasks : pc'[t] \in {"idle", "gone"}
    BY <1>13 DEF Restarts, Restart, Packeted, Requested, At
  <2> QED
    BY <2>1, FS_EmptySet DEF CountsHeld, ZeroTelemetry, ZeroStats
<1> QED
  BY <1>2, <1>3, <1>4, <1>5, <1>6, <1>7, <1>8, <1>9, <1>10, <1>11, <1>12, <1>13
     DEF LocksNext, Advance, Threads

(* Every step keeps that a counted packet's device is registered with the *)
(* hub.                                                                   *)
LEMMA StepMet ==
  ASSUME LInv, LInv', MetFirst, [LocksNext]_locksVars PROVE MetFirst'
<1>1. /\ pc \in [Tasks -> FineStages] /\ pkt \in [Tasks -> Packets \cup {NoPacket}]
      /\ \A t \in Tasks : pc'[t] = "update" => pkt'[t].device \in registered'
  BY DEF LInv, LocksTypeOK, SectionsHeld
<1> DEFINE Past == {"queue", "telemetry", "countKind", "stats", "countHit", "done"}
<1>2. MetFirst' <=> \A t \in Tasks : pc'[t] \in Past => pkt'[t].device \in registered'
  BY <1>1 DEF MetFirst, Packeted, At
<1>3. ASSUME registered \subseteq registered',
             \A t \in Tasks : pc'[t] \in Past =>
               pkt'[t] = pkt[t] /\ pc[t] \in Past \cup {"update"}
      PROVE  MetFirst'
  BY <1>2, <1>3 DEF MetFirst, Packeted, At
<1> USE DEF Goto, locking
<1>4. CASE UNCHANGED locksVars
  BY <1>3, <1>4 DEF locksVars, vars
<1>5. ASSUME NEW t \in Tasks, Receives(t) \/ Acquire(t) PROVE MetFirst'
  BY <1>1, <1>3, <1>5 DEF Receives, Receive, Acquire, vars
<1>6. ASSUME NEW t \in Tasks, ParseHeader(t) \/ DeriveKey(t) \/ OpenPayload(t) \/ Unlocked(t)
      PROVE  MetFirst'
  BY <1>1, <1>3, <1>6 DEF ParseHeader, DeriveKey, OpenPayload, Opened, Unlocked,
     RejectMalformed, StoreKeyframe, StoreFails, LookupCache, PutCache
<1>7. ASSUME NEW t \in Tasks, \/ RoutesCdn(t) \/ RegisterDevice(t)
                              \/ UpdateDevice(t) \/ RoutesQueue(t)
      PROVE  MetFirst'
  BY <1>1, <1>3, <1>7 DEF RoutesCdn, RouteCdn, RegisterDevice, UpdateDevice, RoutesQueue,
     RouteQueue
<1>8. ASSUME NEW t \in Tasks, \/ CountPacket(t) \/ CountKind(t)
                              \/ CountRequest(t) \/ CountHit(t)
      PROVE  MetFirst'
  BY <1>1, <1>3, <1>8 DEF CountPacket, CountKind, CountRequest, CountHit
<1>9. ASSUME NEW m \in Monitors, StartReading(m) \/ Acquire(m) \/ Read(m) PROVE MetFirst'
  BY <1>3, <1>9 DEF StartReading, Acquire, Read, ReadStats, ReadTelemetry, ReadDevices,
     vars
<1>10. CASE SetsCdnRouter
  BY <1>3, <1>10 DEF SetsCdnRouter, SetCdnRouter
<1>11. CASE Restarts
  BY <1>2, <1>11 DEF Restarts, Restart
<1> QED
  BY <1>4, <1>5, <1>6, <1>7, <1>8, <1>9, <1>10, <1>11 DEF LocksNext, Advance

(* A monitor that does not move keeps what it has, while the counters grow. *)
LEMMA SeenKept ==
  ASSUME LInv, LInv', SeenBelow, SnapshotsConsistent, UNCHANGED <<at, seen>>,
         telemetry.packets <= telemetry'.packets, registered \subseteq registered'
  PROVE  SeenBelow' /\ SnapshotsConsistent'
<1>1. /\ \A m \in Monitors : seen[m].requests \in Nat
      /\ telemetry.packets \in Nat /\ telemetry'.packets \in Nat
  BY DEF LInv, LocksTypeOK
<1> QED
  BY <1>1 DEF SeenBelow, SnapshotsConsistent

(* What the three accessors leave in a monitor's record. *)
LEMMA Readings ==
  ASSUME LocksTypeOK, NEW m \in Monitors
  PROVE  /\ ReadStats(m) => /\ seen'[m].requests = stats.requests
                            /\ seen'[m].hits = stats.hits
                            /\ seen'[m].packets = seen[m].packets
                            /\ seen'[m].keyframes = seen[m].keyframes
                            /\ seen'[m].deltas = seen[m].deltas
         /\ ReadTelemetry(m) => /\ seen'[m].requests = seen[m].requests
                                /\ seen'[m].hits = seen[m].hits
                                /\ seen'[m].packets = telemetry.packets
                                /\ seen'[m].keyframes = telemetry.keyframes
                                /\ seen'[m].deltas = telemetry.deltas
         /\ ReadDevices(m) => /\ seen'[m].requests = seen[m].requests
                              /\ seen'[m].hits = seen[m].hits
                              /\ seen'[m].packets = seen[m].packets
                              /\ seen'[m].keyframes = seen[m].keyframes
                              /\ seen'[m].deltas = seen[m].deltas
                              /\ seen'[m].devices = Cardinality(registered)
<1>1. seen \in [Monitors -> [requests : Nat, hits : Nat, packets : Nat,
                             keyframes : Nat, deltas : Nat, devices : Nat]]
  BY DEF LocksTypeOK
<1>2. CASE ReadStats(m)
  BY <1>1, <1>2 DEF ReadStats, ReadTelemetry, ReadDevices
<1>3. CASE ReadTelemetry(m)
  BY <1>1, <1>3 DEF ReadStats, ReadTelemetry, ReadDevices
<1>4. CASE ReadDevices(m)
  BY <1>1, <1>4 DEF ReadStats, ReadTelemetry, ReadDevices
<1> QED
  BY <1>2, <1>3, <1>4

(* Every step keeps what a monitor has read below the counters, and its *)
(* snapshots consistent.                                                *)
LEMMA StepSeen ==
  ASSUME LInv, LInv', CountInv, [LocksNext]_locksVars
  PROVE  SeenBelow' /\ SnapshotsConsistent'
<1>1. /\ telemetry \in [packets : Nat, keyframes : Nat, deltas : Nat, bytes : Nat]
      /\ stats \in [requests : Nat, hits : Nat]
      /\ at \in [Monitors -> MonitorStages] /\ DOMAIN seen = Monitors
      /\ CountsHeld /\ MetFirst /\ SeenBelow /\ SnapshotsConsistent
  BY DEF LInv, LocksTypeOK, CountInv
<1> USE DEF locking, counters
<1>2. CASE UNCHANGED locksVars \/ SetsCdnRouter
  BY <1>1, <1>2, SeenKept DEF locksVars, vars, SetsCdnRouter, SetCdnRouter
<1>3. ASSUME NEW t \in Tasks, Receives(t) \/ Acquire(t)
      PROVE  SeenBelow' /\ SnapshotsConsistent'
  BY <1>1, <1>3, SeenKept DEF Receives, Receive, Acquire, vars
<1>4. ASSUME NEW t \in Tasks, ParseHeader(t) \/ DeriveKey(t) \/ OpenPayload(t) \/ Unlocked(t)
      PROVE  SeenBelow' /\ SnapshotsConsistent'
  BY <1>1, <1>4, SeenKept DEF ParseHeader, DeriveKey, OpenPayload, Unlocked,
     RejectMalformed, StoreKeyframe, StoreFails, LookupCache, PutCache
<1>5. ASSUME NEW t \in Tasks, \/ RoutesCdn(t) \/ RegisterDevice(t)
                              \/ UpdateDevice(t) \/ RoutesQueue(t)
      PROVE  SeenBelow' /\ SnapshotsConsistent'
  BY <1>1, <1>5, SeenKept DEF RoutesCdn, RouteCdn, RegisterDevice, UpdateDevice,
     RoutesQueue, RouteQueue
<1>6. ASSUME NEW t \in Tasks, \/ CountPacket(t) \/ CountKind(t)
                              \/ CountRequest(t) \/ CountHit(t)
      PROVE  SeenBelow' /\ SnapshotsConsistent'
  <2>1. UNCHANGED <<at, seen, registered>> /\ telemetry.packets <= telemetry'.packets
    <3>1. CASE CountPacket(t)
      BY <1>1, <3>1 DEF CountPacket
    <3>2. CASE CountKind(t)
      BY <1>1, <3>2 DEF CountKind
    <3>3. CASE CountRequest(t) \/ CountHit(t)
      BY <1>1, <3>3 DEF CountRequest, CountHit
    <3> QED
      BY <1>6, <3>1, <3>2, <3>3
  <2> QED
    BY <1>1, <2>1, SeenKept
<1>7. ASSUME NEW m \in Monitors, StartReading(m) \/ Acquire(m)
      PROVE  SeenBelow' /\ SnapshotsConsistent'
  BY <1>1, <1>7 DEF StartReading, Acquire, vars, SeenBelow, SnapshotsConsistent
<1>8. ASSUME NEW m \in Monitors, ReadStats(m) PROVE SeenBelow' /\ SnapshotsConsistent'
  <2>1. /\ at[m] = "stats" /\ at'[m] = "telemetry" /\ UNCHANGED <<telemetry, registered>>
        /\ \A n \in Monitors : n # m => at'[n] = at[n] /\ seen'[n] = seen[n]
    BY <1>1, <1>8 DEF ReadStats, vars
  <2>2. stats.hits <= stats.requests /\ stats.requests <= telemetry.packets
    BY <1>1, CountedFinite DEF CountsHeld
  <2> QED
    BY <1>1, <1>8, <2>1, <2>2, Readings DEF LInv, SeenBelow, SnapshotsConsistent
<1>9. ASSUME NEW m \in Monitors, ReadTelemetry(m) PROVE SeenBelow' /\ SnapshotsConsistent'
  <2>1. /\ at[m] = "telemetry" /\ at'[m] = "hub" /\ UNCHANGED <<telemetry, registered>>
        /\ lock[TelemetryLock] = m
        /\ \A n \in Monitors : n # m => at'[n] = at[n] /\ seen'[n] = seen[n]
    BY <1>1, <1>9 DEF ReadTelemetry, vars
  <2>2. telemetry.keyframes + telemetry.deltas = telemetry.packets
    BY <1>1, <2>1, OneCounting, LocksAssumption DEF CountsHeld, Threads
  <2>3. telemetry.packets > 0 => registered # {}
    BY <1>1, CountedFinite DEF CountsHeld, MetFirst
  <2> QED
    BY <1>1, <1>9, <2>1, <2>2, <2>3, Readings DEF LInv, SeenBelow, SnapshotsConsistent
<1>10. ASSUME NEW m \in Monitors, ReadDevices(m) PROVE SeenBelow' /\ SnapshotsConsistent'
  <2>1. /\ at[m] = "hub" /\ at'[m] = "finished" /\ UNCHANGED <<telemetry, registered>>
        /\ \A n \in Monitors : n # m => at'[n] = at[n] /\ seen'[n] = seen[n]
    BY <1>1, <1>10 DEF ReadDevices, vars
  <2>2. registered # {} => Cardinality(registered) > 0
    <3>1. IsFiniteSet(registered)
      BY LocksAssumption, FS_Subset DEF LInv, LocksTypeOK
    <3> QED
      BY <3>1, FS_EmptySet, FS_CardinalityType
  <2> QED
    BY <1>1, <1>10, <2>1, <2>2, Readings DEF LInv, SeenBelow, SnapshotsConsistent
<1>11. CASE Restarts
  BY <1>11 DEF Restarts, SeenBelow, SnapshotsConsistent, NothingSeen
<1> QED
  BY <1>2, <1>3, <1>4, <1>5, <1>6, <1>7, <1>8, <1>9, <1>10, <1>11
     DEF LocksNext, Advance, Read

(* What a monitor reads under three mutexes, one after the other, while    *)
(* packets are counted is consistent (ingest.rs, routing_stats,            *)
(* telemetry_snapshot, connected_device_count).                            *)
THEOREM SnapshotsHold == LocksSpec => []SnapshotsConsistent
<1>1. LocksInit => CountInv
  <2> SUFFICES ASSUME LocksInit PROVE CountInv
    OBVIOUS
  <2>1. /\ Packeted = {} /\ Requested = {} /\ telemetry = ZeroTelemetry
        /\ stats = ZeroStats /\ \A t \in Tasks : pc[t] = "idle"
        /\ \A m \in Monitors : seen[m] = NothingSeen /\ at[m] = "idle"
    BY DEF LocksInit, Init, Packeted, Requested, At
  <2> QED
    BY <2>1, FS_EmptySet DEF CountInv, CountsHeld, MetFirst, SeenBelow, At,
       SnapshotsConsistent, NothingSeen, ZeroTelemetry, ZeroStats
<1>2. LInv /\ LInv' /\ CountInv /\ [LocksNext]_locksVars => CountInv'
  BY StepCounts, StepMet, StepSeen DEF CountInv
<1>3. CountInv => SnapshotsConsistent
  BY DEF CountInv
<1> QED
  BY InvInit, InvNext, <1>1, <1>2, <1>3, PTL DEF LocksSpec

-----------------------------------------------------------------------------
(* What the two modules compute from a packet is the same. *)
LEMMA SameOperators ==
  /\ Pipeline!Keys = Keys /\ Pipeline!EmptyCache = EmptyCache /\ Pipeline!EmptyHub = EmptyHub
  /\ Pipeline!ZeroTelemetry = ZeroTelemetry /\ Pipeline!ZeroStats = ZeroStats
  /\ Pipeline!HeaderLen = HeaderLen /\ Pipeline!Connected = Connected
  /\ \A p : /\ Pipeline!RawLen(p) = RawLen(p) /\ Pipeline!FrameKey(p) = FrameKey(p)
            /\ Pipeline!SdfRecord(p) = SdfRecord(p)
            /\ Pipeline!Opens(p) = Opens(p) /\ Pipeline!HasSdf(p) = HasSdf(p)
            /\ Pipeline!IsKeyframe(p) = IsKeyframe(p)
  /\ \A k : Pipeline!Evictions(cache, k) = Evictions(cache, k)
<1>1. /\ \A d, v : Pipeline!CacheKey(d, v) = CacheKey(d, v)
      /\ \A p : Pipeline!RawLen(p) = RawLen(p)
      /\ Pipeline!HeaderLen = HeaderLen
  BY
     DEF Pipeline!CacheKey, CacheKey, Pipeline!RawLen, RawLen, Pipeline!HeaderLen,
     HeaderLen
<1>2. \A p : Pipeline!PayloadLen(p) = PayloadLen(p)
  BY <1>1 DEF Pipeline!PayloadLen, PayloadLen
<1>3. \A p : /\ Pipeline!IsKeyframe(p) = IsKeyframe(p) /\ Pipeline!Opens(p) = Opens(p)
             /\ Pipeline!FrameKey(p) = FrameKey(p) /\ Pipeline!SdfRecord(p) = SdfRecord(p)
  BY <1>1, <1>2
     DEF Pipeline!IsKeyframe, IsKeyframe, Pipeline!Opens, Opens, Pipeline!FrameKey,
     FrameKey, Pipeline!SdfRecord, SdfRecord
<1>4. \A p : Pipeline!HasSdf(p) = HasSdf(p)
  BY <1>2, <1>3 DEF Pipeline!HasSdf, HasSdf
<1>5. /\ Pipeline!Keys = Keys /\ Pipeline!EmptyHub = EmptyHub
      /\ Pipeline!ZeroTelemetry = ZeroTelemetry /\ Pipeline!ZeroStats = ZeroStats
      /\ Pipeline!Connected = Connected
  BY <1>1 DEF Pipeline!Keys, Keys, Pipeline!EmptyHub, EmptyHub, Pipeline!ZeroTelemetry,
     ZeroTelemetry, Pipeline!ZeroStats, ZeroStats, Pipeline!Connected, Connected
<1>6. Pipeline!EmptyCache = EmptyCache
  BY <1>5 DEF Pipeline!EmptyCache, EmptyCache
<1>7. ASSUME NEW k PROVE Pipeline!Evictions(cache, k) = Evictions(cache, k)
  <2> DEFINE others == {j \in Keys : j # k /\ cache[j] # NoFrame}
  <2>1. Evictions(cache, k) = IF Cardinality(others) < CacheCapacity THEN {{}}
                              ELSE {{j} : j \in others}
    BY DEF Evictions
  <2>2. {j \in Pipeline!Keys : j # k /\ cache[j] # NoFrame} = others
    BY <1>5
  <2>3. \A S : Pipeline!Cardinality(S) = Cardinality(S)
    BY Zenon DEF Pipeline!Cardinality, Cardinality
  <2>4. Pipeline!Evictions(cache, k) = IF Cardinality(others) < CacheCapacity THEN {{}}
                                       ELSE {{j} : j \in others}
    BY <2>2, <2>3 DEF Pipeline!Evictions
  <2> QED
    BY <2>1, <2>4
<1> QED
  BY <1>1, <1>3, <1>4, <1>5, <1>6, <1>7

(* A step of task t moves its mapped stage only. *)
LEMMA MapGoto ==
  ASSUME Types, NEW t \in Tasks, NEW s, pc' = [pc EXCEPT ![t] = s], UNCHANGED pkt
  PROVE  StagesThen' = [StagesThen EXCEPT ![t] = StageOf(t)']
BY DEF Types, StagesThen, StageOf

(* The counters as IngestPipeline sees them depend on who is halfway       *)
(* through counting, whoever else moves.                                   *)
LEMMA TelemetryKept ==
  ASSUME LInv, LInv', UNCHANGED telemetry,
         \A u \in Tasks : (pc[u] = "countKind" <=> pc'[u] = "countKind"),
         \A u \in Tasks : pc[u] = "countKind" => pkt'[u] = pkt[u]
  PROVE  TelemetryThen' = TelemetryThen
<1>1. CASE \E u \in Tasks : pc[u] = "countKind"
  <2>1. PICK u \in Tasks : pc[u] = "countKind"
    BY <1>1
  <2>2. lock[TelemetryLock] = u /\ lock'[TelemetryLock] = u
    BY <2>1 DEF LInv, SectionsHeld
  <2> QED
    BY <2>1, <2>2 DEF TelemetryThen, Counting
<1>2. CASE ~\E u \in Tasks : pc[u] = "countKind"
  BY <1>2 DEF TelemetryThen, Counting
<1> QED
  BY <1>1, <1>2

(* A step that leaves the stats and the tasks about to count a hit alone *)
(* leaves the counters as the coarse model has them.                     *)
LEMMA StatsKept ==
  ASSUME LInv, LInv', UNCHANGED stats,
         \A u \in Tasks : (pc[u] = "countHit" <=> pc'[u] = "countHit"),
         \A u \in Tasks : pc[u] = "countHit" => hit'[u] = hit[u]
  PROVE  StatsThen' = StatsThen
<1>1. CASE \E u \in Tasks : pc[u] = "countHit"
  <2>1. PICK u \in Tasks : pc[u] = "countHit"
    BY <1>1
  <2>2. lock[StatsLock] = u /\ lock'[StatsLock] = u
    BY <2>1 DEF LInv, SectionsHeld
  <2> QED
    BY <2>1, <2>2 DEF StatsThen, Counting
<1>2. CASE ~\E u \in Tasks : pc[u] = "countHit"
  BY <1>2 DEF StatsThen, Counting
<1> QED
  BY <1>1, <1>2

(* The initial states are initial states of the pipeline. *)
LEMMA RefineInit == LocksInit => Pipeline!Init
<1> SUFFICES ASSUME LocksInit PROVE Pipeline!Init
  OBVIOUS
<1>1. StagesThen = [t \in Tasks |-> "idle"]
  BY DEF LocksInit, Init, StagesThen, StageOf
<1>2. TelemetryThen = telemetry /\ StatsThen = stats
  BY DEF LocksInit, Init, TelemetryThen, StatsThen, Counting
<1> QED
  BY <1>1, <1>2, SameOperators DEF LocksInit, Init, Pipeline!Init

(* Every step is a step of the pipeline or changes nothing it sees. *)
LEMMA RefineStep ==
  ASSUME LInv, LInv', [LocksNext]_locksVars PROVE [Pipeline!Next]_(Pipeline!vars)
<1>1. Types /\ SectionsHeld
  BY DEF LInv, LocksTypeOK, Types
<1> USE <1>1 DEF Types, locking, locals, stores, counters, Goto, Pipeline!Goto,
    Pipeline!vars, Pipeline!locals, Pipeline!stores, Pipeline!counters
<1>2. CASE UNCHANGED locksVars
  BY <1>2 DEF locksVars, vars, StagesThen, StageOf, TelemetryThen, StatsThen, Counting
<1>3. ASSUME NEW t \in Tasks, Receives(t) PROVE [Pipeline!Next]_(Pipeline!vars)
  <2>1. StagesThen' = [StagesThen EXCEPT ![t] = "received"] /\ StagesThen[t] = "idle"
    BY <1>3 DEF Receives, Receive, StagesThen, StageOf
  <2>2. TelemetryThen' = TelemetryThen
    BY <1>3, TelemetryKept DEF Receives, Receive
  <2>3. StatsThen' = StatsThen
    BY <1>3, StatsKept DEF Receives, Receive
  <2>4. Pipeline!Receive(t)
    BY <1>3, <2>1, <2>2, <2>3 DEF Receives, Receive, Pipeline!Receive
  <2> QED
    BY <2>4 DEF Pipeline!Next
<1>4. ASSUME NEW t \in Tasks, ParseHeader(t) PROVE [Pipeline!Next]_(Pipeline!vars)
  <2>1. StagesThen' = [StagesThen EXCEPT ![t] = StageOf(t)']
    BY <1>4, MapGoto DEF ParseHeader
  <2>2. /\ StageOf(t) = "received" /\ StageOf(t)' = "received"
        /\ StagesThen[t] = StageOf(t)
    BY <1>4, StageSets DEF ParseHeader, StageOf, StagesThen
  <2>3. TelemetryThen' = TelemetryThen
    BY <1>4, TelemetryKept DEF ParseHeader
  <2>4. StatsThen' = StatsThen
    BY <1>4, StatsKept DEF ParseHeader
  <2>5. StagesThen' = StagesThen
    BY <2>1, <2>2 DEF StagesThen
  <2> QED
    BY <1>4, <2>5, <2>3, <2>4 DEF ParseHeader
<1>5. ASSUME NEW t \in Tasks, DeriveKey(t) PROVE [Pipeline!Next]_(Pipeline!vars)
  <2>1. StagesThen' = [StagesThen EXCEPT ![t] = StageOf(t)']
    BY <1>5, MapGoto DEF DeriveKey
  <2>2. /\ StageOf(t) = "received" /\ StageOf(t)' = Opened(pkt[t])
        /\ StagesThen[t] = StageOf(t)
    BY <1>5, StageSets DEF DeriveKey, StageOf, StagesThen
  <2>3. TelemetryThen' = TelemetryThen
    BY <1>5, TelemetryKept DEF DeriveKey
  <2>4. StatsThen' = StatsThen
    BY <1>5, StatsKept DEF DeriveKey
  <2>5. RawLen(pkt[t]) >= HeaderLen
    BY <1>5 DEF DeriveKey, SectionsHeld
  <2>6. Pipeline!Decrypt(t)
    BY <1>5, <2>1, <2>2, <2>3, <2>4, <2>5, SameOperators
       DEF DeriveKey, Pipeline!Decrypt, Opened
  <2> QED
    BY <2>6 DEF Pipeline!Next, Pipeline!Process
<1>6. ASSUME NEW t \in Tasks, OpenPayload(t) PROVE [Pipeline!Next]_(Pipeline!vars)
  <2>1. /\ pc'[t] = Opened(pkt[t]) /\ pkt'[t] = pkt[t] /\ pc[t] = "open"
        /\ Opened(pkt[t]) \in {"undecryptable", "store", "lookup"}
    BY <1>6 DEF OpenPayload, Opened
  <2>2. StagesThen' = [StagesThen EXCEPT ![t] = StageOf(t)']
    BY <1>6, MapGoto DEF OpenPayload
  <2>3. /\ StageOf(t) = Opened(pkt[t]) /\ StageOf(t)' = Opened(pkt[t])
        /\ StagesThen[t] = StageOf(t)
    BY <1>6, <2>1, StageSets DEF OpenPayload, StageOf, StagesThen
  <2>4. TelemetryThen' = TelemetryThen
    BY <1>6, <2>1, TelemetryKept DEF OpenPayload
  <2>5. StatsThen' = StatsThen
    BY <1>6, <2>1, StatsKept DEF OpenPayload
  <2>6. StagesThen' = StagesThen
    BY <2>2, <2>3 DEF StagesThen
  <2> QED
    BY <1>6, <2>6, <2>4, <2>5 DEF OpenPayload
<1>7. ASSUME NEW t \in Tasks, RejectMalformed(t) PROVE [Pipeline!Next]_(Pipeline!vars)
  <2>1. StagesThen' = [StagesThen EXCEPT ![t] = StageOf(t)']
    BY <1>7, MapGoto DEF RejectMalformed
  <2>2. /\ StageOf(t) = "received" /\ StageOf(t)' = "malformed"
        /\ StagesThen[t] = StageOf(t)
    BY <1>7, StageSets DEF RejectMalformed, StageOf, StagesThen
  <2>3. TelemetryThen' = TelemetryThen
    BY <1>7, TelemetryKept DEF RejectMalformed
  <2>4. StatsThen' = StatsThen
    BY <1>7, StatsKept DEF RejectMalformed
  <2>5. Pipeline!RejectMalformed(t)
    BY <1>7, <2>1, <2>2, <2>3, <2>4, SameOperators
       DEF RejectMalformed, Pipeline!RejectMalformed
  <2> QED
    BY <2>5 DEF Pipeline!Next, Pipeline!Process
<1>8. ASSUME NEW t \in Tasks, StoreKeyframe(t) PROVE [Pipeline!Next]_(Pipeline!vars)
  <2>1. StagesThen' = [StagesThen EXCEPT ![t] = StageOf(t)']
    BY <1>8, MapGoto DEF StoreKeyframe
  <2>2. /\ StageOf(t) = "store" /\ StageOf(t)' = "route"
        /\ StagesThen[t] = StageOf(t)
    BY <1>8, StageSets DEF StoreKeyframe, StageOf, StagesThen
  <2>3. TelemetryThen' = TelemetryThen
    BY <1>8, TelemetryKept DEF StoreKeyframe
  <2>4. StatsThen' = StatsThen
    BY <1>8, StatsKept DEF StoreKeyframe
  <2>5. Pipeline!StoreKeyframe(t)
    BY <1>8, <2>1, <2>2, <2>3, <2>4, SameOperators
       DEF StoreKeyframe, Pipeline!StoreKeyframe
  <2> QED
    BY <2>5 DEF Pipeline!Next, Pipeline!Process
<1>9. ASSUME NEW t \in Tasks, StoreFails(t) PROVE [Pipeline!Next]_(Pipeline!vars)
  <2>1. StagesThen' = [StagesThen EXCEPT ![t] = StageOf(t)']
    BY <1>9, MapGoto DEF StoreFails
  <2>2. /\ StageOf(t) = "store" /\ StageOf(t)' = "storageError"
        /\ StagesThen[t] = StageOf(t)
    BY <1>9, StageSets DEF StoreFails, StageOf, StagesThen
  <2>3. TelemetryThen' = TelemetryThen
    BY <1>9, TelemetryKept DEF StoreFails
  <2>4. StatsThen' = StatsThen
    BY <1>9, StatsKept DEF StoreFails
  <2>5. Pipeline!StoreFails(t)
    BY <1>9, <2>1, <2>2, <2>3, <2>4, SameOperators DEF StoreFails, Pipeline!StoreFails
  <2> QED
    BY <2>5 DEF Pipeline!Next, Pipeline!Process
<1>10. ASSUME NEW t \in Tasks, LookupCache(t) PROVE [Pipeline!Next]_(Pipeline!vars)
  <2>1. StagesThen' = [StagesThen EXCEPT ![t] = StageOf(t)']
    BY <1>10, MapGoto DEF LookupCache
  <2>2. /\ StageOf(t) = "lookup" /\ StageOf(t)' = "put"
        /\ StagesThen[t] = StageOf(t)
    BY <1>10, StageSets DEF LookupCache, StageOf, StagesThen
  <2>3. TelemetryThen' = TelemetryThen
    BY <1>10, TelemetryKept DEF LookupCache
  <2>4. StatsThen' = StatsThen
    BY <1>10, StatsKept DEF LookupCache
  <2>5. Pipeline!LookupCache(t)
    BY <1>10, <2>1, <2>2, <2>3, <2>4, SameOperators DEF LookupCache, Pipeline!LookupCache
  <2> QED
    BY <2>5 DEF Pipeline!Next, Pipeline!Process
<1>11. ASSUME NEW t \in Tasks, PutCache(t) PROVE [Pipeline!Next]_(Pipeline!vars)
  <2>1. StagesThen' = [StagesThen EXCEPT ![t] = StageOf(t)']
    BY <1>11, MapGoto DEF PutCache
  <2>2. /\ StageOf(t) = "put" /\ StageOf(t)' = "sync"
        /\ StagesThen[t] = StageOf(t)
    BY <1>11, StageSets DEF PutCache, StageOf, StagesThen
  <2>3. TelemetryThen' = TelemetryThen
    BY <1>11, TelemetryKept DEF PutCache
  <2>4. StatsThen' = StatsThen
    BY <1>11, StatsKept DEF PutCache
  <2>5. Pipeline!PutCache(t)
    BY <1>11, <2>1, <2>2, <2>3, <2>4, SameOperators DEF PutCache, Pipeline!PutCache
  <2> QED
    BY <2>5 DEF Pipeline!Next, Pipeline!Process
<1>12. ASSUME NEW t \in Tasks, RoutesCdn(t) PROVE [Pipeline!Next]_(Pipeline!vars)
  <2>1. StagesThen' = [StagesThen EXCEPT ![t] = StageOf(t)']
    BY <1>12, MapGoto DEF RoutesCdn, RouteCdn
  <2>2. /\ StageOf(t) = "route" /\ StageOf(t)' = "lookup"
        /\ StagesThen[t] = StageOf(t)
    BY <1>12, StageSets DEF RoutesCdn, RouteCdn, StageOf, StagesThen
  <2>3. TelemetryThen' = TelemetryThen
    BY <1>12, TelemetryKept DEF RoutesCdn, RouteCdn
  <2>4. StatsThen' = StatsThen
    BY <1>12, StatsKept DEF RoutesCdn, RouteCdn
  <2>5. Pipeline!RouteCdn(t)
    BY <1>12, <2>1, <2>2, <2>3, <2>4, SameOperators
       DEF RoutesCdn, RouteCdn, Pipeline!RouteCdn
  <2> QED
    BY <2>5 DEF Pipeline!Next, Pipeline!Process
<1>13. ASSUME NEW t \in Tasks, RegisterDevice(t) PROVE [Pipeline!Next]_(Pipeline!vars)
  <2>1. StagesThen' = [StagesThen EXCEPT ![t] = StageOf(t)']
    BY <1>13, MapGoto DEF RegisterDevice
  <2>2. /\ StageOf(t) = "sync" /\ StageOf(t)' = "sync"
        /\ StagesThen[t] = StageOf(t)
    BY <1>13, StageSets DEF RegisterDevice, StageOf, StagesThen
  <2>3. TelemetryThen' = TelemetryThen
    BY <1>13, TelemetryKept DEF RegisterDevice
  <2>4. StatsThen' = StatsThen
    BY <1>13, StatsKept DEF RegisterDevice
  <2>5. StagesThen' = StagesThen
    BY <2>1, <2>2 DEF StagesThen
  <2> QED
    BY <1>13, <2>5, <2>3, <2>4 DEF RegisterDevice
<1>14. ASSUME NEW t \in Tasks, UpdateDevice(t) PROVE [Pipeline!Next]_(Pipeline!vars)
  <2>1. StagesThen' = [StagesThen EXCEPT ![t] = StageOf(t)']
    BY <1>14, MapGoto DEF UpdateDevice
  <2>2. /\ StageOf(t) = "sync" /\ StageOf(t)' = "queue"
        /\ StagesThen[t] = StageOf(t)
    BY <1>14, StageSets DEF UpdateDevice, StageOf, StagesThen
  <2>3. TelemetryThen' = TelemetryThen
    BY <1>14, TelemetryKept DEF UpdateDevice
  <2>4. StatsThen' = StatsThen
    BY <1>14, StatsKept DEF UpdateDevice
  <2>5. registered \ {pkt[t].device} = Connected \ {pkt[t].device}
    <3>1. lock[HubLock] = t
      BY <1>14 DEF UpdateDevice
    <3>2. ASSUME NEW d \in DeviceIds, d # pkt[t].device
          PROVE  d \in registered <=> hub[d] # NoVersion
      <4>1. ASSUME d \in registered, hub[d] = NoVersion PROVE FALSE
        <5>1. PICK u \in Tasks : pc[u] = "update" /\ pkt[u].device = d
          BY <4>1 DEF LInv, HubSettled
        <5>2. lock[HubLock] = u
          BY <5>1 DEF SectionsHeld
        <5> QED
          BY <3>1, <3>2, <5>1, <5>2
      <4> QED
        BY <4>1 DEF LInv, HubSettled
    <3> QED
      BY <3>2 DEF Connected
  <2>6. Pipeline!SyncHub(t)
    BY <1>14, <2>1, <2>2, <2>3, <2>4, <2>5, SameOperators
       DEF UpdateDevice, Pipeline!SyncHub
  <2> QED
    BY <2>6 DEF Pipeline!Next, Pipeline!Process
<1>15. ASSUME NEW t \in Tasks, RoutesQueue(t) PROVE [Pipeline!Next]_(Pipeline!vars)
  <2>1. StagesThen' = [StagesThen EXCEPT ![t] = StageOf(t)']
    BY <1>15, MapGoto DEF RoutesQueue, RouteQueue
  <2>2. /\ StageOf(t) = "queue" /\ StageOf(t)' = "telemetry"
        /\ StagesThen[t] = StageOf(t)
    BY <1>15, StageSets DEF RoutesQueue, RouteQueue, StageOf, StagesThen
  <2>3. TelemetryThen' = TelemetryThen
    BY <1>15, TelemetryKept DEF RoutesQueue, RouteQueue
  <2>4. StatsThen' = StatsThen
    BY <1>15, StatsKept DEF RoutesQueue, RouteQueue
  <2>5. Pipeline!RouteQueue(t)
    BY <1>15, <2>1, <2>2, <2>3, <2>4, SameOperators
       DEF RoutesQueue, RouteQueue, Pipeline!RouteQueue
  <2> QED
    BY <2>5 DEF Pipeline!Next, Pipeline!Process
<1>16. ASSUME NEW t \in Tasks, CountPacket(t) PROVE [Pipeline!Next]_(Pipeline!vars)
  <2> DEFINE p == pkt[t]
  <2>1. StagesThen' = [StagesThen EXCEPT ![t] = "stats"] /\ StagesThen[t] = "telemetry"
    BY <1>16, MapGoto DEF CountPacket, StageOf, StagesThen
  <2>2. StatsThen' = StatsThen
    BY <1>16, StatsKept DEF CountPacket
  <2>3. TelemetryThen = telemetry
    BY <1>16 DEF CountPacket, TelemetryThen, Counting
  <2>4. TelemetryThen' = IF IsKeyframe(p) THEN [telemetry' EXCEPT !.keyframes = @ + 1]
                         ELSE [telemetry' EXCEPT !.deltas = @ + 1]
    BY <1>16 DEF CountPacket, TelemetryThen, Counting
  <2>5. telemetry' = [packets |-> telemetry.packets + 1, keyframes |-> telemetry.keyframes,
                      deltas |-> telemetry.deltas, bytes |-> telemetry.bytes + RawLen(p)]
    BY <1>16 DEF CountPacket
  <2>6. TelemetryThen' =
          [packets   |-> telemetry.packets + 1,
           keyframes |-> telemetry.keyframes + (IF IsKeyframe(p) THEN 1 ELSE 0),
           deltas    |-> telemetry.deltas + (IF IsKeyframe(p) THEN 0 ELSE 1),
           bytes     |-> telemetry.bytes + RawLen(p)]
    <3> HIDE DEF p
    <3>1. telemetry.keyframes \in Nat /\ telemetry.deltas \in Nat
      OBVIOUS
    <3>2. CASE IsKeyframe(p)
      BY <2>4, <2>5, <3>1, <3>2
    <3>3. CASE ~IsKeyframe(p)
      BY <2>4, <2>5, <3>1, <3>3
    <3> QED
      BY <3>2, <3>3
  <2>7. Pipeline!RecordTelemetry(t)
    BY <1>16, <2>1, <2>2, <2>3, <2>6, SameOperators
       DEF CountPacket, Pipeline!RecordTelemetry
  <2> QED
    BY <2>7 DEF Pipeline!Next, Pipeline!Process
<1>17. ASSUME NEW t \in Tasks, CountKind(t) PROVE [Pipeline!Next]_(Pipeline!vars)
  <2>1. StagesThen' = StagesThen
    <3>1. StagesThen' = [StagesThen EXCEPT ![t] = StageOf(t)']
      BY <1>17, MapGoto DEF CountKind
    <3>2. StageOf(t)' = "stats" /\ StagesThen[t] = "stats"
      BY <1>17 DEF CountKind, StageOf, StagesThen
    <3> QED
      BY <3>1, <3>2 DEF StagesThen
  <2>2. StatsThen' = StatsThen
    BY <1>17, StatsKept DEF CountKind
  <2>3. TelemetryThen = telemetry'
    BY <1>17 DEF CountKind, TelemetryThen, Counting
  <2>4. TelemetryThen' = telemetry'
    BY <1>17, LocksAssumption DEF CountKind, Release, TelemetryThen, Counting, Threads
  <2> QED
    BY <1>17, <2>1, <2>2, <2>3, <2>4 DEF CountKind
<1>18. ASSUME NEW t \in Tasks, CountRequest(t) PROVE [Pipeline!Next]_(Pipeline!vars)
  <2>1. StagesThen' = [StagesThen EXCEPT ![t] = "done"] /\ StagesThen[t] = "stats"
    BY <1>18, MapGoto DEF CountRequest, StageOf, StagesThen
  <2>2. TelemetryThen' = TelemetryThen
    BY <1>18, TelemetryKept DEF CountRequest
  <2>3. StatsThen = stats
    BY <1>18 DEF CountRequest, StatsThen, Counting
  <2>4. StatsThen' = IF hit[t] THEN [stats' EXCEPT !.hits = @ + 1] ELSE stats'
    BY <1>18 DEF CountRequest, StatsThen, Counting
  <2>5. stats' = [requests |-> stats.requests + 1, hits |-> stats.hits]
    BY <1>18 DEF CountRequest
  <2>6. StatsThen' = [requests |-> stats.requests + 1,
                      hits     |-> stats.hits + (IF hit[t] THEN 1 ELSE 0)]
    <3>1. stats.hits \in Nat
      OBVIOUS
    <3>2. CASE hit[t]
      BY <2>4, <2>5, <3>1, <3>2
    <3>3. CASE ~hit[t]
      BY <2>4, <2>5, <3>1, <3>3
    <3> QED
      BY <3>2, <3>3
  <2>7. Pipeline!RecordStats(t)
    BY <1>18, <2>1, <2>2, <2>3, <2>6 DEF CountRequest, Pipeline!RecordStats
  <2> QED
    BY <2>7 DEF Pipeline!Next, Pipeline!Process
<1>19. ASSUME NEW t \in Tasks, CountHit(t) PROVE [Pipeline!Next]_(Pipeline!vars)
  <2>1. StagesThen' = StagesThen
    <3>1. StagesThen' = [StagesThen EXCEPT ![t] = StageOf(t)']
      BY <1>19, MapGoto DEF CountHit
    <3>2. StageOf(t)' = "done" /\ StagesThen[t] = "done"
      BY <1>19 DEF CountHit, StageOf, StagesThen
    <3> QED
      BY <3>1, <3>2 DEF StagesThen
  <2>2. TelemetryThen' = TelemetryThen
    BY <1>19, TelemetryKept DEF CountHit
  <2>3. StatsThen = IF hit[t] THEN [stats EXCEPT !.hits = @ + 1] ELSE stats
    BY <1>19 DEF CountHit, StatsThen, Counting
  <2>4. StatsThen' = stats'
    BY <1>19, LocksAssumption DEF CountHit, Release, StatsThen, Counting, Threads
  <2>5. stats' = StatsThen
    <3>1. CASE hit[t]
      BY <1>19, <2>3, <3>1 DEF CountHit
    <3>2. CASE ~hit[t]
      <4>1. stats' = [stats EXCEPT !.hits = stats.hits + 0] /\ stats.hits + 0 = stats.hits
        BY <1>19, <3>2 DEF CountHit
      <4> QED
        BY <2>3, <3>2, <4>1
    <3> QED
      BY <3>1, <3>2
  <2> QED
    BY <1>19, <2>1, <2>2, <2>4, <2>5 DEF CountHit
<1>20. ASSUME NEW x \in Threads, Acquire(x) PROVE [Pipeline!Next]_(Pipeline!vars)
  <2>1. UNCHANGED vars /\ UNCHANGED <<pc, pkt, hit, telemetry, stats>>
    BY <1>20 DEF Acquire, vars
  <2>2. StagesThen' = StagesThen
    BY <2>1 DEF StagesThen, StageOf
  <2>3. TelemetryThen' = TelemetryThen
    BY <2>1, TelemetryKept
  <2>4. StatsThen' = StatsThen
    BY <2>1, StatsKept
  <2> QED
    BY <2>1, <2>2, <2>3, <2>4 DEF vars
<1>21. ASSUME NEW m \in Monitors, StartReading(m) \/ Read(m)
      PROVE  [Pipeline!Next]_(Pipeline!vars)
  <2>1. UNCHANGED vars /\ UNCHANGED <<pc, pkt, hit, telemetry, stats>>
    BY <1>21 DEF StartReading, Read, ReadStats, ReadTelemetry, ReadDevices, vars
  <2>2. StagesThen' = StagesThen
    BY <2>1 DEF StagesThen, StageOf
  <2>3. TelemetryThen' = TelemetryThen
    BY <2>1, TelemetryKept
  <2>4. StatsThen' = StatsThen
    BY <2>1, StatsKept
  <2> QED
    BY <2>1, <2>2, <2>3, <2>4 DEF vars
<1>22. CASE SetsCdnRouter
  <2>1. UNCHANGED <<pc, pkt, hit, telemetry, stats>>
    BY <1>22 DEF SetsCdnRouter, SetCdnRouter
  <2>2. StagesThen' = StagesThen
    BY <2>1 DEF StagesThen, StageOf
  <2>3. TelemetryThen' = TelemetryThen
    BY <2>1, TelemetryKept
  <2>4. StatsThen' = StatsThen
    BY <2>1, StatsKept
  <2>5. Pipeline!SetCdnRouter
    BY <1>22, <2>2, <2>3, <2>4 DEF SetsCdnRouter, SetCdnRouter, Pipeline!SetCdnRouter
  <2> QED
    BY <2>5 DEF Pipeline!Next
<1>23. CASE Restarts
  <2>1. StagesThen' = [t \in Tasks |-> IF StagesThen[t] = "idle" THEN "idle" ELSE "gone"]
    <3>1. ASSUME NEW t \in Tasks PROVE StageOf(t) = "idle" <=> pc[t] = "idle"
      BY DEF StageOf, Opened
    <3>2. ASSUME NEW t \in Tasks PROVE StageOf(t)' = IF pc[t] = "idle" THEN "idle" ELSE "gone"
      BY <1>23 DEF Restarts, Restart, StageOf
    <3> QED
      BY <3>1, <3>2 DEF StagesThen
  <2>2. TelemetryThen' = ZeroTelemetry /\ StatsThen' = ZeroStats
    BY <1>23, LocksAssumption
       DEF Restarts, Restart, TelemetryThen, StatsThen, Counting, Threads
  <2>3. Pipeline!Restart
    BY <1>23, <2>1, <2>2, SameOperators DEF Restarts, Restart, Pipeline!Restart
  <2> QED
    BY <2>3 DEF Pipeline!Next
<1> QED
  BY <1>2, <1>3, <1>4, <1>5, <1>6, <1>7, <1>8, <1>9, <1>10, <1>11, <1>12, <1>13, <1>14,
     <1>15, <1>16, <1>17, <1>18, <1>19, <1>20, <1>21, <1>22, <1>23
     DEF LocksNext, Advance, Unlocked, Threads

(* The tasks that take the mutexes of ingest.rs one by one behave as if    *)
(* every section were atomic: each of their steps, restarts included, is a *)
(* step of IngestPipeline or changes nothing there.                        *)
THEOREM LocksImplementPipeline ==
  LocksSpec => Pipeline!Init /\ [][Pipeline!Next]_(Pipeline!vars)
BY InvInit, InvNext, RefineInit, RefineStep, PTL DEF LocksSpec

=============================================================================
