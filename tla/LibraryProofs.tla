--------------------------- MODULE LibraryProofs ---------------------------
(***************************************************************************)
(* Theorems about the key store, the queue bridge, the orchestrator, the   *)
(* metrics registry, the telemetry and the advisory holds, for any number  *)
(* of threads, devices, queues, containers, packets and advisories, and    *)
(* about the whole they make up.                                           *)
(***************************************************************************)
EXTENDS MCLibrary, Sums, SequenceTheorems

-----------------------------------------------------------------------------
(* The key store.  From its lookup to its insert a thread holds the mutex, *)
(* and nobody is in between at another's cost: so a thread that missed     *)
(* still misses when it inserts, and no eviction came in between.          *)
KeysInv ==
  /\ KeysTypeOK
  /\ \A t \in KeyThreads : deriving[t] \in {"finding", "inserting"} => keyMutex = t
  /\ \A t \in KeyThreads : deriving[t] = "inserting" =>
       device[t] \notin keyCache /\ missedAt[t] = evictions[device[t]]
  /\ \A d \in KeyDevices : IF d \in keyCache THEN derived[d] <= evictions[d] + 1
                           ELSE derived[d] <= evictions[d]
  /\ NoStaleInsert

(* The key cache starts within its invariant. *)
LEMMA KeysInvInit == KeysInit => KeysInv
BY KeysAssumption DEF KeysInit, KeysInv, KeysTypeOK, NoStaleInsert

(* Every operation on the keys keeps the invariant. *)
LEMMA KeysInvNext == KeysInv /\ [KeysNext]_keysVars => KeysInv'
<1> SUFFICES ASSUME KeysInv, [KeysNext]_keysVars PROVE KeysInv'
  OBVIOUS
<1> USE KeysAssumption DEF KeysInv, KeysTypeOK, NoStaleInsert, At, UnlockKeys
<1>1. ASSUME NEW t \in KeyThreads, Ask(t) PROVE KeysInv'
  BY <1>1 DEF Ask
<1>2. ASSUME NEW t \in KeyThreads, LockKeys(t) PROVE KeysInv'
  BY <1>2 DEF LockKeys
<1>3. ASSUME NEW t \in KeyThreads, FindKey(t) PROVE KeysInv'
  BY <1>3 DEF FindKey
<1>4. ASSUME NEW t \in KeyThreads, MissKey(t) PROVE KeysInv'
  BY <1>4 DEF MissKey
<1>5. ASSUME NEW t \in KeyThreads, InsertKey(t) PROVE KeysInv'
  BY <1>5 DEF InsertKey
<1>6. ASSUME NEW D \in SUBSET KeyDevices, Evict(D) PROVE KeysInv'
  BY <1>6 DEF Evict
<1>7. CASE UNCHANGED keysVars
  BY <1>7 DEF keysVars
<1> QED
  BY <1>1, <1>2, <1>3, <1>4, <1>5, <1>6, <1>7 DEF KeysNext, RevokeDevice, ClearCache

(* A derivation that began before a revocation never puts the key back     *)
(* after it (device_keys.rs:51), for any threads and devices.              *)
THEOREM RevocationHolds == KeysSpec => []NoStaleInsert
<1>1. KeysInv => NoStaleInsert
  BY DEF KeysInv
<1> QED
  BY KeysInvInit, KeysInvNext, <1>1, PTL DEF KeysSpec

(* However many threads ask, a key is derived once between two evictions   *)
(* (device_keys.rs:39-48).                                                 *)
THEOREM DerivedOnce == KeysSpec => []DerivedOncePerEviction
<1>1. KeysInv => DerivedOncePerEviction
  BY DEF KeysInv, KeysTypeOK, DerivedOncePerEviction
<1> QED
  BY KeysInvInit, KeysInvNext, <1>1, PTL DEF KeysSpec

-----------------------------------------------------------------------------
(* The queue bridge.  The bytes on the wire are those of the message that  *)
(* was sent, cut at most at their end.                                     *)
QueueInv ==
  /\ queueCount \in Nat \ {0}
  /\ wire # NoMessage =>
       /\ sent \in GatewayMessage
       /\ wire = [ToBytes(sent) EXCEPT !.size = wire.size]
       /\ wire.size \in Int /\ wire.size <= HeaderBytes + sent.payload
  /\ received # NoMessage =>
       /\ wire # NoMessage
       /\ received = Decoded(wire) /\ wire.size >= HeaderBytes + wire.length
  /\ \A r \in routed : r.queue < queueCount
                       /\ IF r.critical THEN r.queue = 0 ELSE r.queue = r.key % queueCount

(* What the queue needs of the remainder. *)
LEMMA Modulo ==
  ASSUME NEW a \in Nat, NEW n \in Nat \ {0}
  PROVE  a % n \in Nat /\ a % n < n /\ a % n <= a /\ (a < n => a % n = a)
OBVIOUS

(* A priority's byte decodes to the priority. *)
LEMMA PriorityDecoded ==
  ASSUME NEW p \in DOMAIN Priorities
  PROVE  (CHOOSE q \in DOMAIN Priorities : Priorities[q] = Priorities[p]) = p
BY DEF Priorities

(* A message survives its header, all but the payload's length above *)
(* LengthRange.                                                      *)
LEMMA DecodedFields ==
  ASSUME NEW m \in GatewayMessage, NEW s,
         NEW b, b = [ToBytes(m) EXCEPT !.size = s]
  PROVE  /\ b.size = s /\ b.length = m.payload % LengthRange
         /\ Decoded(b) = [m EXCEPT !.payload = m.payload % LengthRange]
         /\ Decoded(b) \in [device : Devices, priority : DOMAIN Priorities,
                            routing_key : RoutingKeys, payload : Nat]
<1>1. /\ b.device = m.device /\ b.code = Priorities[m.priority]
      /\ b.routing_key = m.routing_key /\ b.length = m.payload % LengthRange /\ b.size = s
  BY DEF ToBytes
<1>2. m.payload % LengthRange \in Nat
  BY QueueAssumption, Modulo DEF GatewayMessage
<1>3. (CHOOSE q \in DOMAIN Priorities : Priorities[q] = b.code) = m.priority
  BY <1>1, PriorityDecoded DEF GatewayMessage
<1>4. Decoded(b) = [device |-> m.device, priority |-> m.priority,
                    routing_key |-> m.routing_key, payload |-> m.payload % LengthRange]
  BY <1>1, <1>3 DEF Decoded
<1> QED
  BY <1>1, <1>2, <1>4 DEF GatewayMessage

(* The queue starts within its invariant. *)
LEMMA QueueInvInit == QueueInit => QueueInv
BY QueueAssumption DEF QueueInit, QueueInv

(* A message that is routed keeps the queue's invariant. *)
LEMMA RoutedKeeps ==
  ASSUME QueueInv, NEW queue, NEW critical \in BOOLEAN, Routed(queue, critical),
         IF critical THEN queue = 0 ELSE queue = QueueOf(received)
  PROVE  QueueInv'
<1>1. received = Decoded(wire) /\ received.routing_key \in Nat
  BY QueueAssumption, DecodedFields DEF QueueInv, Routed
<1>2. QueueOf(received) \in Nat /\ QueueOf(received) < queueCount
  BY <1>1, Modulo DEF QueueInv, QueueOf
<1> DEFINE r == [key |-> received.routing_key, queue |-> queue, critical |-> critical]
<1>3. r.queue < queueCount /\ IF r.critical THEN r.queue = 0 ELSE r.queue = r.key % queueCount
  BY <1>2 DEF QueueInv, QueueOf
<1>4. /\ routed' = routed \cup {r} /\ UNCHANGED queueCount
      /\ received' = NoMessage /\ wire' = NoMessage
  BY DEF Routed
<1> QED
  BY <1>3, <1>4 DEF QueueInv

(* Every operation on the queue keeps the invariant. *)
LEMMA QueueInvNext == QueueInv /\ [QueueNext]_queueVars => QueueInv'
<1> SUFFICES ASSUME QueueInv, [QueueNext]_queueVars PROVE QueueInv'
  OBVIOUS
<1>1. CASE Send
  <2>1. PICK m \in GatewayMessage : sent' = m /\ wire' = ToBytes(m)
    BY <1>1 DEF Send
  <2>2. /\ wire' = [ToBytes(m) EXCEPT !.size = wire'.size]
        /\ wire'.size = HeaderBytes + m.payload /\ wire'.size \in Int
    BY <2>1 DEF ToBytes, GatewayMessage, HeaderBytes
  <2> QED
    BY <1>1, <2>1, <2>2 DEF Send, QueueInv, GatewayMessage, HeaderBytes
<1>2. CASE Cut
  <2>1. PICK size \in (HeaderBytes - 1)..(wire.size - 1) : wire' = [wire EXCEPT !.size = size]
    BY <1>2 DEF Cut
  <2>2. wire' = [ToBytes(sent) EXCEPT !.size = size] /\ wire'.size = size
    BY <1>2, <2>1 DEF Cut, QueueInv, ToBytes
  <2>3. size \in Int /\ size <= HeaderBytes + sent.payload
    BY <1>2, <2>1 DEF Cut, QueueInv, HeaderBytes, GatewayMessage
  <2> QED
    BY <1>2, <2>2, <2>3 DEF Cut, QueueInv
<1>3. CASE Read
  <2>1. /\ wire # NoMessage
        /\ \/ received' = NoMessage
           \/ received' = Decoded(wire) /\ wire.size >= HeaderBytes + wire.length
    <3>1. wire.size \in Int /\ wire.length \in Nat
      BY <1>3, DecodedFields, QueueAssumption, Modulo DEF Read, QueueInv, GatewayMessage
    <3>2. wire # NoMessage /\ received' = FromBytes(wire)
      BY <1>3 DEF Read
    <3>3. CASE wire.size < HeaderBytes + wire.length
      <4>1. FromBytes(wire) = NoMessage
        BY <3>3 DEF FromBytes
      <4> QED
        BY <3>2, <4>1
    <3>4. CASE ~(wire.size < HeaderBytes + wire.length)
      <4>1. FromBytes(wire) \in {NoMessage, Decoded(wire)}
        BY <3>4 DEF FromBytes
      <4>2. wire.size >= HeaderBytes + wire.length
        BY <3>1, <3>4 DEF HeaderBytes
      <4> QED
        BY <3>2, <4>1, <4>2
    <3> QED
      BY <3>3, <3>4
  <2> QED
    BY <1>3, <2>1 DEF Read, QueueInv, ToBytes, Decoded
<1>4. CASE Route
  BY <1>4, RoutedKeeps DEF Route
<1>5. CASE RouteWithPriority
  BY <1>5, RoutedKeeps DEF RouteWithPriority
<1>6. CASE UNCHANGED queueVars
  BY <1>6 DEF queueVars, QueueInv, ToBytes, Decoded
<1> QED
  BY <1>1, <1>2, <1>3, <1>4, <1>5, <1>6 DEF QueueNext

(* from_bytes gives back the message that to_bytes wrote or nothing, and   *)
(* only a payload too long for its length field loses its end              *)
(* (queue_bridge.rs:31-69), for every width of that field.                 *)
THEOREM DecodingSound == QueueSpec => []DecodedIsSent
<1>1. QueueInv => DecodedIsSent
  <2> SUFFICES ASSUME QueueInv, received # NoMessage
               PROVE  /\ [received EXCEPT !.payload = 0] = [sent EXCEPT !.payload = 0]
                      /\ received.payload <= sent.payload
                      /\ sent.payload < LengthRange =>
                           received = sent /\ wire.size = HeaderBytes + sent.payload
    BY DEF DecodedIsSent
  <2>1. /\ sent \in GatewayMessage /\ wire.length = sent.payload % LengthRange
        /\ received = [sent EXCEPT !.payload = sent.payload % LengthRange]
    BY DecodedFields DEF QueueInv
  <2>2. /\ sent.payload % LengthRange <= sent.payload
        /\ sent.payload < LengthRange => sent.payload % LengthRange = sent.payload
    BY <2>1, QueueAssumption, Modulo DEF GatewayMessage
  <2>3. sent.payload \in Nat /\ wire.size \in Int /\ wire.size <= HeaderBytes + sent.payload
        /\ wire.size >= HeaderBytes + wire.length
    BY <2>1 DEF QueueInv, GatewayMessage
  <2>4. /\ received.payload = sent.payload % LengthRange
        /\ [received EXCEPT !.payload = 0] = [sent EXCEPT !.payload = 0]
    BY <2>1 DEF GatewayMessage
  <2>5. ASSUME sent.payload < LengthRange
        PROVE  received = sent /\ wire.size = HeaderBytes + sent.payload
    <3>1. received = sent
      BY <2>1, <2>2, <2>5 DEF GatewayMessage
    <3>2. wire.length = sent.payload
      BY <2>1, <2>2, <2>5
    <3> QED
      BY <2>3, <3>1, <3>2 DEF HeaderBytes
  <2> QED
    BY <2>2, <2>4, <2>5
<1> QED
  BY QueueInvInit, QueueInvNext, <1>1, PTL DEF QueueSpec

(* All messages of a routing key go to one queue that exists, critical     *)
(* ones of route_with_priority to queue 0 (queue_bridge.rs:93-119), for    *)
(* any number of queues.                                                   *)
THEOREM RoutingConsistent == QueueSpec => []KeyAffinity
<1>1. QueueInv => KeyAffinity
  BY DEF QueueInv, KeyAffinity
<1> QED
  BY QueueInvInit, QueueInvNext, <1>1, PTL DEF QueueSpec

-----------------------------------------------------------------------------
(* The orchestrator.  Every id in a list has been handed out, and lists    *)
(* that share an id agree up to it.                                        *)
ContainersInv ==
  /\ nextContainerId \in Nat \ {0}
  /\ \A list \in lists : /\ list \in Seq(Nat \ {0})
                         /\ \A i \in DOMAIN list : list[i] < nextContainerId
  /\ SharedIdsSharedHistory

(* The containers start within their invariant. *)
LEMMA ContainersInvInit == ContainersInit => ContainersInv
BY DEF ContainersInit, ContainersInv, SharedIdsSharedHistory

(* A new list is a prefix of an old one with ids of its own after it.      *)
LEMMA HandOutKeeps ==
  ASSUME ContainersInv, NEW old \in lists \cup {<<>>}, NEW new, NEW count \in Nat,
         NEW kept \in 0..Len(old), NEW length \in Nat,
         new = [i \in 1..length |-> IF i <= kept THEN old[i]
                                    ELSE nextContainerId + (i - kept - 1)],
         kept <= length, length = kept + count, HandOut(new, count)
  PROVE  ContainersInv'
<1> USE DEF ContainersInv
<1>1. /\ nextContainerId \in Nat \ {0} /\ nextContainerId' = nextContainerId + count
      /\ nextContainerId' \in Nat \ {0} /\ lists' = lists \cup {new}
  BY DEF HandOut
<1>2. /\ old \in Seq(Nat \ {0}) /\ DOMAIN old = 1..Len(old) /\ Len(old) \in Nat
      /\ \A i \in 1..Len(old) : old[i] \in Nat \ {0} /\ old[i] < nextContainerId
  <2>1. CASE old \in lists
    <3>1. old \in Seq(Nat \ {0}) /\ \A i \in DOMAIN old : old[i] < nextContainerId
      BY <2>1
    <3> QED
      BY <3>1
  <2>2. CASE old = <<>>
    BY <2>2
  <2> QED
    BY <2>1, <2>2
<1>3. \A i \in 1..length : new[i] \in Nat \ {0} /\ new[i] < nextContainerId'
  BY <1>1, <1>2
<1>4. DOMAIN new = 1..length /\ new \in Seq(Nat \ {0})
  BY <1>3
<1>5. \A list \in lists' : /\ list \in Seq(Nat \ {0})
                           /\ \A i \in DOMAIN list : list[i] < nextContainerId'
  <2>1. ASSUME NEW list \in lists
        PROVE  list \in Seq(Nat \ {0}) /\ \A i \in DOMAIN list : list[i] < nextContainerId'
    <3>1. list \in Seq(Nat \ {0}) /\ \A i \in DOMAIN list : list[i] < nextContainerId
      OBVIOUS
    <3>2. \A i \in DOMAIN list : list[i] \in Nat
      BY <3>1
    <3> QED
      BY <1>1, <3>1, <3>2
  <2> QED
    BY <1>1, <1>3, <1>4, <2>1
(* What new shares with an earlier list, it has from old.                  *)
<1>6. ASSUME NEW b \in lists, NEW i \in 1..length, NEW j \in DOMAIN b, new[i] = b[j]
      PROVE  i = j /\ \A h \in 1..i : new[h] = b[h]
  <2>1. i <= kept
    BY <1>1, <1>6
  <2>2. old \in lists /\ i \in DOMAIN old /\ old[i] = b[j] /\ \A h \in 1..i : new[h] = old[h]
    BY <1>2, <1>6, <2>1
  <2>3. i = j /\ \A h \in 1..i : old[h] = b[h]
    <3>1. SharedIdsSharedHistory
      OBVIOUS
    <3> HIDE DEF ContainersInv
    <3> QED
      BY <2>2, <3>1 DEF SharedIdsSharedHistory
  <2> QED
    BY <2>2, <2>3
<1>7. ASSUME NEW i \in 1..length, NEW j \in 1..length, new[i] = new[j]
      PROVE  i = j
  <2>1. CASE i <= kept /\ j <= kept
    <3>1. old \in lists /\ i \in DOMAIN old /\ j \in DOMAIN old /\ old[i] = old[j]
      BY <1>2, <1>7, <2>1
    <3> QED
      BY <3>1 DEF SharedIdsSharedHistory
  <2>2. CASE ~(i <= kept) /\ ~(j <= kept)
    BY <1>1, <1>7, <2>2
  <2>3. CASE i <= kept /\ ~(j <= kept)
    BY <1>1, <1>2, <1>7, <2>3
  <2>4. CASE ~(i <= kept) /\ j <= kept
    BY <1>1, <1>2, <1>7, <2>4
  <2> QED
    BY <2>1, <2>2, <2>3, <2>4
<1>8. SharedIdsSharedHistory'
  <2> SUFFICES ASSUME NEW a \in lists', NEW b \in lists', NEW i \in DOMAIN a,
                      NEW j \in DOMAIN b, a[i] = b[j]
               PROVE  i = j /\ \A h \in 1..i : a[h] = b[h]
    BY DEF SharedIdsSharedHistory
  <2>1. CASE a \in lists /\ b \in lists
    BY <2>1 DEF SharedIdsSharedHistory
  <2>2. CASE a = new /\ b \in lists
    <3>1. i \in 1..length /\ new[i] = b[j]
      BY <1>4, <2>2
    <3>2. i = j /\ \A h \in 1..i : new[h] = b[h]
      BY <1>6, <2>2, <3>1
    <3> QED
      BY <2>2, <3>2
  <2>3. CASE a \in lists /\ b = new
    <3>1. j = i /\ \A h \in 1..j : new[h] = a[h]
      BY <1>4, <1>6, <2>3
    <3> QED
      BY <2>3, <3>1
  <2>4. CASE a = new /\ b = new
    BY <1>4, <1>7, <2>4
  <2> QED
    BY <1>1, <2>1, <2>2, <2>3, <2>4
<1> QED
  BY <1>1, <1>5, <1>8

(* Every operation on the containers keeps their invariant. *)
LEMMA ContainersInvNext == ContainersInv /\ [ContainersNext]_containersVars => ContainersInv'
<1> SUFFICES ASSUME ContainersInv, [ContainersNext]_containersVars PROVE ContainersInv'
  OBVIOUS
<1>1. ASSUME NEW r \in Replicas, Deploy(r) PROVE ContainersInv'
  <2>1. Extended(<<>>, r) = [i \in 1..r |-> IF i <= 0 THEN <<>>[i]
                                            ELSE nextContainerId + (i - 0 - 1)]
    BY DEF Extended
  <2>2. r \in Nat /\ r = 0 + r /\ 0 \in 0..Len(<<>>) /\ 0 <= r
    BY ContainersAssumption
  <2> QED
    BY <1>1, <2>1, <2>2, HandOutKeeps DEF Deploy
<1>2. ASSUME NEW list \in lists, NEW r \in Replicas, ScaleUp(list, r) PROVE ContainersInv'
  <2>1. list \in Seq(Nat \ {0}) /\ Len(list) \in Nat /\ r \in Nat /\ r > Len(list)
    BY <1>2, ContainersAssumption DEF ScaleUp, ContainersInv
  <2>2. /\ r - Len(list) \in Nat /\ r = Len(list) + (r - Len(list))
        /\ Len(list) \in 0..Len(list) /\ Len(list) <= r
    BY <2>1
  <2> QED
    BY <1>2, <2>1, <2>2, HandOutKeeps DEF ScaleUp, Extended
<1>3. ASSUME NEW list \in lists, NEW r \in Replicas, ScaleDown(list, r) PROVE ContainersInv'
  <2>1. list \in Seq(Nat \ {0}) /\ Len(list) \in Nat /\ r \in Nat /\ r <= Len(list)
    BY <1>3, ContainersAssumption DEF ScaleDown, ContainersInv
  <2>2. SubSeq(list, 1, r) = [i \in 1..r |-> IF i <= r THEN list[i]
                                             ELSE nextContainerId + (i - r - 1)]
    BY <2>1
  <2>3. 0 \in Nat /\ r = r + 0 /\ r \in 0..Len(list) /\ r <= r
    BY <2>1
  <2> QED
    BY <1>3, <2>1, <2>2, <2>3, HandOutKeeps DEF ScaleDown
<1>4. ASSUME NEW cpu, NEW mem, HealthCheck(cpu, mem) PROVE ContainersInv'
  BY <1>4 DEF HealthCheck, ContainersInv, SharedIdsSharedHistory
<1>5. CASE UNCHANGED containersVars
  BY <1>5 DEF containersVars, ContainersInv, SharedIdsSharedHistory
<1> QED
  BY <1>1, <1>2, <1>3, <1>4, <1>5 DEF ContainersNext

(* No order of deploying and scaling, stale lists included, hands a        *)
(* container id out twice (container_bridge.rs:59-88), for any number of   *)
(* containers.                                                             *)
THEOREM IdsNameOneContainer == ContainersSpec => []SharedIdsSharedHistory
<1>1. ContainersInv => SharedIdsSharedHistory
  BY DEF ContainersInv
<1> QED
  BY ContainersInvInit, ContainersInvNext, <1>1, PTL DEF ContainersSpec

-----------------------------------------------------------------------------
(* The metrics registry.  It has finitely many entries, each with its      *)
(* three fields and finitely many whole-number values.                     *)
EntryOK(e) ==
  /\ e = [help |-> e.help, type |-> e.type, values |-> e.values]
  /\ e.values \in [DOMAIN e.values -> Int]
  /\ DOMAIN e.values \in SUBSET Nat /\ IsFiniteSet(DOMAIN e.values)

MetricsInv ==
  /\ DOMAIN metrics \in SUBSET Nat /\ IsFiniteSet(DOMAIN metrics)
  /\ \A n \in DOMAIN metrics : EntryOK(metrics[n])

(* The registry starts within its invariant. *)
LEMMA MetricsInvInit == MetricsInit => MetricsInv
BY FS_EmptySet DEF MetricsInit, MetricsInv

(* Registering leaves every entry there is as it is. *)
LEMMA RegisterKeeps ==
  ASSUME MetricsInv, NEW n \in Nat, NEW help, NEW type, Register(n, help, type)
  PROVE  /\ DOMAIN metrics \subseteq DOMAIN metrics'
         /\ \A x \in DOMAIN metrics : metrics'[x] = metrics[x]
         /\ MetricsInv'
<1> DEFINE new == [help |-> help, type |-> type, values |-> NoValues]
<1>1. EntryOK(new)
  BY FS_EmptySet DEF EntryOK, NoValues
<1>2. CASE n \in DOMAIN metrics
  BY <1>2 DEF Register, MetricsInv
<1>3. CASE n \notin DOMAIN metrics
  <2> HIDE DEF new
  <2>1. metrics' = [y \in DOMAIN metrics \cup {n} |-> IF y = n THEN new ELSE metrics[y]]
    BY <1>3 DEF Register, Put, new
  <2>2. DOMAIN metrics' \in SUBSET Nat /\ IsFiniteSet(DOMAIN metrics')
    BY <2>1, FS_AddElement DEF MetricsInv
  <2> QED
    BY <1>1, <1>3, <2>1, <2>2 DEF MetricsInv
<1> QED
  BY <1>2, <1>3

(* Writing a value leaves every other value as it is. *)
LEMMA WriteKeeps ==
  ASSUME MetricsInv, NEW n \in DOMAIN metrics, NEW label \in Nat, NEW value \in Int,
         Write(n, label, value)
  PROVE  /\ DOMAIN metrics' = DOMAIN metrics
         /\ \A x \in DOMAIN metrics : x # n => metrics'[x] = metrics[x]
         /\ metrics'[n].type = metrics[n].type
         /\ metrics'[n].values = Put(metrics[n].values, label, value)
         /\ MetricsInv'
<1> DEFINE values == Put(metrics[n].values, label, value)
<1>1. metrics' = [metrics EXCEPT ![n].values = values]
  BY DEF Write
<1>2. EntryOK(metrics[n])
  BY DEF MetricsInv
<1>3. /\ values \in [DOMAIN values -> Int]
      /\ DOMAIN values \in SUBSET Nat /\ IsFiniteSet(DOMAIN values)
  <2>1. DOMAIN values = DOMAIN metrics[n].values \cup {label}
    BY DEF Put
  <2>2. IsFiniteSet(DOMAIN values) /\ DOMAIN values \in SUBSET Nat
    BY <1>2, <2>1, FS_AddElement DEF EntryOK
  <2>3. values \in [DOMAIN values -> Int]
    BY <1>2 DEF EntryOK, Put
  <2> QED
    BY <2>2, <2>3
<1> HIDE DEF values
<1>4. /\ DOMAIN metrics' = DOMAIN metrics
      /\ \A x \in DOMAIN metrics : x # n => metrics'[x] = metrics[x]
      /\ metrics'[n] = [metrics[n] EXCEPT !.values = values]
  BY <1>1
<1>5. metrics'[n] = [help |-> metrics[n].help, type |-> metrics[n].type, values |-> values]
  BY <1>2, <1>4 DEF EntryOK
<1>6. EntryOK(metrics'[n])
  BY <1>3, <1>5 DEF EntryOK
<1>7. MetricsInv'
  BY <1>4, <1>6 DEF MetricsInv
<1> QED
  BY <1>4, <1>5, <1>7 DEF values

Monotone(n) ==
  /\ n \in DOMAIN metrics'
  /\ \A l \in DOMAIN metrics[n].values :
       /\ l \in DOMAIN metrics'[n].values
       /\ metrics'[n].values[l] >= metrics[n].values[l]

(* Every operation keeps the registry's invariant, and lowers no counter *)
(* that was used as one.                                                 *)
LEMMA MetricsStep ==
  ASSUME MetricsInv, [MetricsNext]_metricsVars
  PROVE  /\ MetricsInv'
         /\ \A n \in DOMAIN metrics \ misused' : metrics[n].type = "counter" => Monotone(n)
<1>1. \A x \in DOMAIN metrics : \A l \in DOMAIN metrics[x].values :
        metrics[x].values[l] \in Int
  BY DEF MetricsInv, EntryOK
<1>2. ASSUME NEW n \in Nat, NEW help, NEW type, Register(n, help, type)
      PROVE  MetricsInv' /\ \A x \in DOMAIN metrics : Monotone(x)
  BY <1>1, <1>2, RegisterKeeps DEF Monotone
<1>3. ASSUME NEW n, NEW label \in Nat, NEW delta \in Int, CounterInc(n, label, delta)
      PROVE  /\ MetricsInv'
             /\ \A x \in DOMAIN metrics \ misused' : metrics[x].type = "counter" => Monotone(x)
  <2> DEFINE values == metrics[n].values
             value == (IF label \in DOMAIN values THEN values[label] ELSE 0) + delta
  <2>1. n \in DOMAIN metrics /\ Write(n, label, value) /\ value \in Int
    BY <1>1, <1>3 DEF CounterInc
  <2>2. metrics[n].type = "counter" /\ n \notin misused' => delta >= 0
    BY <1>3 DEF CounterInc, Misuse
  <2> HIDE DEF value
  <2>3. /\ DOMAIN metrics' = DOMAIN metrics
        /\ \A x \in DOMAIN metrics : x # n => metrics'[x] = metrics[x]
        /\ metrics'[n].values = Put(values, label, value)
        /\ MetricsInv'
    BY <2>1, WriteKeeps
  <2>4. ASSUME NEW x \in DOMAIN metrics, x # n PROVE Monotone(x)
    BY <1>1, <2>3, <2>4 DEF Monotone
  <2>5. ASSUME delta >= 0 PROVE Monotone(n)
    BY <1>1, <2>1, <2>3, <2>5 DEF Monotone, Put, value
  <2> QED
    BY <2>2, <2>3, <2>4, <2>5
<1>4. ASSUME NEW n, NEW label \in Nat, NEW value \in Int, GaugeSet(n, label, value)
      PROVE  /\ MetricsInv'
             /\ \A x \in DOMAIN metrics \ misused' : metrics[x].type = "counter" => Monotone(x)
  <2>1. n \in DOMAIN metrics /\ Write(n, label, value)
        /\ (metrics[n].type = "counter" => n \in misused')
    BY <1>4 DEF GaugeSet, Misuse
  <2>2. /\ DOMAIN metrics' = DOMAIN metrics
        /\ \A x \in DOMAIN metrics : x # n => metrics'[x] = metrics[x]
        /\ MetricsInv'
    BY <2>1, WriteKeeps
  <2>3. ASSUME NEW x \in DOMAIN metrics, x # n PROVE Monotone(x)
    BY <1>1, <2>2, <2>3 DEF Monotone
  <2> QED
    BY <2>1, <2>2, <2>3
<1>5. ASSUME UNCHANGED metricsVars
      PROVE  MetricsInv' /\ \A x \in DOMAIN metrics : Monotone(x)
  BY <1>1, <1>5 DEF metricsVars, MetricsInv, Monotone
<1> QED
  BY <1>2, <1>3, <1>4, <1>5, MetricsAssumption DEF MetricsNext

(* A counter that callers only give positive deltas never falls and never  *)
(* disappears (metrics_export.rs:11, 68-100), for any names and labels.    *)
THEOREM CountersNeverFall == MetricsSpec => CountersMonotone
<1> DEFINE Kept == \A n \in DOMAIN metrics \ misused' : metrics[n].type = "counter" =>
                     /\ n \in DOMAIN metrics'
                     /\ \A l \in DOMAIN metrics[n].values :
                          /\ l \in DOMAIN metrics'[n].values
                          /\ metrics'[n].values[l] >= metrics[n].values[l]
<1>1. MetricsInv /\ [MetricsNext]_metricsVars => MetricsInv' /\ [Kept]_metricsVars
  BY MetricsStep DEF Monotone
<1> QED
  BY MetricsInvInit, <1>1, PTL DEF MetricsSpec, CountersMonotone

-----------------------------------------------------------------------------
(* A scrape.  The lines of a metric stand in one piece, whose order is     *)
(* that of the labels; all that a reader does follows from that.  A        *)
(* recursion or an order is shown to exist by a smallest counterexample.   *)
InOrder(order, S) ==
  /\ order \in [1..Cardinality(S) -> S]
  /\ \A i, j \in 1..Cardinality(S) : i < j => order[i] < order[j]

(* A finite set of naturals can be put in order: its greatest element      *)
(* after the others.                                                       *)
LEMMA OrderExists ==
  ASSUME NEW S \in SUBSET Nat, IsFiniteSet(S)
  PROVE  \E order : InOrder(order, S)
<1> DEFINE Whole == S
           Bad == {s \in SUBSET Whole : ~ \E order : InOrder(order, s)}
<1> SUFFICES ASSUME Bad # {} PROVE FALSE
  OBVIOUS
<1>1. Bad \in SUBSET (SUBSET Whole) /\ IsFiniteSet(Whole)
  OBVIOUS
<1>2. PICK s \in Bad : \A r \in Bad : r \subseteq s => r = s
  <2> HIDE DEF Bad, Whole
  <2> QED
    BY <1>1, MinimalSubset
<1>3. IsFiniteSet(s) /\ s \in SUBSET Nat /\ s \in SUBSET S
  BY FS_Subset
<1>4. s # {}
  <2>1. InOrder([i \in 1..0 |-> 0], {})
    BY FS_EmptySet DEF InOrder
  <2> QED
    BY <2>1
<1>5. PICK m \in s : \A n \in s : n <= m
  <2> HIDE DEF Bad, Whole
  <2> QED
    BY <1>3, <1>4, GreatestNatural
<1> DEFINE r == s \ {m}
           k == Cardinality(r)
<1>6. IsFiniteSet(r) /\ k \in Nat /\ Cardinality(s) = k + 1
  <2>1. IsFiniteSet(r) /\ k = Cardinality(s) - 1
    BY <1>3, FS_RemoveElement
  <2>2. k \in Nat /\ Cardinality(s) \in Nat
    BY <1>3, <2>1, FS_CardinalityType
  <2> QED
    BY <2>1, <2>2
<1>7. r \notin Bad /\ r \in SUBSET Whole
  BY <1>2, <1>3
<1>8. PICK order : InOrder(order, r)
  BY <1>7
<1> DEFINE more == [i \in 1..(k + 1) |-> IF i <= k THEN order[i] ELSE m]
<1>9. order \in [1..k -> r] /\ \A i, j \in 1..k : i < j => order[i] < order[j]
  BY <1>8 DEF InOrder
<1>10. \A x \in r : x \in Nat /\ x < m /\ x \in s
  BY <1>3, <1>5
<1> HIDE DEF r, k
<1>11. more \in [1..(k + 1) -> s]
  BY <1>6, <1>9, <1>10
<1>12. ASSUME NEW i \in 1..(k + 1), NEW j \in 1..(k + 1), i < j PROVE more[i] < more[j]
  <2>1. i \in 1..k /\ more[i] = order[i]
    BY <1>6, <1>12
  <2>2. CASE j <= k
    <3>1. j \in 1..k /\ more[j] = order[j]
      BY <1>6, <2>2
    <3> QED
      BY <1>9, <1>12, <2>1, <3>1
  <2>3. CASE ~ (j <= k)
    BY <1>9, <1>10, <2>1, <2>3
  <2> QED
    BY <2>2, <2>3
<1> HIDE DEF more
<1>13. InOrder(more, s)
  BY <1>6, <1>11, <1>12 DEF InOrder
<1> QED
  BY <1>13

(* Ascending lists every element of the set, and lists it once. *)
LEMMA AscendingLists ==
  ASSUME NEW S \in SUBSET Nat, IsFiniteSet(S)
  PROVE  /\ Cardinality(S) \in Nat
         /\ Ascending(S) \in [1..Cardinality(S) -> S]
         /\ \A i, j \in 1..Cardinality(S) : Ascending(S)[i] = Ascending(S)[j] => i = j
         /\ \A x \in S : \E i \in 1..Cardinality(S) : Ascending(S)[i] = x
<1> DEFINE order == Ascending(S)
           Places == 1..Cardinality(S)
<1>1. Cardinality(S) \in Nat
  BY FS_CardinalityType
<1>2. InOrder(order, S)
  BY OrderExists DEF InOrder, Ascending
<1>3. order \in [Places -> S] /\ \A i, j \in Places : i < j => order[i] < order[j]
  BY <1>2 DEF InOrder
<1> HIDE DEF order
<1>4. ASSUME NEW i \in Places, NEW j \in Places, order[i] = order[j] PROVE i = j
  <2>1. i \in Nat /\ j \in Nat
    BY <1>1
  <2>2. order[i] \in S /\ \A x \in S : x \in Nat
    BY <1>3
  <2>3. order[i] \in Nat
    BY <2>2
  <2> QED
    BY <1>3, <1>4, <2>1, <2>3
<1>5. order \in Injection(Places, S)
  BY <1>3, <1>4 DEF Injection, IsInjective
<1>6. IsFiniteSet(Places) /\ Cardinality(Places) = Cardinality(S)
  BY <1>1, FS_Interval
<1>7. order \in Surjection(Places, S)
  <2> HIDE DEF Places
  <2> QED
    BY <1>5, <1>6, FS_Injection
<1>8. \A x \in S : \E i \in Places : order[i] = x
  BY <1>7 DEF Surjection
<1> QED
  BY <1>1, <1>3, <1>4, <1>8 DEF order

(* The recursion of FlattenSeq. *)
IsFlattened(f, seqs, n) ==
  f = [i \in 1..n |-> IF i = 1 THEN seqs[i] ELSE f[i - 1] \o seqs[i]]

(* A sequence of sequences has a flattening; by the shortest that had *)
(* none.                                                              *)
LEMMA FlattenedExists ==
  ASSUME NEW seqs, NEW n \in Nat PROVE \E f : IsFlattened(f, seqs, n)
<1> DEFINE Bad == {k \in Nat : ~ \E f : IsFlattened(f, seqs, k)}
<1> SUFFICES ASSUME Bad # {} PROVE FALSE
  OBVIOUS
<1>1. PICK k \in Bad : \A i \in Bad : k <= i
  <2>1. Bad \in SUBSET Nat
    OBVIOUS
  <2> HIDE DEF Bad
  <2> QED
    BY <2>1, LeastNatural
<1>2. k # 0
  <2>1. IsFlattened([i \in 1..0 |-> 0], seqs, 0)
    BY DEF IsFlattened
  <2> QED
    BY <2>1
<1>3. k - 1 \in Nat /\ k - 1 \notin Bad
  BY <1>1, <1>2
<1>4. PICK f : IsFlattened(f, seqs, k - 1)
  BY <1>3
<1> DEFINE g == [i \in 1..k |-> IF i < k THEN f[i]
                                ELSE IF i = 1 THEN seqs[i] ELSE f[i - 1] \o seqs[i]]
<1>5. ASSUME NEW i \in 1..k
      PROVE  g[i] = IF i = 1 THEN seqs[i] ELSE g[i - 1] \o seqs[i]
  <2>1. CASE i < k
    <3>1. i \in 1..(k - 1) /\ (i # 1 => i - 1 \in 1..(k - 1))
      BY <1>3, <2>1
    <3>2. f[i] = IF i = 1 THEN seqs[i] ELSE f[i - 1] \o seqs[i]
      BY <1>4, <3>1 DEF IsFlattened
    <3> QED
      BY <2>1, <3>1, <3>2
  <2>2. CASE ~ (i < k)
    <3>1. i = k /\ (i # 1 => i - 1 \in 1..k /\ i - 1 < k)
      BY <1>3, <2>2
    <3> QED
      BY <3>1
  <2> QED
    BY <2>1, <2>2
<1>6. IsFlattened(g, seqs, k)
  <2>1. g = [i \in 1..k |-> g[i]]
    OBVIOUS
  <2> HIDE DEF g
  <2> QED
    BY <1>5, <2>1 DEF IsFlattened
<1> QED
  BY <1>1, <1>6

(* FlattenSeq is the last value of its recursion. *)
LEMMA FlattenUnfolds ==
  ASSUME NEW seqs, Len(seqs) \in Nat \ {0}
  PROVE  \E f : IsFlattened(f, seqs, Len(seqs)) /\ FlattenSeq(seqs) = f[Len(seqs)]
<1> DEFINE f == CHOOSE g : IsFlattened(g, seqs, Len(seqs))
<1>1. IsFlattened(f, seqs, Len(seqs))
  BY FlattenedExists
<1>2. FlattenSeq(seqs) = f[Len(seqs)]
  BY DEF FlattenSeq, IsFlattened
<1> QED
  BY <1>1, <1>2

(* The lines of one metric: two that announce it, then one for each value. *)
EntryForm(E, n) ==
  LET values == metrics[n].values
      order == Ascending(DOMAIN values)
  IN /\ E \in Seq({E[i] : i \in DOMAIN E}) /\ Len(E) = Cardinality(DOMAIN values) + 2
     /\ E[1] = [line |-> "HELP", name |-> n, help |-> metrics[n].help]
     /\ E[2] = [line |-> "TYPE", name |-> n, type |-> metrics[n].type]
     /\ \A i \in 1..Cardinality(DOMAIN values) :
          E[i + 2] = [line |-> "value", name |-> n, label |-> order[i],
                      value |-> values[order[i]]]

(* The lines of an entry have the form of an entry. *)
LEMMA EntryHasForm ==
  ASSUME MetricsInv, NEW n \in DOMAIN metrics PROVE EntryForm(EntryLines(n), n)
<1> DEFINE E == EntryLines(n)
           values == metrics[n].values
           order == Ascending(DOMAIN values)
           k == Cardinality(DOMAIN values)
           help == [line |-> "HELP", name |-> n, help |-> metrics[n].help]
           type == [line |-> "TYPE", name |-> n, type |-> metrics[n].type]
           Value(i) == [line |-> "value", name |-> n, label |-> order[i],
                        value |-> values[order[i]]]
           T == {help, type} \cup {Value(i) : i \in 1..k}
           two == <<help, type>>
<1>1. k \in Nat /\ DOMAIN order = 1..k
  <2>1. DOMAIN values \in SUBSET Nat /\ IsFiniteSet(DOMAIN values)
    BY DEF MetricsInv, EntryOK
  <2> QED
    BY <2>1, AscendingLists
<1>2. ValueLines(n) = [i \in 1..k |-> Value(i)]
  BY <1>1 DEF ValueLines
<1>3. E = two \o ValueLines(n)
  BY DEF EntryLines
<1>4. two \in Seq(T) /\ Len(two) = 2 /\ two[1] = help /\ two[2] = type
  <2> HIDE DEF help, type
  <2> QED
    OBVIOUS
<1>5. \A i \in 1..k : Value(i) \in T
  OBVIOUS
<1> HIDE DEF T, Value, help, type, two, order, values, k
<1>6. ValueLines(n) \in Seq(T) /\ Len(ValueLines(n)) = k
      /\ \A i \in 1..k : ValueLines(n)[i] = Value(i)
  BY <1>1, <1>2, <1>5
<1> HIDE DEF E
<1>7. E \in Seq(T) /\ Len(E) = k + 2 /\ E[1] = help /\ E[2] = type
      /\ \A i \in 1..k : E[i + 2] = Value(i)
  <2> DEFINE V == ValueLines(n)
  <2>1. V \in Seq(T) /\ Len(V) = k /\ \A i \in 1..k : V[i] = Value(i)
    BY <1>6
  <2> HIDE DEF V
  <2>6. /\ two \o V \in Seq(T) /\ Len(two \o V) = Len(two) + Len(V)
        /\ \A i \in 1..(Len(two) + Len(V)) :
             (two \o V)[i] = IF i <= Len(two) THEN two[i] ELSE V[i - Len(two)]
    BY <1>4, <2>1, ConcatProperties
  <2>2. /\ two \o V \in Seq(T) /\ Len(two \o V) = 2 + k
        /\ \A i \in 1..(2 + k) : (two \o V)[i] = IF i <= 2 THEN two[i] ELSE V[i - 2]
    BY <1>4, <2>1, <2>6
  <2>3. E = two \o V
    BY <1>3 DEF V
  <2>4. E[1] = help /\ E[2] = type
    BY <1>1, <1>4, <2>2, <2>3
  <2>5. ASSUME NEW i \in 1..k PROVE E[i + 2] = Value(i)
    <3>1. i + 2 \in 1..(2 + k) /\ ~ (i + 2 <= 2) /\ (i + 2) - 2 = i
      BY <1>1
    <3> QED
      BY <2>1, <2>2, <2>3, <3>1
  <2>7. E \in Seq(T) /\ Len(E) = k + 2
    BY <1>1, <2>2, <2>3
  <2> QED
    BY <2>4, <2>5, <2>7
<1>8. E \in Seq({E[i] : i \in DOMAIN E})
  BY <1>7
<1> QED
  BY <1>7, <1>8 DEF EntryForm, E, values, order, k, help, type, Value

(* The lines of n stand in one piece after the first p lines, and nowhere  *)
(* else.                                                                   *)
Block(lines, n, p) ==
  /\ p \in Nat /\ p + Len(EntryLines(n)) <= Len(lines)
  /\ \A i \in 1..Len(EntryLines(n)) : lines[p + i] = EntryLines(n)[i]
  /\ \A j \in 1..Len(lines) : lines[j].name = n => p < j /\ j <= p + Len(EntryLines(n))

Scraped(lines, D) ==
  /\ \E S : lines \in Seq(S)
  /\ \A i \in 1..Len(lines) : lines[i].name \in D
  /\ \A n \in D : \E p : Block(lines, n, p)

(* An entry is at least two lines, all of them its metric's. *)
LEMMA EntryNames ==
  ASSUME MetricsInv, NEW n \in DOMAIN metrics
  PROVE  /\ \E S : EntryLines(n) \in Seq(S)
         /\ Len(EntryLines(n)) \in Nat /\ Len(EntryLines(n)) >= 2
         /\ \A i \in 1..Len(EntryLines(n)) : EntryLines(n)[i].name = n
<1> DEFINE E == EntryLines(n)
           k == Cardinality(DOMAIN metrics[n].values)
<1>1. /\ E \in Seq({E[i] : i \in DOMAIN E}) /\ Len(E) = k + 2
      /\ E[1].name = n /\ E[2].name = n
      /\ \A i \in 1..k : E[i + 2].name = n
  <2>1. EntryForm(E, n)
    BY EntryHasForm
  <2> HIDE DEF E
  <2>2. E \in Seq({E[i] : i \in DOMAIN E}) /\ Len(E) = k + 2
    BY <2>1 DEF EntryForm
  <2>3. E[1].name = n /\ E[2].name = n
    BY <2>1 DEF EntryForm
  <2>4. ASSUME NEW i \in 1..k PROVE E[i + 2].name = n
    <3>1. \E label, value : E[i + 2] = [line |-> "value", name |-> n,
                                       label |-> label, value |-> value]
      BY <2>1 DEF EntryForm
    <3> QED
      BY <3>1
  <2> QED
    BY <2>2, <2>3, <2>4
<1>2. k \in Nat
  BY FS_CardinalityType DEF MetricsInv, EntryOK
<1> HIDE DEF E, k
<1>3. ASSUME NEW i \in 1..Len(E) PROVE E[i].name = n
  <2>1. CASE i \in {1, 2}
    BY <1>1, <2>1
  <2>2. CASE i \notin {1, 2}
    <3>1. i - 2 \in 1..k /\ i = (i - 2) + 2
      BY <1>1, <1>2, <2>2
    <3> QED
      BY <1>1, <3>1
  <2> QED
    BY <2>1, <2>2
<1> QED
  BY <1>1, <1>2, <1>3 DEF E

(* The lines of one entry are a scrape of that metric. *)
LEMMA ScrapeFirst ==
  ASSUME MetricsInv, NEW n \in DOMAIN metrics PROVE Scraped(EntryLines(n), {n})
<1> DEFINE E == EntryLines(n)
<1>1. /\ \E S : E \in Seq(S)
      /\ Len(E) \in Nat /\ \A i \in 1..Len(E) : E[i].name = n
  BY EntryNames
<1>2. Block(E, n, 0)
  BY <1>1 DEF Block
<1> QED
  BY <1>1, <1>2 DEF Scraped

(* An entry's lines after a scrape of other metrics are a scrape of one *)
(* more.                                                                *)
LEMMA ScrapeMore ==
  ASSUME MetricsInv, NEW D \in SUBSET DOMAIN metrics, NEW n \in DOMAIN metrics, n \notin D,
         NEW lines, Scraped(lines, D)
  PROVE  Scraped(lines \o EntryLines(n), D \cup {n})
<1> DEFINE E == EntryLines(n)
           more == lines \o E
<1>1. PICK S : lines \in Seq(S)
  BY DEF Scraped
<1>2. PICK T : E \in Seq(T)
  BY EntryNames
<1>3. lines \in Seq(S \cup T) /\ E \in Seq(S \cup T)
  BY <1>1, <1>2
<1>4. /\ more \in Seq(S \cup T) /\ Len(lines) \in Nat /\ Len(E) \in Nat
      /\ Len(more) = Len(lines) + Len(E)
      /\ \A i \in 1..Len(lines) : more[i] = lines[i]
      /\ \A i \in 1..Len(E) : more[Len(lines) + i] = E[i]
  <2> HIDE DEF E
  <2> QED
    BY <1>3, ConcatProperties
<1>5. \A i \in 1..Len(E) : E[i].name = n
  BY EntryNames
<1> HIDE DEF more
<1>6. ASSUME NEW i \in 1..Len(more)
      PROVE  \/ i \in 1..Len(lines) /\ more[i] = lines[i]
             \/ \E j \in 1..Len(E) : i = Len(lines) + j /\ more[i] = E[j]
  <2>1. CASE i <= Len(lines)
    BY <1>4, <2>1
  <2>2. CASE ~ (i <= Len(lines))
    <3>1. i - Len(lines) \in 1..Len(E) /\ i = Len(lines) + (i - Len(lines))
      BY <1>4, <2>2
    <3> QED
      BY <1>4, <3>1
  <2> QED
    BY <2>1, <2>2
<1>7. \A i \in 1..Len(lines) : lines[i].name \in D
  BY DEF Scraped
<1>8. ASSUME NEW m \in D PROVE \E p : Block(more, m, p)
  <2>1. PICK p : Block(lines, m, p)
    BY <1>8 DEF Scraped
  <2>2. /\ p \in Nat /\ p + Len(EntryLines(m)) <= Len(lines)
        /\ \A i \in 1..Len(EntryLines(m)) : lines[p + i] = EntryLines(m)[i]
        /\ \A j \in 1..Len(lines) : lines[j].name = m => p < j /\ j <= p + Len(EntryLines(m))
        /\ Len(EntryLines(m)) \in Nat
    BY <2>1, EntryNames DEF Block
  <2>3. \A i \in 1..Len(EntryLines(m)) : p + i \in 1..Len(lines)
    BY <1>4, <2>2
  <2>4. \A i \in 1..Len(EntryLines(m)) : more[p + i] = EntryLines(m)[i]
    BY <1>4, <2>2, <2>3
  <2>5. \A j \in 1..Len(more) : more[j].name = m => j \in 1..Len(lines) /\ more[j] = lines[j]
    BY <1>5, <1>6
  <2>6. p + Len(EntryLines(m)) <= Len(more)
    BY <1>4, <2>2
  <2> QED
    BY <2>2, <2>4, <2>5, <2>6 DEF Block
<1>9. Block(more, n, Len(lines))
  <2>1. \A j \in 1..Len(more) : more[j].name = n => Len(lines) < j /\ j <= Len(lines) + Len(E)
    <3> SUFFICES ASSUME NEW j \in 1..Len(more), more[j].name = n
                 PROVE  Len(lines) < j /\ j <= Len(lines) + Len(E)
      OBVIOUS
    <3>1. ~ (j \in 1..Len(lines) /\ more[j] = lines[j])
      BY <1>7
    <3>2. PICK i \in 1..Len(E) : j = Len(lines) + i
      BY <1>6, <3>1
    <3> QED
      BY <1>4, <3>2
  <2> QED
    BY <1>4, <2>1 DEF Block
<1>10. \A i \in 1..Len(more) : more[i].name \in D \cup {n}
  BY <1>5, <1>6, <1>7
<1>11. Scraped(more, D \cup {n})
  BY <1>4, <1>8, <1>9, <1>10 DEF Scraped
<1> QED
  BY <1>11 DEF more

(* What render_prometheus writes has every metric's lines in one piece: of *)
(* the scrape of the first i metrics, the first i for which it failed      *)
(* would have none before it for which it did.                             *)
LEMMA RenderScraped ==
  ASSUME MetricsInv PROVE Scraped(RenderPrometheus, DOMAIN metrics)
<1> DEFINE D == DOMAIN metrics
           K == Cardinality(D)
           order == Ascending(D)
           seqs == [i \in DOMAIN order |-> EntryLines(order[i])]
           First(i) == {order[j] : j \in 1..i}
<1>1. /\ K \in Nat /\ order \in [1..K -> D]
      /\ \A i, j \in 1..K : order[i] = order[j] => i = j
      /\ \A x \in D : \E i \in 1..K : order[i] = x
  BY AscendingLists DEF MetricsInv
<1> HIDE DEF D, K, order
<1>2. /\ seqs = [i \in 1..K |-> EntryLines(order[i])]
      /\ DOMAIN seqs = 1..K /\ \A i \in 1..K : seqs[i] = EntryLines(order[i])
  BY <1>1
<1>3. RenderPrometheus = FlattenSeq(seqs)
  BY DEF RenderPrometheus, order, D
<1> HIDE DEF seqs
<1>4. seqs \in Seq({seqs[i] : i \in 1..K}) /\ Len(seqs) = K
  <2> DEFINE T == {seqs[i] : i \in 1..K}
  <2>1. seqs \in [1..K -> T]
    BY <1>2
  <2> HIDE DEF T
  <2>2. seqs \in Seq(T)
    BY <1>1, <2>1
  <2>3. Len(seqs) = K
    BY <1>1, <1>2, <2>2
  <2> QED
    BY <2>2, <2>3 DEF T
<1>5. CASE K = 0
  <2>1. FlattenSeq(seqs) = seqs
    BY <1>4, <1>5 DEF FlattenSeq
  <2>2. D = {}
    BY <1>1, <1>5
  <2>3. 1..Len(seqs) = {}
    BY <1>4, <1>5
  <2> QED
    BY <1>3, <1>4, <2>1, <2>2, <2>3 DEF Scraped, D
<1>6. CASE K # 0
  <2>1. PICK f : IsFlattened(f, seqs, K) /\ FlattenSeq(seqs) = f[K]
    BY <1>1, <1>4, <1>6, FlattenUnfolds
  <2> DEFINE Bad == {i \in 1..K : ~ Scraped(f[i], First(i))}
  <2>2. ASSUME Bad # {} PROVE FALSE
    <3>1. PICK i \in Bad : \A j \in Bad : i <= j
      <4>1. Bad \in SUBSET Nat
        BY <1>1
      <4> HIDE DEF Bad
      <4> QED
        BY <2>2, <4>1, LeastNatural
    <3>2. i \in 1..K /\ ~ Scraped(f[i], First(i)) /\ order[i] \in DOMAIN metrics
      BY <1>1 DEF D
    <3>3. f[i] = IF i = 1 THEN EntryLines(order[i]) ELSE f[i - 1] \o EntryLines(order[i])
      BY <1>2, <2>1, <3>2 DEF IsFlattened
    <3>4. CASE i = 1
      <4>1. First(i) = {order[i]}
        BY <3>4
      <4> HIDE DEF First
      <4> QED
        BY <3>2, <3>3, <3>4, <4>1, ScrapeFirst
    <3>5. CASE i # 1
      <4>1. i - 1 \in 1..K /\ ~ (i <= i - 1)
        BY <1>1, <3>2, <3>5
      <4>2. Scraped(f[i - 1], First(i - 1))
        BY <3>1, <4>1
      <4>3. First(i) = First(i - 1) \cup {order[i]}
        <5>1. 1..i = (1..(i - 1)) \cup {i}
          BY <1>1, <3>2, <3>5
        <5> QED
          BY <5>1
      <4>4. First(i - 1) \in SUBSET DOMAIN metrics /\ order[i] \notin First(i - 1)
        <5>1. \A j \in 1..(i - 1) : j \in 1..K /\ j # i
          BY <1>1, <3>2
        <5> QED
          BY <1>1, <3>2, <5>1 DEF D
      <4> HIDE DEF First
      <4>5. Scraped(f[i - 1] \o EntryLines(order[i]), First(i - 1) \cup {order[i]})
        BY <3>2, <4>2, <4>4, ScrapeMore
      <4> QED
        BY <3>2, <3>3, <3>5, <4>3, <4>5
    <3> QED
      BY <3>4, <3>5
  <2>3. K \in 1..K /\ First(K) = D
    BY <1>1, <1>6
  <2>4. Scraped(f[K], First(K))
    BY <2>2, <2>3
  <2> QED
    BY <1>3, <2>1, <2>3, <2>4 DEF D
<1> QED
  BY <1>5, <1>6

(* In a scrape, the lines of a metric are those of its piece. *)
LEMMA Piece ==
  ASSUME MetricsInv, NEW lines, Scraped(lines, DOMAIN metrics), NEW n \in DOMAIN metrics
  PROVE  LET E == EntryLines(n)
             k == Cardinality(DOMAIN metrics[n].values)
         IN /\ EntryForm(E, n) /\ k \in Nat
            /\ \E p \in Nat :
                 /\ p + (k + 2) <= Len(lines)
                 /\ \A j \in 1..(k + 2) : lines[p + j] = E[j]
                 /\ \A j \in 1..Len(lines) : lines[j].name = n =>
                      j - p \in 1..(k + 2) /\ lines[j] = E[j - p]
<1> DEFINE E == EntryLines(n)
           k == Cardinality(DOMAIN metrics[n].values)
<1>1. Len(lines) \in Nat
  BY DEF Scraped
<1>2. EntryForm(E, n) /\ k \in Nat /\ Len(E) = k + 2
  <2>1. EntryForm(E, n)
    BY EntryHasForm
  <2>2. k \in Nat
    BY FS_CardinalityType DEF MetricsInv, EntryOK
  <2> QED
    BY <2>1, <2>2 DEF EntryForm
<1>3. PICK p : Block(lines, n, p)
  BY DEF Scraped
<1> HIDE DEF E, k
<1>4. /\ p \in Nat /\ p + (k + 2) <= Len(lines)
      /\ \A j \in 1..(k + 2) : lines[p + j] = E[j]
      /\ \A j \in 1..Len(lines) : lines[j].name = n => p < j /\ j <= p + (k + 2)
  BY <1>2, <1>3 DEF Block, E
<1>5. ASSUME NEW j \in 1..Len(lines), lines[j].name = n
      PROVE  j - p \in 1..(k + 2) /\ lines[j] = E[j - p]
  <2>1. j - p \in 1..(k + 2) /\ p + (j - p) = j
    BY <1>1, <1>2, <1>4, <1>5
  <2> QED
    BY <1>4, <2>1
<1> QED
  BY <1>2, <1>4, <1>5 DEF E, k

(* Every kind of line by its place. *)
LEMMA LineKinds ==
  ASSUME MetricsInv, NEW n \in DOMAIN metrics, NEW E, EntryForm(E, n),
         NEW i \in 1..(Cardinality(DOMAIN metrics[n].values) + 2)
  PROVE  LET values == metrics[n].values
             order == Ascending(DOMAIN values)
         IN /\ E[i].name = n
            /\ i = 1 => E[i].line = "HELP"
            /\ i = 2 => E[i].line = "TYPE" /\ E[i].type = metrics[n].type
            /\ i > 2 => /\ i - 2 \in 1..Cardinality(DOMAIN values)
                        /\ E[i].line = "value" /\ E[i].label = order[i - 2]
                        /\ E[i].value = values[order[i - 2]]
<1> DEFINE values == metrics[n].values
           order == Ascending(DOMAIN values)
           k == Cardinality(DOMAIN values)
<1>1. k \in Nat
  BY FS_CardinalityType DEF MetricsInv, EntryOK
<1>2. CASE i = 1
  BY <1>2 DEF EntryForm
<1>3. CASE i = 2
  BY <1>3 DEF EntryForm
<1>4. CASE i > 2
  <2> DEFINE j == i - 2
  <2>1. j \in 1..k /\ j + 2 = i
    BY <1>1, <1>4
  <2>2. \A h \in 1..k : E[h + 2] = [line |-> "value", name |-> n, label |-> order[h],
                                    value |-> values[order[h]]]
    BY DEF EntryForm
  <2> HIDE DEF j, k, values, order
  <2>3. E[i] = [line |-> "value", name |-> n, label |-> order[j], value |-> values[order[j]]]
    BY <2>1, <2>2
  <2>4. /\ E[i].line = "value" /\ E[i].name = n /\ E[i].label = order[j]
        /\ E[i].value = values[order[j]]
    BY <2>3
  <2> QED
    BY <1>4, <2>1, <2>4 DEF j, k, values, order
<1> QED
  BY <1>1, <1>2, <1>3, <1>4

(* The lines of a scrape are well formed. *)
LEMMA ScrapeWellFormed ==
  ASSUME MetricsInv, NEW lines, Scraped(lines, DOMAIN metrics)
  PROVE  WellFormed(lines)
<1> SUFFICES ASSUME NEW i \in DOMAIN lines
             PROVE  CASE lines[i].line = "HELP" ->
                           /\ i + 1 \in DOMAIN lines /\ lines[i + 1].line = "TYPE"
                           /\ lines[i + 1].name = lines[i].name
                           /\ \A j \in DOMAIN lines \ {i} :
                                lines[j].line = "HELP" => lines[j].name # lines[i].name
                      [] lines[i].line = "TYPE" -> i > 1 /\ lines[i - 1].line = "HELP"
                      [] lines[i].line = "value" ->
                           /\ i > 1 /\ lines[i - 1].name = lines[i].name
                           /\ \A j \in DOMAIN lines \ {i} :
                                lines[j].line = "value" /\ lines[j].name = lines[i].name
                                  => lines[j].label # lines[i].label
  BY DEF WellFormed
<1> DEFINE n == lines[i].name
           E == EntryLines(n)
           values == metrics[n].values
           order == Ascending(DOMAIN values)
           k == Cardinality(DOMAIN values)
<1>1. Len(lines) \in Nat /\ DOMAIN lines = 1..Len(lines)
  BY DEF Scraped
<1>2. n \in DOMAIN metrics
  BY <1>1 DEF Scraped
<1>3. EntryForm(E, n) /\ k \in Nat
  BY <1>2, Piece
<1>4. PICK p \in Nat :
        /\ p + (k + 2) <= Len(lines)
        /\ \A j \in 1..(k + 2) : lines[p + j] = E[j]
        /\ \A j \in 1..Len(lines) : lines[j].name = n =>
             j - p \in 1..(k + 2) /\ lines[j] = E[j - p]
  BY <1>2, Piece
<1>5. \A a, b \in 1..k : order[a] = order[b] => a = b
  BY <1>2, AscendingLists DEF MetricsInv, EntryOK
<1> HIDE DEF E, values, order, k
<1>6. ASSUME NEW j \in 1..(k + 2)
      PROVE  /\ E[j].name = n
             /\ j = 1 => E[j].line = "HELP"
             /\ j = 2 => E[j].line = "TYPE"
             /\ j > 2 => /\ j - 2 \in 1..k /\ E[j].line = "value"
                         /\ E[j].label = order[j - 2]
  BY <1>2, <1>3, LineKinds DEF values, order, k
<1> HIDE DEF n
<1>7. lines[i] = E[i - p] /\ lines[i].name = n /\ i - p \in 1..(k + 2) /\ i \in 1..Len(lines)
  BY <1>1, <1>4 DEF n
<1>8. p \in Nat /\ i \in Nat /\ k \in Nat /\ i - p \in 1..(k + 2)
  BY <1>1, <1>3, <1>7
<1>9. CASE i - p = 1
  <2>1. i + 1 \in DOMAIN lines /\ lines[i + 1] = E[2] /\ 2 \in 1..(k + 2)
    <3>1. i + 1 = p + 2 /\ 2 \in 1..(k + 2)
      BY <1>8, <1>9
    <3> QED
      BY <1>1, <1>3, <1>4, <3>1
  <2>2. ASSUME NEW j \in DOMAIN lines \ {i}, lines[j].line = "HELP", lines[j].name = n
        PROVE  FALSE
    <3>1. j - p \in 1..(k + 2) /\ lines[j] = E[j - p] /\ j - p # 1 /\ j \in Nat
      BY <1>1, <1>4, <1>9, <1>8, <2>2
    <3>2. lines[j].line \in {"TYPE", "value"}
      BY <1>6, <1>8, <3>1
    <3> QED
      BY <2>2, <3>2
  <2>3. lines[i].line = "HELP" /\ lines[i + 1].line = "TYPE" /\ lines[i + 1].name = n
    BY <1>6, <1>7, <1>9, <2>1
  <2> QED
    BY <1>7, <2>1, <2>2, <2>3
<1>10. CASE i - p = 2
  <2>1. i > 1 /\ lines[i - 1] = E[1] /\ 1 \in 1..(k + 2)
    <3>1. i - 1 = p + 1 /\ 1 \in 1..(k + 2) /\ i > 1
      BY <1>8, <1>10
    <3> QED
      BY <1>4, <3>1
  <2>2. lines[i].line = "TYPE" /\ lines[i - 1].line = "HELP"
    BY <1>6, <1>7, <1>10, <2>1
  <2> QED
    BY <2>1, <2>2
<1>11. CASE i - p > 2
  <2> DEFINE h == (i - p) - 1
  <2>1. h \in 1..(k + 2) /\ i - 1 = p + h /\ i > 1
    BY <1>8, <1>11
  <2>2. lines[i - 1].name = n
    BY <1>4, <1>6, <2>1
  <2>3. lines[i].line = "value" /\ lines[i].label = order[i - p - 2] /\ i - p - 2 \in 1..k
    BY <1>6, <1>7, <1>11
  <2>4. ASSUME NEW j \in DOMAIN lines \ {i}, lines[j].line = "value", lines[j].name = n,
               lines[j].label = lines[i].label
        PROVE  FALSE
    <3>1. j - p \in 1..(k + 2) /\ lines[j] = E[j - p] /\ j \in Nat /\ j # i
      BY <1>1, <1>4, <2>4
    <3>2. j - p > 2
      <4>1. j - p \notin {1, 2}
        BY <1>6, <2>4, <3>1
      <4> QED
        BY <1>8, <3>1, <4>1
    <3>3. lines[j].label = order[j - p - 2] /\ j - p - 2 \in 1..k
      BY <1>6, <3>1, <3>2
    <3>4. j - p - 2 = i - p - 2
      BY <1>5, <2>3, <2>4, <3>3
    <3> QED
      BY <1>8, <3>1, <3>4
  <2> QED
    BY <1>7, <2>1, <2>2, <2>3, <2>4
<1> QED
  <2>1. i - p \in {1, 2} \/ i - p > 2
    BY <1>8
  <2> QED
    BY <1>9, <1>10, <1>11, <2>1

(* A scrape announces every metric, and no other. *)
LEMMA ScrapeAnnounces ==
  ASSUME MetricsInv, NEW lines, Scraped(lines, DOMAIN metrics)
  PROVE  Announced(lines) = DOMAIN metrics
<1>1. DOMAIN lines = 1..Len(lines) /\ Len(lines) \in Nat
      /\ \A i \in 1..Len(lines) : lines[i].name \in DOMAIN metrics
  BY DEF Scraped
<1>2. ASSUME NEW n \in DOMAIN metrics
      PROVE  \E i \in DOMAIN lines : lines[i].line = "HELP" /\ lines[i].name = n
  <2> DEFINE E == EntryLines(n)
             k == Cardinality(DOMAIN metrics[n].values)
  <2>1. EntryForm(E, n) /\ k \in Nat
    BY Piece
  <2>2. PICK p \in Nat : p + (k + 2) <= Len(lines) /\ \A j \in 1..(k + 2) : lines[p + j] = E[j]
    BY Piece
  <2>3. 1 \in 1..(k + 2)
    BY <2>1
  <2>4. E[1].line = "HELP" /\ E[1].name = n
    BY <2>1, <2>3, LineKinds
  <2> HIDE DEF E, k
  <2>5. p + 1 \in DOMAIN lines /\ lines[p + 1] = E[1]
    BY <1>1, <2>1, <2>2, <2>3
  <2> QED
    BY <2>4, <2>5
<1> QED
  BY <1>1, <1>2 DEF Announced

(* A metric's values and type are read back from the scrape. *)
LEMMA ScrapeValues ==
  ASSUME MetricsInv, NEW lines, Scraped(lines, DOMAIN metrics), NEW n \in DOMAIN metrics
  PROVE  /\ ParsedValues(lines, n) = metrics[n].values
         /\ \E i \in DOMAIN lines : lines[i].line = "TYPE" /\ lines[i].name = n
                                      /\ lines[i].type = metrics[n].type
<1> DEFINE E == EntryLines(n)
           values == metrics[n].values
           order == Ascending(DOMAIN values)
           k == Cardinality(DOMAIN values)
           mine == {j \in DOMAIN lines : lines[j].line = "value" /\ lines[j].name = n}
<1>1. DOMAIN lines = 1..Len(lines) /\ Len(lines) \in Nat
  BY DEF Scraped
<1>2. EntryForm(E, n) /\ k \in Nat
  BY Piece
<1>3. PICK p \in Nat :
        /\ p + (k + 2) <= Len(lines)
        /\ \A j \in 1..(k + 2) : lines[p + j] = E[j]
        /\ \A j \in 1..Len(lines) : lines[j].name = n =>
             j - p \in 1..(k + 2) /\ lines[j] = E[j - p]
  BY Piece
<1>4. /\ order \in [1..k -> DOMAIN values]
      /\ \A l \in DOMAIN values : \E i \in 1..k : order[i] = l
      /\ values \in [DOMAIN values -> Int]
  BY AscendingLists DEF MetricsInv, EntryOK
<1>5. ASSUME NEW j \in 1..(k + 2)
      PROVE  /\ E[j].name = n
             /\ j = 1 => E[j].line = "HELP"
             /\ j = 2 => E[j].line = "TYPE" /\ E[j].type = metrics[n].type
             /\ j > 2 => /\ j - 2 \in 1..k /\ E[j].line = "value"
                         /\ E[j].label = order[j - 2] /\ E[j].value = values[order[j - 2]]
  BY <1>2, LineKinds
<1> HIDE DEF E, order, k
<1>6. ASSUME NEW j \in mine
      PROVE  lines[j].label \in DOMAIN values /\ lines[j].value = values[lines[j].label]
  <2> HIDE DEF values
  <2>1. j - p \in 1..(k + 2) /\ lines[j] = E[j - p] /\ lines[j].line = "value" /\ j \in Nat
    BY <1>1, <1>3, <1>6
  <2>2. j - p > 2
    <3>1. j - p \notin {1, 2}
      BY <1>5, <2>1
    <3> QED
      BY <1>2, <2>1, <3>1
  <2>3. /\ j - p - 2 \in 1..k /\ lines[j].label = order[j - p - 2]
        /\ lines[j].value = values[order[j - p - 2]]
    BY <1>5, <2>1, <2>2
  <2> QED
    BY <1>4, <2>3
<1>7. ASSUME NEW l \in DOMAIN values PROVE \E j \in mine : lines[j].label = l
  <2> HIDE DEF values
  <2>1. PICK i \in 1..k : order[i] = l
    BY <1>4, <1>7
  <2>2. i + 2 \in 1..(k + 2) /\ i + 2 > 2 /\ (i + 2) - 2 = i
    BY <1>2, <2>1
  <2>3. E[i + 2].name = n /\ E[i + 2].line = "value" /\ E[i + 2].label = l
    BY <1>5, <2>1, <2>2
  <2>4. p + (i + 2) \in DOMAIN lines /\ lines[p + (i + 2)] = E[i + 2]
    BY <1>1, <1>2, <1>3, <2>2
  <2> QED
    BY <2>3, <2>4
<1>8. ParsedValues(lines, n) = [l \in {lines[j].label : j \in mine} |->
                                  lines[CHOOSE j \in mine : lines[j].label = l].value]
  BY DEF ParsedValues
<1> HIDE DEF mine, values
<1>9. {lines[j].label : j \in mine} = DOMAIN values
  BY <1>6, <1>7
<1>10. ASSUME NEW l \in DOMAIN values
       PROVE  lines[CHOOSE j \in mine : lines[j].label = l].value = values[l]
  <2> DEFINE j == CHOOSE j \in mine : lines[j].label = l
  <2>1. j \in mine /\ lines[j].label = l
    BY <1>7
  <2> QED
    BY <1>6, <2>1
<1>11. ParsedValues(lines, n) = values
  <2> DEFINE Reading(l) == lines[CHOOSE j \in mine : lines[j].label = l].value
  <2>1. ParsedValues(lines, n) = [l \in DOMAIN values |-> Reading(l)]
    BY <1>8, <1>9
  <2>2. \A l \in DOMAIN values : Reading(l) = values[l]
    BY <1>10
  <2>3. values = [l \in DOMAIN values |-> values[l]]
    BY <1>4
  <2> HIDE DEF Reading
  <2> QED
    BY <2>1, <2>2, <2>3
<1>12. \E i \in DOMAIN lines : lines[i].line = "TYPE" /\ lines[i].name = n
                                 /\ lines[i].type = metrics[n].type
  <2>1. 2 \in 1..(k + 2)
    BY <1>2
  <2>2. p + 2 \in DOMAIN lines /\ lines[p + 2] = E[2]
    BY <1>1, <1>2, <1>3, <2>1
  <2>3. E[2].name = n /\ E[2].line = "TYPE" /\ E[2].type = metrics[n].type
    BY <1>5, <2>1
  <2> QED
    BY <2>2, <2>3
<1> QED
  BY <1>11, <1>12 DEF values

(* A scrape reads back as the registry: its lines are well formed, no      *)
(* sample is given twice, and every metric is there with its type and      *)
(* values (metrics_export.rs:4, 151-189), for any names, labels and values. *)
THEOREM ScrapesReadBack == MetricsSpec => []ScrapeParsesBack
<1>1. ASSUME MetricsInv PROVE ScrapeParsesBack
  <2>1. Scraped(RenderPrometheus, DOMAIN metrics)
    BY <1>1, RenderScraped
  <2> QED
    BY <1>1, <2>1, ScrapeWellFormed, ScrapeAnnounces, ScrapeValues DEF ScrapeParsesBack
<1>2. MetricsInv /\ [MetricsNext]_metricsVars => MetricsInv'
  BY MetricsStep
<1> QED
  BY MetricsInvInit, <1>1, <1>2, PTL DEF MetricsSpec

-----------------------------------------------------------------------------
(* The telemetry.  Its sketches count every packet once in each row, so a  *)
(* device's cells hold at least its packets, and a bucket of latencies     *)
(* holds the packets of those it represents, so a quantile is the latency  *)
(* kept for the one at its rank.                                           *)

(* The least of some naturals. *)
LEMMA MinIs ==
  ASSUME NEW S \in SUBSET Nat, S # {}
  PROVE  Min(S) \in S /\ \A n \in S : Min(S) <= n
<1>1. \E m \in S : \A n \in S : m <= n
  BY LeastNatural
<1> QED
  BY <1>1 DEF Min

(* The greatest of finitely many naturals. *)
LEMMA MaxIs ==
  ASSUME NEW S \in SUBSET Nat, IsFiniteSet(S), S # {}
  PROVE  Max(S) \in S /\ \A n \in S : n <= Max(S)
<1>1. \E m \in S : \A n \in S : n <= m
  BY GreatestNatural
<1>2. \E m \in S : \A n \in S : m >= n
  BY <1>1
<1> QED
  BY <1>2 DEF Max

(* A mean lies between bounds of what it is the mean of. *)
LEMMA MeanBounds ==
  ASSUME NEW a \in Nat, NEW n \in Nat \ {0}, NEW lo \in Nat, NEW hi \in Nat,
         lo * n <= a, a <= hi * n
  PROVE  a \div n \in lo..hi
<1> DEFINE mean == a \div n
<1>1. mean \in Nat /\ a = n * mean + (a % n) /\ a % n \in 0..(n - 1)
  OBVIOUS
<1>2. lo * n < n * (mean + 1) /\ n * mean <= hi * n
  BY <1>1
<1> HIDE DEF mean
<1>3. lo < mean + 1
  BY <1>1, <1>2
<1>4. mean <= hi
  BY <1>1, <1>2
<1> QED
  BY <1>1, <1>3, <1>4 DEF mean

(* The types of the telemetry's structures. *)
TelemetryTypes ==
  /\ totals \in [packets : Nat, keyframes : Nat, deltas : Nat, bytes : Nat]
  /\ latencySketch \in [Buckets -> Nat]
  /\ deviceFrequency \in [SketchRows -> [Columns -> Nat]]
  /\ truth \in [Senders -> Nat]
  /\ recorded \in [Latencies -> Nat]

(* The latencies a bucket and those below it stand for. *)
KeptUpTo(b) == {l \in Latencies : Represented[l] <= b}

(* Every row and the latency sketch count each packet once, and a device's *)
(* cells hold at least its own packets.                                    *)
SketchesCount ==
  /\ SumFunction(recorded) = totals.packets
  /\ \A b \in Buckets : CountUpTo(b) = SumFunctionOnSet(recorded, KeptUpTo(b))
  /\ \A r \in SketchRows :
       /\ SumFunction(deviceFrequency[r]) = totals.packets
       /\ \A d \in Senders : truth[d] <= deviceFrequency[r][Column[r][d]]

(* The counters fit: both kinds make up the packets, and every packet      *)
(* brought between the least and the most bytes.                           *)
TotalsFit ==
  /\ totals.packets <= MaxPackets
  /\ totals.keyframes + totals.deltas = totals.packets
  /\ totals.packets > 0 => Sizes # {}
  /\ Sizes # {} => /\ Min(Sizes) * totals.packets <= totals.bytes
                   /\ totals.bytes <= Max(Sizes) * totals.packets

TelemetryInv == TelemetryTypes /\ SketchesCount /\ TotalsFit

(* No cell of a row holds more than the row. *)
LEMMA CellBelowSum ==
  ASSUME NEW S, IsFiniteSet(S), NEW f \in [S -> Nat], NEW y \in S
  PROVE  f[y] <= SumFunction(f)
<1>1. SumFunctionOnSet(f, S) = f[y] + SumFunctionOnSet(f, S \ {y})
  BY SumWithout
<1>2. SumFunctionOnSet(f, S \ {y}) \in Nat
  <2>1. IsFiniteSet(S \ {y})
    BY FS_Subset
  <2> DEFINE R == S \ {y}
  <2>2. IsFiniteSet(R) /\ \A x \in R : f[x] \in Nat
    BY <2>1
  <2> HIDE DEF R
  <2>3. SumFunctionOnSet(f, R) \in Nat
    BY <2>2, SumNat
  <2> QED
    BY <2>3 DEF R
<1> QED
  BY <1>1, <1>2 DEF SumFunction

(* There are finitely many buckets, and each is a natural. *)
LEMMA BucketsFinite ==
  /\ IsFiniteSet(Buckets) /\ Buckets \subseteq Nat
  /\ \A l \in Latencies : Represented[l] \in Buckets /\ l \in Nat
  /\ \A b \in Buckets : IsFiniteSet(KeptUpTo(b)) /\ KeptUpTo(b) \subseteq Latencies
<1>1. IsFiniteSet({Represented[l] : l \in Latencies})
  <2> DEFINE image == {Represented[l] : l \in Latencies}
  <2>1. Represented \in Surjection(Latencies, image)
    BY SketchAssumption DEF Surjection
  <2> HIDE DEF image
  <2>2. IsFiniteSet(image)
    BY <2>1, FS_Surjection, SketchAssumption
  <2> QED
    BY <2>2 DEF image
<1>2. \A b \in Buckets : KeptUpTo(b) \subseteq Latencies
  BY DEF KeptUpTo
<1>3. \A b \in Buckets : IsFiniteSet(KeptUpTo(b))
  BY <1>2, FS_Subset, SketchAssumption
<1> QED
  BY <1>1, <1>2, <1>3, SketchAssumption DEF Buckets

(* The telemetry starts within its invariant. *)
LEMMA TelemetryInvInit == TelemetryInit => TelemetryInv
<1> SUFFICES ASSUME TelemetryInit PROVE TelemetryInv
  OBVIOUS
<1>1. TelemetryTypes
  BY DEF TelemetryInit, TelemetryTypes
<1>2. SumFunction(recorded) = 0
  <2>1. DOMAIN recorded = Latencies /\ \A l \in Latencies : recorded[l] = 0
    BY DEF TelemetryInit
  <2> QED
    BY <2>1, SumZero, SketchAssumption DEF SumFunction
<1>3. ASSUME NEW b \in Buckets
      PROVE  CountUpTo(b) = SumFunctionOnSet(recorded, KeptUpTo(b))
  <2> DEFINE cells == {c \in Buckets : c <= b}
             kept == KeptUpTo(b)
  <2>1. IsFiniteSet(cells) /\ \A c \in cells : latencySketch[c] = 0
    BY BucketsFinite, FS_Subset DEF TelemetryInit
  <2>2. IsFiniteSet(kept) /\ \A l \in kept : recorded[l] = 0
    BY BucketsFinite DEF TelemetryInit
  <2>3. CountUpTo(b) = SumFunctionOnSet(latencySketch, cells)
    BY DEF CountUpTo
  <2> HIDE DEF cells, kept
  <2>4. SumFunctionOnSet(latencySketch, cells) = 0 /\ SumFunctionOnSet(recorded, kept) = 0
    BY <2>1, <2>2, SumZero
  <2> QED
    BY <2>3, <2>4 DEF kept
<1>4. ASSUME NEW r \in SketchRows
      PROVE  /\ SumFunction(deviceFrequency[r]) = 0
             /\ \A d \in Senders : truth[d] <= deviceFrequency[r][Column[r][d]]
  <2>1. /\ DOMAIN deviceFrequency[r] = Columns
        /\ \A c \in Columns : deviceFrequency[r][c] = 0
    BY DEF TelemetryInit
  <2>2. \A d \in Senders : Column[r][d] \in Columns /\ truth[d] = 0
    BY TelemetryAssumption DEF TelemetryInit
  <2> QED
    BY <2>1, <2>2, SumZero, TelemetryAssumption DEF SumFunction
<1>5. SketchesCount
  BY <1>2, <1>3, <1>4 DEF TelemetryInit, SketchesCount
<1>6. ASSUME Sizes # {} PROVE Min(Sizes) * 0 = 0 /\ Max(Sizes) * 0 = 0
  <2>1. Min(Sizes) \in Nat /\ Max(Sizes) \in Nat
    BY <1>6, MinIs, MaxIs, TelemetryAssumption
  <2> QED
    BY <2>1
<1>7. TotalsFit
  BY <1>6, TelemetryAssumption DEF TelemetryInit, TotalsFit
<1> QED
  BY <1>1, <1>5, <1>7 DEF TelemetryInv

(* A latency recorded adds one to its bucket's sums and to those of the    *)
(* latencies such a bucket stands for.                                     *)
LEMMA LatencyCounts ==
  ASSUME TelemetryInv, NEW latency \in Latencies,
         latencySketch' = [latencySketch EXCEPT ![Represented[latency]] = @ + 1],
         recorded' = [recorded EXCEPT ![latency] = @ + 1]
  PROVE  /\ latencySketch' \in [Buckets -> Nat] /\ recorded' \in [Latencies -> Nat]
         /\ SumFunction(recorded') = totals.packets + 1
         /\ \A b \in Buckets : CountUpTo(b)' = SumFunctionOnSet(recorded', KeptUpTo(b))
<1>1. /\ latencySketch \in [Buckets -> Nat] /\ recorded \in [Latencies -> Nat]
      /\ SumFunction(recorded) = totals.packets
      /\ \A b \in Buckets : CountUpTo(b) = SumFunctionOnSet(recorded, KeptUpTo(b))
  BY DEF TelemetryInv, TelemetryTypes, SketchesCount
<1>2. /\ latencySketch' \in [Buckets -> Nat] /\ recorded' \in [Latencies -> Nat]
      /\ Represented[latency] \in Buckets
      /\ SumOneMoreAt(latencySketch, latencySketch', Represented[latency])
      /\ SumOneMoreAt(recorded, recorded', latency)
  <2>1. Represented[latency] \in Buckets
    BY BucketsFinite
  <2>2. /\ SumOneMoreAt(latencySketch, latencySketch', Represented[latency])
        /\ SumOneMoreAt(recorded, recorded', latency)
    BY DEF SumOneMoreAt
  <2>3. recorded' \in [Latencies -> Nat]
    BY <1>1
  <2>4. latencySketch' \in [Buckets -> Nat]
    <3> DEFINE cell == Represented[latency]
    <3>1. latencySketch' = [latencySketch EXCEPT ![cell] = @ + 1] /\ cell \in Buckets
      BY <2>1
    <3> HIDE DEF cell
    <3> QED
      BY <1>1, <3>1
  <2> QED
    BY <2>1, <2>2, <2>3, <2>4
<1>3. SumFunction(recorded') = totals.packets + 1
  <2>1. DOMAIN recorded = Latencies /\ DOMAIN recorded' = Latencies
    BY <1>1, <1>2
  <2> DEFINE all == Latencies
  <2>2. latency \in all /\ all \in SUBSET Latencies /\ IsFiniteSet(all)
    BY SketchAssumption
  <2> HIDE DEF all
  <2>3. SumFunctionOnSet(recorded', all) = SumFunctionOnSet(recorded, all) + 1
    BY <1>1, <1>2, <2>2, SumOverCell
  <2> QED
    BY <1>1, <2>1, <2>3 DEF SumFunction, all
<1>4. ASSUME NEW b \in Buckets
      PROVE  CountUpTo(b)' = SumFunctionOnSet(recorded', KeptUpTo(b))
  <2> DEFINE cells == {c \in Buckets : c <= b}
             kept == KeptUpTo(b)
             cell == Represented[latency]
  <2>1. /\ IsFiniteSet(cells) /\ cells \in SUBSET Buckets /\ cell \in Buckets
        /\ IsFiniteSet(kept) /\ kept \in SUBSET Latencies
    BY BucketsFinite, FS_Subset
  <2>2. cell \in cells <=> latency \in kept
    BY BucketsFinite DEF KeptUpTo
  <2>3. /\ CountUpTo(b) = SumFunctionOnSet(latencySketch, cells)
        /\ CountUpTo(b)' = SumFunctionOnSet(latencySketch', cells)
    BY DEF CountUpTo
  <2>4. SumOneMoreAt(latencySketch, latencySketch', cell)
    BY <1>2
  <2>5. CountUpTo(b) = SumFunctionOnSet(recorded, kept)
    BY <1>1
  <2> HIDE DEF cells, kept, cell
  <2>6. SumFunctionOnSet(latencySketch', cells)
          = SumFunctionOnSet(latencySketch, cells) + (IF cell \in cells THEN 1 ELSE 0)
    BY <1>1, <2>1, <2>4, SumOverCell
  <2>7. SumFunctionOnSet(recorded', kept)
          = SumFunctionOnSet(recorded, kept) + (IF latency \in kept THEN 1 ELSE 0)
    BY <1>1, <1>2, <2>1, SumOverCell
  <2> QED
    BY <2>2, <2>3, <2>5, <2>6, <2>7 DEF kept
<1> QED
  BY <1>2, <1>3, <1>4

(* A packet counted in a row adds one to the row's sum. *)
LEMMA RowsCount ==
  ASSUME TelemetryInv, NEW d \in Senders,
         deviceFrequency' = CountDevice(d), truth' = [truth EXCEPT ![d] = @ + 1],
         NEW r \in SketchRows
  PROVE  /\ deviceFrequency'[r] \in [Columns -> Nat]
         /\ SumFunction(deviceFrequency'[r]) = totals.packets + 1
         /\ \A e \in Senders : truth'[e] <= deviceFrequency'[r][Column[r][e]]
<1> USE DEF TelemetryInv, TelemetryTypes, SketchesCount
<1> DEFINE row == deviceFrequency[r]
<1>1. deviceFrequency'[r] = [row EXCEPT ![Column[r][d]] = @ + 1]
  BY DEF CountDevice, InsertHash
<1>2. /\ row \in [Columns -> Nat] /\ SumFunction(row) = totals.packets
      /\ \A e \in Senders : truth[e] <= row[Column[r][e]]
  OBVIOUS
<1>3. \A e \in Senders : Column[r][e] \in Columns
  BY TelemetryAssumption
<1>4. ASSUME NEW e \in Senders PROVE truth'[e] <= deviceFrequency'[r][Column[r][e]]
  <2>1. /\ truth[e] \in Nat /\ row[Column[r][e]] \in Nat
        /\ truth[e] <= row[Column[r][e]] /\ Column[r][e] \in Columns
    BY <1>2, <1>3
  <2>2. truth'[e] = truth[e] + (IF e = d THEN 1 ELSE 0)
    BY <2>1
  <2> HIDE DEF row
  <2>3. deviceFrequency'[r][Column[r][e]]
          = row[Column[r][e]] + (IF Column[r][e] = Column[r][d] THEN 1 ELSE 0)
    BY <1>1, <1>2, <2>1
  <2> QED
    BY <2>1, <2>2, <2>3
<1> HIDE DEF row
<1>5. Counting(row, Columns)
  BY <1>2, TelemetryAssumption DEF Counting
<1>6. /\ Counting(deviceFrequency'[r], Columns)
      /\ SumFunction(deviceFrequency'[r]) = SumFunction(row) + 1
  BY <1>1, <1>3, <1>5, SumOneMore DEF SumOneMoreAt
<1> QED
  BY <1>2, <1>4, <1>6 DEF Counting

(* Every packet recorded keeps the invariant. *)
LEMMA TelemetryInvNext == TelemetryInv /\ [TelemetryNext]_telemetryVars => TelemetryInv'
<1> SUFFICES ASSUME TelemetryInv, [TelemetryNext]_telemetryVars PROVE TelemetryInv'
  OBVIOUS
<1>1. ASSUME NEW d \in Senders, NEW size \in Sizes, NEW latency \in Latencies,
             NEW keyframe \in BOOLEAN, RecordPacket(d, size, latency, keyframe)
      PROVE  TelemetryInv'
  <2> USE DEF RecordPacket
  <2>1. size \in Nat /\ totals \in [packets : Nat, keyframes : Nat, deltas : Nat, bytes : Nat]
    BY TelemetryAssumption DEF TelemetryInv, TelemetryTypes
  <2>2. /\ totals' \in [packets : Nat, keyframes : Nat, deltas : Nat, bytes : Nat]
        /\ totals'.packets = totals.packets + 1 /\ totals'.bytes = totals.bytes + size
        /\ totals'.keyframes + totals'.deltas = totals.keyframes + totals.deltas + 1
        /\ totals'.packets <= MaxPackets
    <3>1. totals.packets < MaxPackets /\ MaxPackets \in Nat
      BY <1>1, TelemetryAssumption
    <3> QED
      BY <1>1, <2>1, <3>1
  <2>3. /\ latencySketch' \in [Buckets -> Nat] /\ recorded' \in [Latencies -> Nat]
        /\ SumFunction(recorded') = totals'.packets
        /\ \A b \in Buckets : CountUpTo(b)' = SumFunctionOnSet(recorded', KeptUpTo(b))
    BY <1>1, <2>2, LatencyCounts
  <2>4. \A r \in SketchRows :
          /\ deviceFrequency'[r] \in [Columns -> Nat]
          /\ SumFunction(deviceFrequency'[r]) = totals'.packets
          /\ \A e \in Senders : truth'[e] <= deviceFrequency'[r][Column[r][e]]
    BY <1>1, <2>2, RowsCount
  <2>5. /\ deviceFrequency' = [r \in SketchRows |-> deviceFrequency'[r]]
        /\ truth' \in [Senders -> Nat]
    BY <1>1 DEF CountDevice, InsertHash, TelemetryInv, TelemetryTypes
  <2>6. TelemetryTypes' /\ SketchesCount'
    BY <2>2, <2>3, <2>4, <2>5 DEF TelemetryTypes, SketchesCount, KeptUpTo
  <2>7. /\ Min(Sizes) * totals'.packets <= totals'.bytes
        /\ totals'.bytes <= Max(Sizes) * totals'.packets
    <3>1. /\ Min(Sizes) \in Nat /\ Min(Sizes) <= size
          /\ Max(Sizes) \in Nat /\ size <= Max(Sizes)
      BY MinIs, MaxIs, TelemetryAssumption
    <3>2. /\ Min(Sizes) * totals.packets <= totals.bytes
          /\ totals.bytes <= Max(Sizes) * totals.packets
      BY DEF TelemetryInv, TotalsFit
    <3>3. /\ Min(Sizes) * (totals.packets + 1) = Min(Sizes) * totals.packets + Min(Sizes)
          /\ Max(Sizes) * (totals.packets + 1) = Max(Sizes) * totals.packets + Max(Sizes)
      BY <2>1, <3>1
    <3>4. /\ Min(Sizes) * totals.packets \in Nat /\ Max(Sizes) * totals.packets \in Nat
      BY <2>1, <3>1
    <3> QED
      BY <2>1, <2>2, <3>1, <3>2, <3>3, <3>4
  <2>8. TotalsFit'
    BY <2>1, <2>2, <2>7 DEF TelemetryInv, TotalsFit
  <2> QED
    BY <2>6, <2>8 DEF TelemetryInv
<1>2. CASE UNCHANGED telemetryVars
  BY <1>2 DEF telemetryVars, TelemetryInv, TelemetryTypes, SketchesCount, TotalsFit,
              CountUpTo, KeptUpTo
<1> QED
  BY <1>1, <1>2 DEF TelemetryNext

(* A device is never estimated to have sent less than it did, nor all      *)
(* devices of a row together other than was recorded (telemetry.rs:107),   *)
(* for any hashes, rows and columns.                                       *)
THEOREM EstimatesBound == TelemetrySpec => []EstimateNeverUnder
<1>1. ASSUME TelemetryInv PROVE EstimateNeverUnder
  <2> USE <1>1 DEF TelemetryInv, TelemetryTypes, SketchesCount
  <2>1. ASSUME NEW d \in Senders
        PROVE  truth[d] <= DevicePacketEstimate(d) /\ DevicePacketEstimate(d) <= totals.packets
    <3> DEFINE cells == {deviceFrequency[r][Column[r][d]] : r \in SketchRows}
    <3>1. \A r \in SketchRows : Column[r][d] \in Columns /\ deviceFrequency[r] \in [Columns -> Nat]
      BY TelemetryAssumption
    <3>2. cells \in SUBSET Nat /\ cells # {} /\ \A n \in cells : truth[d] <= n
      BY <3>1, TelemetryAssumption
    <3>3. \A n \in cells : n <= totals.packets
      <4> SUFFICES ASSUME NEW r \in SketchRows
                   PROVE  deviceFrequency[r][Column[r][d]] <= totals.packets
        OBVIOUS
      <4> DEFINE row == deviceFrequency[r]
                 col == Column[r][d]
      <4>1. /\ row \in [Columns -> Nat] /\ col \in Columns /\ IsFiniteSet(Columns)
            /\ SumFunction(row) = totals.packets
        BY <3>1, TelemetryAssumption
      <4> HIDE DEF row, col
      <4>2. row[col] <= SumFunction(row)
        BY <4>1, CellBelowSum
      <4> QED
        BY <4>1, <4>2 DEF row, col
    <3>4. DevicePacketEstimate(d) = Min(cells)
      BY DEF DevicePacketEstimate, EstimateHash
    <3> HIDE DEF cells
    <3>5. Min(cells) \in cells
      BY <3>2, MinIs
    <3> QED
      BY <3>2, <3>3, <3>4, <3>5
  <2> QED
    BY <2>1 DEF EstimateNeverUnder
<1> QED
  BY TelemetryInvInit, TelemetryInvNext, <1>1, PTL DEF TelemetrySpec

(* The rank of a quantile lies among the packets recorded. *)
LEMMA RankWithin ==
  ASSUME TelemetryInv, totals.packets > 0, NEW q \in Quantiles
  PROVE  /\ Rank[q][totals.packets] \in 1..totals.packets
         /\ Rank[50][totals.packets] <= Rank[95][totals.packets]
         /\ Rank[95][totals.packets] <= Rank[99][totals.packets]
<1>1. totals.packets \in 1..MaxPackets
  BY TelemetryAssumption DEF TelemetryInv, TelemetryTypes, TotalsFit
<1>2. \A p \in Quantiles : Rank[p][totals.packets] \in Nat
  BY <1>1, SketchAssumption
<1>3. /\ 1 <= Rank[50][totals.packets]
      /\ Rank[50][totals.packets] <= Rank[95][totals.packets]
      /\ Rank[95][totals.packets] <= Rank[99][totals.packets]
      /\ Rank[99][totals.packets] <= totals.packets
  BY <1>1, SketchAssumption
<1> QED
  BY <1>1, <1>2, <1>3 DEF Quantiles

(* A sum over fewer latencies is no more, and any such sum is a natural.   *)
LEMMA RecordedSums ==
  ASSUME TelemetryInv, NEW R \in SUBSET Latencies, NEW S \in SUBSET R
  PROVE  /\ SumFunctionOnSet(recorded, R) \in Nat /\ SumFunctionOnSet(recorded, S) \in Nat
         /\ SumFunctionOnSet(recorded, S) <= SumFunctionOnSet(recorded, R)
<1>1. IsFiniteSet(R) /\ IsFiniteSet(S)
  BY FS_Subset, SketchAssumption
<1>2. \A l \in R : recorded[l] \in Nat
  BY DEF TelemetryInv, TelemetryTypes
<1> QED
  BY <1>1, <1>2, SumNat, SumSubset

(* The latency at a quantile's rank is the least up to which so many were  *)
(* recorded: there is one, up to the longest all were.                     *)
LEMMA ExactReached ==
  ASSUME TelemetryInv, totals.packets > 0, NEW q \in Quantiles
  PROVE  /\ ExactQuantile(q) \in Latencies
         /\ RecordedUpTo(ExactQuantile(q)) >= Rank[q][totals.packets]
         /\ \A l \in Latencies :
              RecordedUpTo(l) >= Rank[q][totals.packets] => ExactQuantile(q) <= l
<1> DEFINE top == Max(Latencies)
           reached == {l \in Latencies : RecordedUpTo(l) >= Rank[q][totals.packets]}
<1>1. /\ totals.packets \in Nat /\ DOMAIN recorded = Latencies
      /\ SumFunction(recorded) = totals.packets
  BY DEF TelemetryInv, TelemetryTypes, SketchesCount
<1>2. Latencies # {}
  BY <1>1, SumEmpty DEF SumFunction
<1>3. top \in Latencies /\ \A l \in Latencies : l <= top
  BY <1>2, MaxIs, SketchAssumption
<1>4. RecordedUpTo(top) = totals.packets
  <2>1. {k \in Latencies : k <= top} = Latencies
    BY <1>3
  <2> QED
    BY <1>1, <2>1 DEF RecordedUpTo, SumFunction
<1>5. top \in reached
  BY <1>3, <1>4, RankWithin
<1>6. reached \in SUBSET Nat
  BY SketchAssumption
<1>7. ExactQuantile(q) = Min(reached)
  BY DEF ExactQuantile
<1>8. Min(reached) \in reached /\ \A l \in reached : Min(reached) <= l
  <2> HIDE DEF reached, top
  <2> QED
    BY <1>5, <1>6, MinIs
<1> QED
  BY <1>7, <1>8

(* A quantile is what the sketch keeps for the latency at its rank: that   *)
(* bucket has counted so many, and one that has stands for a latency up to *)
(* which so many were recorded.                                            *)
LEMMA QuantileKeeps ==
  ASSUME TelemetryInv, totals.packets > 0, NEW q \in Quantiles
  PROVE  Quantile(q) = Represented[ExactQuantile(q)]
<1> DEFINE exact == ExactQuantile(q)
           rank == Rank[q][totals.packets]
           reached == {b \in Buckets : CountUpTo(b) >= rank}
<1>1. /\ exact \in Latencies /\ RecordedUpTo(exact) >= rank
      /\ \A l \in Latencies : RecordedUpTo(l) >= rank => exact <= l
  BY ExactReached
<1>2. rank \in Nat /\ rank >= 1
  BY RankWithin DEF TelemetryInv, TelemetryTypes
<1>3. \A b \in Buckets : CountUpTo(b) = SumFunctionOnSet(recorded, KeptUpTo(b))
  BY DEF TelemetryInv, SketchesCount
<1>4. Quantile(q) = Min(reached)
  BY DEF Quantile
<1> HIDE DEF exact, rank
<1>5. Represented[exact] \in reached
  <2> DEFINE shorter == {k \in Latencies : k <= exact}
             kept == KeptUpTo(Represented[exact])
  <2>1. shorter \in SUBSET kept /\ kept \in SUBSET Latencies
    BY <1>1, SketchAssumption DEF KeptUpTo
  <2>2. RecordedUpTo(exact) = SumFunctionOnSet(recorded, shorter)
    BY DEF RecordedUpTo
  <2>3. Represented[exact] \in Buckets
    BY <1>1, BucketsFinite
  <2>4. CountUpTo(Represented[exact]) = SumFunctionOnSet(recorded, kept)
    BY <1>3, <2>3
  <2> HIDE DEF shorter, kept
  <2>5. /\ SumFunctionOnSet(recorded, kept) \in Nat
        /\ SumFunctionOnSet(recorded, shorter) \in Nat
        /\ SumFunctionOnSet(recorded, shorter) <= SumFunctionOnSet(recorded, kept)
    BY <2>1, RecordedSums
  <2> QED
    BY <1>1, <1>2, <2>2, <2>3, <2>4, <2>5
<1>6. ASSUME NEW b \in reached PROVE Represented[exact] <= b
  <2> DEFINE kept == KeptUpTo(b)
  <2>1. b \in Buckets /\ b \in Nat /\ SumFunctionOnSet(recorded, kept) >= rank
    BY <1>3, <1>6, BucketsFinite
  <2>2. kept \in SUBSET Nat /\ kept \in SUBSET Latencies /\ IsFiniteSet(kept)
    BY <2>1, BucketsFinite, SketchAssumption
  <2>3. \A l \in kept : Represented[l] <= b
    BY DEF KeptUpTo
  <2> HIDE DEF kept
  <2>4. kept # {}
    BY <1>2, <2>1, SumEmpty
  <2>5. PICK m \in kept : \A l \in kept : l <= m
    BY <2>2, <2>4, GreatestNatural
  <2> DEFINE shorter == {k \in Latencies : k <= m}
  <2>6. kept \in SUBSET shorter /\ shorter \in SUBSET Latencies
    BY <2>2, <2>5
  <2>7. RecordedUpTo(m) = SumFunctionOnSet(recorded, shorter)
    BY DEF RecordedUpTo
  <2> HIDE DEF shorter
  <2>8. /\ SumFunctionOnSet(recorded, kept) \in Nat
        /\ SumFunctionOnSet(recorded, shorter) \in Nat
        /\ SumFunctionOnSet(recorded, kept) <= SumFunctionOnSet(recorded, shorter)
    BY <2>6, RecordedSums
  <2>9. exact <= m
    BY <1>1, <1>2, <2>1, <2>2, <2>5, <2>7, <2>8
  <2>10. Represented[exact] <= Represented[m] /\ Represented[m] <= b
    BY <1>1, <2>2, <2>3, <2>5, <2>9, SketchAssumption
  <2>11. Represented[exact] \in Nat /\ Represented[m] \in Nat
    BY <1>1, <2>2, <2>5, SketchAssumption
  <2> QED
    BY <2>1, <2>10, <2>11
<1>7. reached \in SUBSET Nat
  BY BucketsFinite
<1> HIDE DEF reached
<1>8. Min(reached) \in reached /\ Min(reached) \in Nat /\ Represented[exact] \in Nat
      /\ Min(reached) <= Represented[exact]
  BY <1>5, <1>7, MinIs
<1> QED
  BY <1>4, <1>6, <1>8 DEF exact

(* A percentile is within one percent of the latency at its rank, and a    *)
(* higher one no lower.                                                    *)
LEMMA QuantilesNear ==
  ASSUME TelemetryInv, totals.packets > 0
  PROVE  /\ \A q \in Quantiles : Near(Quantile(q), ExactQuantile(q))
         /\ Quantile(50) <= Quantile(95) /\ Quantile(95) <= Quantile(99)
<1>1. \A q \in Quantiles : Near(Quantile(q), ExactQuantile(q))
  BY QuantileKeeps, ExactReached, SketchAssumption
<1>2. ASSUME NEW p \in Quantiles, NEW q \in Quantiles,
             Rank[p][totals.packets] <= Rank[q][totals.packets]
      PROVE  Quantile(p) <= Quantile(q)
  <2>1. /\ ExactQuantile(p) \in Latencies /\ ExactQuantile(q) \in Latencies
        /\ RecordedUpTo(ExactQuantile(q)) >= Rank[q][totals.packets]
        /\ \A l \in Latencies :
             RecordedUpTo(l) >= Rank[p][totals.packets] => ExactQuantile(p) <= l
    BY ExactReached
  <2>2. RecordedUpTo(ExactQuantile(q)) \in Nat
    <3> DEFINE shorter == {k \in Latencies : k <= ExactQuantile(q)}
    <3>1. shorter \in SUBSET Latencies /\ RecordedUpTo(ExactQuantile(q)) = SumFunctionOnSet(recorded, shorter)
      BY DEF RecordedUpTo
    <3> HIDE DEF shorter
    <3> QED
      BY <3>1, RecordedSums
  <2>3. Rank[p][totals.packets] \in Nat /\ Rank[q][totals.packets] \in Nat
    BY RankWithin DEF TelemetryInv, TelemetryTypes
  <2>4. ExactQuantile(p) <= ExactQuantile(q)
    BY <1>2, <2>1, <2>2, <2>3
  <2>5. Represented[ExactQuantile(p)] <= Represented[ExactQuantile(q)]
    BY <2>1, <2>4, SketchAssumption
  <2> QED
    BY <2>5, QuantileKeeps
<1>3. 50 \in Quantiles /\ 95 \in Quantiles /\ 99 \in Quantiles
  BY DEF Quantiles
<1>4. /\ Rank[50][totals.packets] <= Rank[95][totals.packets]
      /\ Rank[95][totals.packets] <= Rank[99][totals.packets]
  BY <1>3, RankWithin
<1> QED
  BY <1>1, <1>2, <1>3, <1>4

(* The parts of a summary fit each other and what was recorded, with       *)
(* percentiles one percent off at most (telemetry.rs:28, 131-147), for any *)
(* packets, sizes and latencies and any sketch that keeps its one percent. *)
THEOREM SummariesCohere == TelemetrySpec => []SummaryCoherent
<1>1. ASSUME TelemetryInv PROVE SummaryCoherent
  <2>1. /\ totals \in [packets : Nat, keyframes : Nat, deltas : Nat, bytes : Nat]
        /\ totals.keyframes + totals.deltas = totals.packets
    BY <1>1 DEF TelemetryInv, TelemetryTypes, TotalsFit
  <2>2. Share(100 * totals.keyframes) \in 0..100
    <3>1. CASE totals.packets = 0
      BY <3>1 DEF Share
    <3>2. CASE totals.packets # 0
      <4>1. /\ 100 * totals.keyframes \in Nat /\ totals.packets \in Nat \ {0}
            /\ 0 * totals.packets <= 100 * totals.keyframes
            /\ 100 * totals.keyframes <= 100 * totals.packets
        BY <2>1, <3>2
      <4>2. (100 * totals.keyframes) \div totals.packets \in 0..100
        BY <4>1, MeanBounds
      <4> QED
        BY <3>2, <4>2 DEF Share
    <3> QED
      BY <3>1, <3>2
  <2>3. ASSUME totals.packets > 0
        PROVE  Share(totals.bytes) \in Min(Sizes)..Max(Sizes)
    <3>1. /\ Sizes # {}
          /\ Min(Sizes) * totals.packets <= totals.bytes
          /\ totals.bytes <= Max(Sizes) * totals.packets
      BY <1>1, <2>3 DEF TelemetryInv, TotalsFit
    <3>2. /\ Min(Sizes) \in Nat /\ Max(Sizes) \in Nat
          /\ totals.bytes \in Nat /\ totals.packets \in Nat \ {0}
      <4>1. Min(Sizes) \in Sizes /\ Max(Sizes) \in Sizes
        BY <3>1, MinIs, MaxIs, TelemetryAssumption
      <4>2. totals.bytes \in Nat /\ totals.packets \in Nat \ {0}
        BY <2>1, <2>3
      <4> QED
        BY <4>1, <4>2, TelemetryAssumption
    <3>3. totals.bytes \div totals.packets \in Min(Sizes)..Max(Sizes)
      BY <3>1, <3>2, MeanBounds
    <3> QED
      BY <2>3, <3>3 DEF Share
  <2>4. ASSUME totals.packets > 0
        PROVE  /\ Near(Quantile(50), ExactQuantile(50))
               /\ Near(Quantile(95), ExactQuantile(95))
               /\ Near(Quantile(99), ExactQuantile(99))
               /\ Quantile(50) <= Quantile(95) /\ Quantile(95) <= Quantile(99)
    BY <1>1, <2>4, QuantilesNear DEF Quantiles
  <2> QED
    BY <2>1, <2>2, <2>3, <2>4
    DEF SummaryCoherent, Summary, P50LatencyMs, P95LatencyMs, P99LatencyMs
<1> QED
  BY TelemetryInvInit, TelemetryInvNext, <1>1, PTL DEF TelemetrySpec

-----------------------------------------------------------------------------
(* The advisory holds.  First the order of versions: of two core versions  *)
(* exactly one is first, if they differ.                                   *)
LEMMA CoreOrder ==
  ASSUME NEW c \in Nat \X Nat \X Nat, NEW d \in Nat \X Nat \X Nat,
         NEW e \in Nat \X Nat \X Nat
  PROVE  /\ ~ CoreBefore(c, c)
         /\ CoreBefore(c, d) \/ c = d \/ CoreBefore(d, c)
         /\ CoreBefore(c, d) /\ CoreBefore(d, e) => CoreBefore(c, e)
<1>1. /\ c = <<c[1], c[2], c[3]>> /\ c[1] \in Nat /\ c[2] \in Nat /\ c[3] \in Nat
      /\ d = <<d[1], d[2], d[3]>> /\ d[1] \in Nat /\ d[2] \in Nat /\ d[3] \in Nat
      /\ e = <<e[1], e[2], e[3]>> /\ e[1] \in Nat /\ e[2] \in Nat /\ e[3] \in Nat
  OBVIOUS
<1>2. ~ CoreBefore(c, c)
  BY <1>1 DEF CoreBefore
<1>3. CoreBefore(c, d) \/ c = d \/ CoreBefore(d, c)
  <2>1. c[1] = d[1] /\ c[2] = d[2] /\ c[3] = d[3] => c = d
    BY <1>1
  <2> QED
    BY <1>1, <2>1 DEF CoreBefore
<1>4. CoreBefore(c, d) /\ CoreBefore(d, e) => CoreBefore(c, e)
  BY <1>1 DEF CoreBefore
<1> QED
  BY <1>2, <1>3, <1>4

(* The same of identifiers, ... *)
LEMMA IdentifierOrder ==
  ASSUME NEW i \in Identifier, NEW j \in Identifier, NEW k \in Identifier
  PROVE  /\ ~ IdentifierBefore(i, i)
         /\ IdentifierBefore(i, j) \/ i = j \/ IdentifierBefore(j, i)
         /\ IdentifierBefore(i, j) /\ IdentifierBefore(j, k) => IdentifierBefore(i, k)
<1>1. /\ i = <<i[1], i[2]>> /\ i[1] \in {0, 1} /\ i[2] \in Nat
      /\ j = <<j[1], j[2]>> /\ j[1] \in {0, 1} /\ j[2] \in Nat
      /\ k = <<k[1], k[2]>> /\ k[1] \in {0, 1} /\ k[2] \in Nat
  BY DEF Identifier
<1>2. i[1] = j[1] /\ i[2] = j[2] => i = j
  BY <1>1
<1> QED
  BY <1>1, <1>2 DEF IdentifierBefore

(* ... of their sequences, by the first place where two of them differ, ... *)
LEMMA IdentifiersTotal ==
  ASSUME NEW p \in Seq(Identifier), NEW q \in Seq(Identifier)
  PROVE  IdentifiersBefore(p, q) \/ p = q \/ IdentifiersBefore(q, p)
<1>1. /\ Len(p) \in Nat /\ Len(q) \in Nat
      /\ \A i \in 1..Len(p) : p[i] \in Identifier
      /\ \A i \in 1..Len(q) : q[i] \in Identifier
  OBVIOUS
<1> DEFINE Differ == {k \in 1..Len(p) : k <= Len(q) /\ p[k] # q[k]}
<1>2. CASE Differ # {}
  <2>1. PICK k \in Differ : \A n \in Differ : k <= n
    <3>1. Differ \in SUBSET Nat
      OBVIOUS
    <3> HIDE DEF Differ
    <3> QED
      BY <1>2, <3>1, LeastNatural
  <2>2. /\ k \in 1..Len(p) /\ k \in 1..Len(q) /\ p[k] # q[k]
        /\ p[k] \in Identifier /\ q[k] \in Identifier
    BY <1>1, <2>1
  <2>3. \A i \in 1..(k - 1) : p[i] = q[i]
    BY <1>1, <2>1, <2>2
  <2>4. IdentifierBefore(p[k], q[k]) \/ IdentifierBefore(q[k], p[k])
    BY <2>2, IdentifierOrder
  <2> QED
    BY <1>1, <2>2, <2>3, <2>4 DEF IdentifiersBefore
<1>3. CASE Differ = {}
  <2>1. \A i \in 1..Len(p) : i <= Len(q) => p[i] = q[i]
    BY <1>3
  <2>2. CASE Len(p) < Len(q)
    BY <1>1, <2>1, <2>2 DEF IdentifiersBefore
  <2>3. CASE Len(q) < Len(p)
    BY <1>1, <2>1, <2>3 DEF IdentifiersBefore
  <2>4. CASE Len(p) = Len(q)
    BY <1>1, <2>1, <2>4
  <2> QED
    BY <1>1, <2>2, <2>3, <2>4
<1> QED
  BY <1>2, <1>3

(* A sequence does not come before itself, ... *)
LEMMA IdentifiersIrreflexive ==
  ASSUME NEW p \in Seq(Identifier) PROVE ~ IdentifiersBefore(p, p)
<1>1. \A k \in 1..Len(p) : ~ IdentifierBefore(p[k], p[k])
  BY IdentifierOrder
<1> QED
  BY <1>1 DEF IdentifiersBefore

(* ... and what is before another is before what that is before. *)
LEMMA IdentifiersTransitive ==
  ASSUME NEW p \in Seq(Identifier), NEW q \in Seq(Identifier), NEW r \in Seq(Identifier),
         IdentifiersBefore(p, q), IdentifiersBefore(q, r)
  PROVE  IdentifiersBefore(p, r)
<1>1. /\ Len(p) \in Nat /\ Len(q) \in Nat /\ Len(r) \in Nat
      /\ \A i \in 1..Len(p) : p[i] \in Identifier
      /\ \A i \in 1..Len(q) : q[i] \in Identifier
      /\ \A i \in 1..Len(r) : r[i] \in Identifier
  OBVIOUS
<1> DEFINE Shorter(s, t) == Len(s) < Len(t) /\ \A i \in 1..Len(s) : s[i] = t[i]
           First(s, t, k) == /\ k \in 1..Len(s) /\ k <= Len(t) /\ IdentifierBefore(s[k], t[k])
                             /\ \A i \in 1..(k - 1) : s[i] = t[i]
<1>2. \A s, t : IdentifiersBefore(s, t) <=> Shorter(s, t) \/ \E k : First(s, t, k)
  BY DEF IdentifiersBefore
<1>3. CASE Shorter(p, q) /\ Shorter(q, r)
  <2>1. Shorter(p, r)
    BY <1>1, <1>3
  <2> QED
    BY <1>2, <2>1
<1>4. ASSUME NEW k, Shorter(p, q), First(q, r, k) PROVE IdentifiersBefore(p, r)
  <2>1. CASE k <= Len(p)
    <3>1. First(p, r, k)
      BY <1>1, <1>4, <2>1
    <3> QED
      BY <1>2, <3>1
  <2>2. CASE ~ (k <= Len(p))
    <3>1. Shorter(p, r)
      BY <1>1, <1>4, <2>2
    <3> QED
      BY <1>2, <3>1
  <2> QED
    BY <2>1, <2>2
<1>5. ASSUME NEW k, First(p, q, k), Shorter(q, r) PROVE IdentifiersBefore(p, r)
  <2>1. First(p, r, k)
    BY <1>1, <1>5
  <2> QED
    BY <1>2, <2>1
<1>6. ASSUME NEW k, NEW n, First(p, q, k), First(q, r, n) PROVE IdentifiersBefore(p, r)
  <2>1. CASE k < n
    <3>1. First(p, r, k)
      BY <1>1, <1>6, <2>1
    <3> QED
      BY <1>2, <3>1
  <2>2. CASE n < k
    <3>1. First(p, r, n)
      BY <1>1, <1>6, <2>2
    <3> QED
      BY <1>2, <3>1
  <2>3. CASE n = k
    <3>1. /\ p[k] \in Identifier /\ q[k] \in Identifier /\ r[k] \in Identifier
          /\ k \in 1..Len(p) /\ k <= Len(r)
      BY <1>1, <1>6, <2>3
    <3>2. IdentifierBefore(p[k], r[k])
      BY <1>6, <2>3, <3>1, IdentifierOrder
    <3>3. \A i \in 1..(k - 1) : p[i] = r[i]
      BY <1>6, <2>3
    <3> QED
      BY <1>2, <3>1, <3>2, <3>3
  <2> QED
    BY <1>1, <1>6, <2>1, <2>2, <2>3
<1> HIDE DEF Shorter, First
<1> QED
  BY <1>2, <1>3, <1>4, <1>5, <1>6

(* The precedence of versions is a strict total order, pre-releases and    *)
(* all (advisory_hold_guard.py:44-49).                                     *)
THEOREM PrecedenceIsOrder ==
  ASSUME NEW u \in Version, NEW v \in Version, NEW w \in Version
  PROVE  /\ ~ Before(u, u)
         /\ Before(u, v) \/ u = v \/ Before(v, u)
         /\ Before(u, v) /\ Before(v, w) => Before(u, w)
<1>1. \A x \in Version : /\ x.core \in Nat \X Nat \X Nat /\ x.pre \in Seq(Identifier)
                         /\ x = [core |-> x.core, pre |-> x.pre]
  BY DEF Version
<1>2. ~ Before(u, u)
  <2>1. ~ CoreBefore(u.core, u.core) /\ ~ IdentifiersBefore(u.pre, u.pre)
    BY <1>1, CoreOrder, IdentifiersIrreflexive
  <2> QED
    BY <2>1 DEF Before, PreBefore
<1>3. Before(u, v) \/ u = v \/ Before(v, u)
  <2>1. CoreBefore(u.core, v.core) \/ u.core = v.core \/ CoreBefore(v.core, u.core)
    BY <1>1, CoreOrder
  <2>2. PreBefore(u.pre, v.pre) \/ u.pre = v.pre \/ PreBefore(v.pre, u.pre)
    BY <1>1, IdentifiersTotal DEF PreBefore
  <2>3. u.core = v.core /\ u.pre = v.pre => u = v
    BY <1>1
  <2> QED
    BY <2>1, <2>2, <2>3 DEF Before
<1>4. ASSUME Before(u, v), Before(v, w) PROVE Before(u, w)
  <2>1. CoreBefore(u.core, v.core) /\ CoreBefore(v.core, w.core) => CoreBefore(u.core, w.core)
    BY <1>1, CoreOrder
  <2>2. PreBefore(u.pre, v.pre) /\ PreBefore(v.pre, w.pre) => PreBefore(u.pre, w.pre)
    <3>1. IdentifiersBefore(u.pre, v.pre) /\ IdentifiersBefore(v.pre, w.pre)
          => IdentifiersBefore(u.pre, w.pre)
      BY <1>1, IdentifiersTransitive
    <3> QED
      BY <3>1 DEF PreBefore
  <2> QED
    BY <1>4, <2>1, <2>2 DEF Before
<1> QED
  BY <1>2, <1>3, <1>4

(* So a range is an interval: a release between two versions in it is in   *)
(* it, and is never taken for one that is not fixed (:52-66).              *)
THEOREM RangesAreIntervals ==
  ASSUME NEW range \in Comparators, NEW u \in Version, NEW v \in Version, NEW w \in Version,
         InRange(u, range), InRange(w, range), Before(u, v), Before(v, w), v.pre = <<>>
  PROVE  InRange(v, range)
<1> SUFFICES ASSUME NEW c \in range PROVE Compares(v, c.op, c.bound)
  BY DEF InRange
<1>1. c.bound \in Version /\ c.op \in {">=", "<=", ">", "<", "="}
  BY DEF Comparators
<1>2. Compares(u, c.op, c.bound) /\ Compares(w, c.op, c.bound)
  BY DEF InRange
<1> DEFINE b == c.bound
<1>3. /\ Before(v, b) => Before(u, b)
      /\ Before(b, v) => Before(b, w)
      /\ Before(b, u) => Before(b, v)
      /\ Before(w, b) => Before(v, b)
      /\ ~ Before(u, b) /\ ~ Before(b, u) => u = b
      /\ ~ Before(w, b) /\ ~ Before(b, w) => w = b
      /\ ~ Before(u, u) /\ (Before(u, v) /\ Before(v, w) => Before(u, w))
  BY <1>1, PrecedenceIsOrder
<1>4. CASE c.op = ">="
  BY <1>2, <1>3, <1>4 DEF Compares
<1>5. CASE c.op = "<="
  BY <1>2, <1>3, <1>5 DEF Compares
<1>6. CASE c.op = ">"
  BY <1>2, <1>3, <1>6 DEF Compares
<1>7. CASE c.op = "<"
  BY <1>2, <1>3, <1>7 DEF Compares
<1>8. CASE c.op = "="
  BY <1>2, <1>3, <1>8 DEF Compares
<1> QED
  BY <1>1, <1>4, <1>5, <1>6, <1>7, <1>8

(* What is in the lock file depends only on what is in it, and a hold is   *)
(* of a version of its advisory's crate.                                   *)
HoldsInv ==
  /\ lock \in Resolves /\ today \in Nat
  /\ holds \in SUBSET [id : Advisories, package : Packages, dependents : SUBSET Packages,
                       expires : Nat]
  /\ \A h \in holds : h.package.name = Crate[h.id]

(* The names that Cargo writes for dependencies tell them apart: the guard *)
(* finds the packages that depend on the version, and no others.           *)
LEMMA DependentsExact ==
  ASSUME lock \in Resolves, NEW p \in DOMAIN lock
  PROVE  DependentsOf(p) = {q \in DOMAIN lock : p \in lock[q]}
<1>1. /\ \A r \in DOMAIN lock : /\ lock[r] \subseteq DOMAIN lock
                                /\ r \in [name : Crates, version : Version \ {Bare}]
  BY HoldsAssumption
<1>2. \A r \in DOMAIN lock : r = [name |-> r.name, version |-> r.version] /\ r.version # Bare
  BY <1>1
<1> DEFINE Name(r) == [name |-> r.name,
                       version |-> IF VersionsOf(r.name) = {r} THEN Bare ELSE r.version]
           Means(d) == /\ d.name = p.name
                       /\ d.version = p.version
                          \/ (d.version = Bare /\ VersionsOf(p.name) = {p})
<1>3. ASSUME NEW r \in DOMAIN lock PROVE Means(Name(r)) <=> r = p
  <2>1. ASSUME r = p PROVE Means(Name(r))
    BY <2>1
  <2>2. ASSUME Means(Name(r)) PROVE r = p
    <3>1. r.name = p.name /\ r \in VersionsOf(p.name)
      BY <2>2 DEF VersionsOf
    <3>2. CASE VersionsOf(r.name) = {r}
      BY <3>1, <3>2, <1>2 DEF VersionsOf
    <3>3. CASE VersionsOf(r.name) # {r}
      <4>1. r.version = p.version
        BY <1>2, <2>2, <3>3
      <4> QED
        BY <1>2, <3>1, <4>1
    <3> QED
      BY <3>2, <3>3
  <2> QED
    BY <2>1, <2>2
<1>4. ASSUME NEW q \in DOMAIN lock
      PROVE  (\E d \in Written(q) : Means(d)) <=> p \in lock[q]
  <2>1. (\E d \in Written(q) : Means(d)) <=> \E r \in lock[q] : Means(Name(r))
    BY DEF Written
  <2> HIDE DEF Means, Name
  <2> QED
    BY <1>1, <1>3, <2>1
<1> QED
  BY <1>4 DEF DependentsOf

(* The holds start within their invariant. *)
LEMMA HoldsInvInit == HoldsInit => HoldsInv
BY DEF HoldsInit, HoldsInv

(* And every edit keeps it. *)
LEMMA HoldsInvNext == HoldsInv /\ [HoldsNext]_holdsVars => HoldsInv'
<1> SUFFICES ASSUME HoldsInv, [HoldsNext]_holdsVars PROVE HoldsInv'
  OBVIOUS
<1>1. CASE Resolve
  BY <1>1 DEF Resolve, HoldsInv
<1>2. ASSUME NEW id \in Advisories, NEW p \in DOMAIN lock, NEW days \in HoldDays,
             WriteHold(id, p, days)
      PROVE  HoldsInv'
  <2> DEFINE new == [id |-> id, package |-> p, dependents |-> DependentsOf(p),
                     expires |-> today + days]
  <2>1. p \in Packages /\ DependentsOf(p) \in SUBSET Packages /\ today + days \in Nat
    BY HoldsAssumption DEF HoldsInv, DependentsOf
  <2>2. new \in [id : Advisories, package : Packages, dependents : SUBSET Packages,
                 expires : Nat]
    BY <2>1
  <2>3. new.package.name = Crate[new.id] /\ holds' = holds \cup {new}
    BY <1>2 DEF WriteHold
  <2> HIDE DEF new
  <2> QED
    BY <1>2, <2>2, <2>3 DEF WriteHold, HoldsInv
<1>3. ASSUME NEW h \in holds, RemoveHold(h) PROVE HoldsInv'
  BY <1>3 DEF RemoveHold, HoldsInv
<1>4. CASE EditIgnores
  BY <1>4 DEF EditIgnores, HoldsInv
<1>5. CASE NextDay
  BY <1>5 DEF NextDay, HoldsInv
<1>6. CASE UNCHANGED holdsVars
  BY <1>6 DEF holdsVars, HoldsInv
<1> QED
  BY <1>1, <1>2, <1>3, <1>4, <1>5, <1>6 DEF HoldsNext

(* A guard that passes leaves nothing hidden but what is held and in date  *)
(* (advisory_hold_guard.py:4-22), for any packages, advisories and ranges, *)
(* however the lock file, the holds and the ignores were edited.           *)
THEOREM HoldsHideNothing == HoldsSpec => []HidesNothing
<1>1. HoldsInv => HidesNothing
  <2> SUFFICES ASSUME HoldsInv, Passes, NEW h \in holds, NEW p \in DOMAIN lock,
                      Affected(p, h.id), ~ \E g \in holds : g.id # h.id /\ Crate[g.id] = Crate[h.id]
               PROVE  \E g \in holds : /\ g.id = h.id /\ g.package = p /\ today <= g.expires
                                       /\ g.dependents = {q \in DOMAIN lock : p \in lock[q]}
    BY DEF HidesNothing
  <2>1. h \in {g \in holds : Crate[g.id] = p.name}
    BY DEF Affected
  <2>2. PICK g \in holds : /\ Crate[g.id] = p.name
                           /\ \/ g.package = p
                              \/ \E r \in Patched[g.id] : InRange(p.version, r)
    BY <2>1 DEF Passes, Accounted
  <2>3. g.id = h.id
    BY <2>1, <2>2
  <2>4. g.package = p /\ Exact(g)
    BY <2>2, <2>3 DEF Affected, Passes
  <2>5. g.dependents = {q \in DOMAIN lock : p \in lock[q]}
    BY <2>4, DependentsExact DEF Exact, HoldsInv
  <2> QED
    BY <2>3, <2>4, <2>5 DEF Exact
<1> QED
  BY HoldsInvInit, HoldsInvNext, <1>1, PTL DEF HoldsSpec

-----------------------------------------------------------------------------
(* The crate's parts together.  A step of one leaves the others alone, so  *)
(* a behaviour of the whole is one of every part.                          *)
LEMMA PartSteps ==
  ASSUME [Next]_libraryVars
  PROVE  /\ [KeysNext]_keysVars /\ [QueueNext]_queueVars /\ [MetricsNext]_metricsVars
         /\ [ContainersNext]_containersVars /\ [TelemetryNext]_telemetryVars
         /\ [HoldsNext]_holdsVars
<1>1. CASE KeysPart
  BY <1>1 DEF KeysPart
<1>2. CASE QueuePart
  BY <1>2 DEF QueuePart
<1>3. CASE MetricsPart
  BY <1>3 DEF MetricsPart
<1>4. CASE ContainersPart
  BY <1>4 DEF ContainersPart
<1>5. CASE TelemetryPart
  BY <1>5 DEF TelemetryPart
<1>6. CASE HoldsPart
  BY <1>6 DEF HoldsPart
<1>7. CASE UNCHANGED libraryVars
  BY <1>7 DEF libraryVars
<1> QED
  BY <1>1, <1>2, <1>3, <1>4, <1>5, <1>6, <1>7 DEF Next

(* The composition implements the specification of each part: what is      *)
(* proved of a part holds of the crate (lib.rs:1-60).                      *)
LEMMA PartsHold ==
  Spec => /\ KeysSpec /\ QueueSpec /\ MetricsSpec /\ ContainersSpec /\ TelemetrySpec
          /\ HoldsSpec
<1>1. Init => /\ KeysInit /\ QueueInit /\ MetricsInit /\ ContainersInit /\ TelemetryInit
              /\ HoldsInit
  BY DEF Init
<1>2. [Next]_libraryVars =>
        /\ [KeysNext]_keysVars /\ [QueueNext]_queueVars /\ [MetricsNext]_metricsVars
        /\ [ContainersNext]_containersVars /\ [TelemetryNext]_telemetryVars
        /\ [HoldsNext]_holdsVars
  BY PartSteps
<1> QED
  BY <1>1, <1>2, PTL
  DEF Spec, KeysSpec, QueueSpec, MetricsSpec, ContainersSpec, TelemetrySpec,
      HoldsSpec

(* What a reader holds is a message or nothing. *)
LEMMA ReceivedTyped ==
  ASSUME QueueInv PROVE received \in GatewayMessage \cup {NoMessage}
<1> SUFFICES ASSUME received # NoMessage PROVE received \in GatewayMessage
  OBVIOUS
<1>1. sent \in GatewayMessage /\ received = Decoded(wire)
      /\ wire = [ToBytes(sent) EXCEPT !.size = wire.size]
  BY DEF QueueInv
<1>2. received = [sent EXCEPT !.payload = sent.payload % LengthRange]
  BY <1>1, DecodedFields
<1>3. sent.payload % LengthRange \in 0..MaxPayload
  BY <1>1, Modulo, QueueAssumption DEF GatewayMessage
<1> QED
  BY <1>1, <1>2, <1>3 DEF GatewayMessage

(* The parts' variables keep their types: ids are positive whole numbers,  *)
(* a health status is one of the enumeration, and what from_bytes returns  *)
(* is a gateway message (queue_bridge.rs:44-69).                           *)
THEOREM LibraryTypes == Spec => []LibraryTypeOK
<1>1. KeysSpec => []KeysTypeOK
  <2>1. KeysInv => KeysTypeOK
    BY DEF KeysInv
  <2> QED
    BY KeysInvInit, KeysInvNext, <2>1, PTL DEF KeysSpec
<1>2. ContainersSpec => []ContainersTypeOK
  <2> DEFINE Typed == ContainersInv /\ health \in HealthStatus
  <2>1. ContainersInit => Typed
    BY ContainersInvInit DEF ContainersInit, HealthStatus
  <2>2. Typed /\ [ContainersNext]_containersVars => Typed'
    <3>1. ASSUME health \in HealthStatus, [ContainersNext]_containersVars
          PROVE  health' \in HealthStatus
      BY <3>1 DEF ContainersNext, Deploy, ScaleUp, ScaleDown, HandOut, HealthCheck,
                  HealthStatus, containersVars
    <3> QED
      BY <3>1, ContainersInvNext
  <2>3. Typed => ContainersTypeOK
    BY DEF ContainersInv, ContainersTypeOK
  <2> QED
    BY <2>1, <2>2, <2>3, PTL DEF ContainersSpec
<1>3. QueueSpec => [](received \in GatewayMessage \cup {NoMessage})
  BY QueueInvInit, QueueInvNext, ReceivedTyped, PTL DEF QueueSpec
<1>4. /\ KeysTypeOK /\ ContainersTypeOK /\ received \in GatewayMessage \cup {NoMessage}
      => LibraryTypeOK
  BY DEF LibraryTypeOK
<1> QED
  BY PartsHold, <1>1, <1>2, <1>3, <1>4, PTL

=============================================================================
