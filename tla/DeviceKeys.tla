----------------------------- MODULE DeviceKeys -----------------------------
(***************************************************************************)
(* The key store (src/src/device_keys.rs): keys are derived on demand and  *)
(* cached, one mutex over the cache, and an operator revokes devices or    *)
(* clears the cache while threads derive.  A key is a function of the      *)
(* device and the master secret, so the model keeps only which devices     *)
(* have one cached.                                                        *)
(***************************************************************************)
EXTENDS Integers

CONSTANTS
  KeyThreads,  \* threads that call derive_device_key
  KeyDevices,  \* device ids
  NoThread,    \* nobody holds the mutex
  MaxEvictions \* bound: how often a device's key is taken out of the cache

ASSUME KeysAssumption == NoThread \notin KeyThreads /\ MaxEvictions \in Nat

VARIABLES
  deriving,  \* the stage of each thread's call
  device,    \* the device it asks for
  keyMutex,  \* the thread that holds the mutex of key_cache
  keyCache,  \* devices whose key is cached
  evictions, \* history: how often each device was revoked or cleared
  missedAt,  \* history: evictions of its device when a thread missed
  cachedAt,  \* history: evictions when the thread that cached it had missed
  derived    \* history: how often each device's key was derived

keysVars == <<deriving, device, keyMutex, keyCache, evictions, missedAt, cachedAt,
              derived>>

KeysInit ==
  /\ deriving = [t \in KeyThreads |-> "idle"]
  /\ device \in [KeyThreads -> KeyDevices]
  /\ keyMutex = NoThread /\ keyCache = {}
  /\ evictions = [d \in KeyDevices |-> 0] /\ missedAt = [t \in KeyThreads |-> 0]
  /\ cachedAt = [d \in KeyDevices |-> 0] /\ derived = [d \in KeyDevices |-> 0]

At(t, from, to) == deriving[t] = from /\ deriving' = [deriving EXCEPT ![t] = to]
UnlockKeys(t) == keyMutex' = IF keyMutex = t THEN NoThread ELSE keyMutex

Ask(t) ==
  /\ At(t, "idle", "locking")
  /\ device' \in {[device EXCEPT ![t] = d] : d \in KeyDevices}
  /\ UNCHANGED <<keyMutex, keyCache, evictions, missedAt, cachedAt, derived>>

LockKeys(t) ==
  /\ At(t, "locking", "finding")
  /\ keyMutex = NoThread /\ keyMutex' = t
  /\ UNCHANGED <<device, keyCache, evictions, missedAt, cachedAt, derived>>

FindKey(t) ==
  /\ At(t, "finding", "idle") /\ device[t] \in keyCache
  /\ UnlockKeys(t)
  /\ UNCHANGED <<device, keyCache, evictions, missedAt, cachedAt, derived>>

(* Mutant of MissKey: the mutex is free while the key is derived. *)
MissUnlocking(t) ==
  /\ At(t, "finding", "inserting") /\ device[t] \notin keyCache
  /\ missedAt' = [missedAt EXCEPT ![t] = evictions[device[t]]]
  /\ UnlockKeys(t)
  /\ UNCHANGED <<device, keyCache, evictions, cachedAt, derived>>

MissKey(t) ==
  /\ At(t, "finding", "inserting") /\ device[t] \notin keyCache
  /\ missedAt' = [missedAt EXCEPT ![t] = evictions[device[t]]]
  /\ UNCHANGED <<device, keyMutex, keyCache, evictions, cachedAt, derived>>

InsertKey(t) ==
  LET d == device[t] IN
  /\ At(t, "inserting", "idle")
  /\ keyCache' = keyCache \cup {d}
  /\ derived' = [derived EXCEPT ![d] = @ + 1]
  /\ cachedAt' = [cachedAt EXCEPT ![d] = missedAt[t]]
  /\ UnlockKeys(t)
  /\ UNCHANGED <<device, evictions, missedAt>>

(* revoke_device and clear_cache. *)
Evict(D) ==
  /\ keyMutex = NoThread
  /\ \A d \in D : evictions[d] < MaxEvictions
  /\ keyCache' = keyCache \ D
  /\ evictions' = [d \in KeyDevices |-> evictions[d] + (IF d \in D THEN 1 ELSE 0)]
  /\ UNCHANGED <<deriving, device, keyMutex, missedAt, cachedAt, derived>>

RevokeDevice(d) == Evict({d})
ClearCache == Evict(KeyDevices)

KeysNext ==
  \/ \E t \in KeyThreads :
       Ask(t) \/ LockKeys(t) \/ FindKey(t) \/ MissKey(t) \/ InsertKey(t)
  \/ \E d \in KeyDevices : RevokeDevice(d)
  \/ ClearCache

KeysSpec == KeysInit /\ [][KeysNext]_keysVars

-----------------------------------------------------------------------------
(* Every variable keeps its type. *)
KeysTypeOK ==
  /\ deriving \in [KeyThreads -> {"idle", "locking", "finding", "inserting"}]
  /\ device \in [KeyThreads -> KeyDevices]
  /\ keyMutex \in KeyThreads \cup {NoThread} /\ keyCache \in SUBSET KeyDevices
  /\ evictions \in [KeyDevices -> 0..MaxEvictions]
  /\ missedAt \in [KeyThreads -> Nat]
  /\ cachedAt \in [KeyDevices -> Nat] /\ derived \in [KeyDevices -> Nat]

(* "Revoke a device's key (removes from cache, forcing re-derivation)"     *)
(* (device_keys.rs:51): a derivation that began before a revocation never  *)
(* puts the key back into the cache after it.                              *)
NoStaleInsert == \A d \in keyCache : cachedAt[d] = evictions[d]

(* A key is cached after its first derivation (device_keys.rs:15): between *)
(* two revocations it is derived once, however many threads ask.           *)
DerivedOncePerEviction == \A d \in KeyDevices : derived[d] <= evictions[d] + 1
=============================================================================
