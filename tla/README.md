# ALICE-Cloud-Gateway in TLA+

Formal models of the gateway, checked with TLC and proved with TLAPS. Paths
below are relative to the repository root (the modules and `PROJECT.json` write
them with a leading `src/`).

## The system

| Component | Code | State | Operations | What is hard |
|---|---|---|---|---|
| Ingest pipeline | `src/ingest.rs`, `src/main.rs` | SDF storage (on disk), frame cache, CDN router, sync hub, queue router, telemetry, routing stats: five numbered locks and two thread-safe stores | the receive loop spawns a task per datagram, `process_packet` (8 steps), `set_cdn_router`, reads | unbounded concurrent tasks, one lock after another, failing stores, crashes that lose all but the storage |
| Circuit breaker | `src/circuit_breaker.rs` | state, failures, opening time, half-open counters | `allow_request`, `record_success`, `record_failure`, `reset` | results arrive after the state has changed, or never; stale clock readings |
| Rate limiter | `src/rate_limiter.rs` | a token bucket per device | `try_acquire`, `remove_device`, `purge_inactive` | fractions, clock readings out of order, purge hands out a new burst |
| Backpressure | `src/backpressure.rs` | in-flight count, queue length, throttling flag | `evaluate`, `on_request_start`, `on_request_complete`, `update_queue_len` | the check and the count are two calls; hysteresis |
| Device keys | `src/device_keys.rs` | cache of derived keys, one mutex | derive, revoke, clear | a revocation while a key is being derived |
| Telemetry | `src/telemetry.rs` | four counters, three sketches | `record_packet`, ratios, summary | colliding hashes, parts of one summary that must agree |
| Queue bridge | `src/queue_bridge.rs` | message counters | codec, `route`, `route_with_priority` | a 16-bit length field, messages that arrive cut, two routing methods |
| Container bridge | `src/container_bridge.rs` | next id, counters | `deploy`, `scale`, `health_check` | lists of ids that are scaled late or twice, NaN usage |
| Metrics export | `src/metrics_export.rs` | named counters and gauges | register, increment, set, render | counters that must not decrease, text that must read back |
| Heavy slot | `scripts/preflight.sh` | ticket files, slot locks, info files, a keeper process | acquire, release, watch | several processes, any of which may be killed at any step |
| Advisory hold guard | `scripts/advisory_hold_guard.py` | none of its own; it reads the lock file, the holds, the ignore lists and the date | `check` | the order of pre-releases, dependencies written without a version, files that change after a hold was written |
| Sibling guard | `scripts/sibling_coverage_guard.py` | none | set comparison | parsing |

Interaction. `main.rs` receives datagrams and calls the pipeline in spawned
tasks; the pipeline calls the key store, then the storage, the CDN router, the
cache, the sync hub, the queue router and the telemetry, releasing each lock
before it takes the next (`ingest.rs:82-95`). The circuit breaker, the rate
limiter, the backpressure controller, the container bridge and the metrics
registry are library components for an embedding program: nothing in this
repository calls them, so each is modelled with the callers its API allows. The
advisory hold guard runs in continuous integration, between edits of the files
it reads. The crates behind the pipeline (alice-crypto, alice-db, alice-cache,
alice-sync, alice-cdn, tokio) are not in the repository; they are modelled from
their use and marked external in `PROJECT.json`.

What makes each component correct:

- pipeline: counters agree with the packets processed at every moment; a hit is
  earned by an earlier miss; nothing is visible before it is stored; a rejected
  packet leaves nothing behind; of two devices at least one learns of the other;
  every task ends;
- breaker: fail-fast for the recovery time, a bounded number of trials, recovery;
- limiter: no more than burst plus rate over any window, and no less to a device
  that waits;
- backpressure: bounded overshoot, no flapping;
- locks: the documented order, no deadlock, snapshots that are consistent, and
  sections that may be taken for atomic;
- heavy slot: one run per slot, arrival order, info files that name the holder,
  nobody waits for ever, whichever process is killed;
- device keys: a revoked key does not come back from a derivation begun before;
- queue bridge: what is decoded was sent; a key keeps its queue;
- container bridge: an id is handed out once;
- metrics: counters that are used as counters do not fall, a scrape reads back;
- telemetry: estimates err to one side, the parts of a summary agree;
- advisory holds: an ignored advisory hides only what a hold in date names.

`PROJECT.json` lists the hazards of the code, line by line, with the properties
that cover them.

## Modules

### IngestPipeline

A constant set of tasks, one per datagram. `pc[t]` is the stage of
`process_packet` the task is about to execute:

    idle -> received -> [store -> route ->] lookup -> put -> sync -> queue
         -> telemetry -> stats -> done
    received -> malformed | undecryptable      store -> storageError

| Action | Code |
|---|---|
| `Receive` | `recv_from` and `tokio::spawn`, `main.rs:28-35` |
| `RejectMalformed`, `Decrypt` | steps 1-3, with `derive_device_key`, which caches the key before the payload is authenticated |
| `StoreKeyframe`, `StoreFails` | `store_keyframe` of step 4; a failing call may or may not have written |
| `RouteCdn` | the lookup under lock 1; no router and no node give `NoNode` |
| `LookupCache`, `PutCache` | the two cache calls of step 5 |
| `SyncHub` | step 6, three hub calls under lock 2 |
| `RouteQueue` | step 7 under lock 3 |
| `RecordTelemetry`, `RecordStats` | step 8 under locks 4 and 5, in turn |
| `SetCdnRouter` | `set_cdn_router`, at any moment |
| `Restart` | the process dies (`panic = "abort"` in the release profile, or a kill) and `IngestPipeline::new` runs: tasks and memory are lost, any subset of the storage survives |

A datagram is a record of what the code's branches look at: device, version,
size, whether it was sealed under the device's key, whether its first plain byte
is 0x01, its cell and value. `CacheKey` is the code's 64-bit shift with
`Word` for 2^32. The storage is the set of records written to it; whether a
later record replaces an earlier one of the same cell is the storage's affair.
The hub keeps a device's last pushed version; `heartbeat` and the region do not
affect the modelled behaviour. The cache evicts any one frame when full.

### CircuitBreaker

Callers that have a call outstanding between `allow_request` and the report. A
call admitted in the current half-open period is a `trial`, any other one is
`earlier`. Time is kept as `openedAgo = now - opened_at`, advanced by `Tick`
while the circuit is open and stopped at `RecoveryTimeout + MaxSkew`, beyond
which no comparison changes; readings are up to `MaxSkew` old.
`lateSuccesses` and `openFor` are history variables. A denied request changes
nothing and is not an action.

### RateLimiter

Buckets in units of 1/`Cost` of a token, refilled by `Rate` units per tick, so
that `requests_per_second` is any ratio and arithmetic is exact.
`Readings` are the times a call may pass in, `PurgeThresholds` any times to
purge after. `window` (a moment chosen freely, the grants since, and in `early`
the purges since that took a bucket before it had filled up) and `granted` are
history variables. A bucket purged too early is full again at the next request:
`RateBound` allows one burst more for it, and none for a purge that came later.

### Backpressure

Gates ask `evaluate` and call `on_request_start` in a later step. The ratios are
compared as counts. `seen` is a history variable: what evaluations have found
since in-flight was last at or below the low mark.

### IngestLocks

`IngestPipeline` takes every critical section for one step. `IngestLocks`
extends it and takes them apart: `lock[k]` is the holder of mutex `k` (the
numbers of `ingest.rs:82-95`, and 0 for the mutex inside `DeviceKeyStore`); a
task whose stage needs a mutex first fires `Acquire`, then writes, one write at
a time, then releases. Step 6 registers the device and updates the hub in two
steps under mutex 2, step 8 writes the telemetry and the routing stats in two
steps each. Monitors read `routing_stats`, `telemetry_snapshot` and
`connected_device_count` under the same mutexes, in the reverse of the order in
which packets are counted, so that a count read later must not fall short of one
read before.

`ImplementsPipeline == Pipeline!Spec` is the refinement. The mapping: a task at
`key` (it has a header and waits for its key) is still `received`; the outcome of
opening the payload is settled once the key is derived; the sync happens at the
update; a packet is counted at the first write of its section, so while a task
stands between two writes the mapped counters already hold the second
(`TelemetryThen`, `StatsThen`). The mapping hides `lock`, `registered` and the
monitors. The refinement includes the fairness of `IngestPipeline`, so what that
module shows of a task holds of one that waits for mutexes.

### HeavySlot

A run is a shell (`heavy_slot_acquire`, the work, `heavy_slot_release`) and a
keeper (the perl process), with a pipe from the second to the first.

    shell:  idle -> waiting -> told -> working -> released -> ended
                    waiting -> failed                 any -> dead
    keeper: none -> stamped -> queued -> front -> locked -> unlinked -> holding -> gone
                               queued, front -> tick -> queued    holding -> stopped -> gone

`stamped` is a keeper that has taken the time its ticket will carry but has not
created the file; `tick` is the end of a pass in vain, where it may reach the
limit or find its parent gone. Runs are numbered in the order of their times.
`flock[k]` is given up by the kernel when its holder ends. `KillShell` and
`KillKeeper` kill any process at any step; the memory watch is one of the
killers. A keeper that writes to the pipe of a dead shell dies of it and leaves
its ticket. `ahead` (what was in the queue when a keeper took its time) and
`orphaned` (runs whose keeper was killed under the living shell) are history.

One look at the queue is one step: the listing and the `kill(0, p)` of each
ticket are not separated. The wall clock does not go back, a pid is not reused,
and a run starts once. Nested runs keep no state; what they rely on is
`InfoNamesHolder`. A killed shell's children may outlive it; the slot counts
runs, not children.

### The library parts

- `DeviceKeys`: `derive_device_key` in its steps (`locking`, `finding`,
  `inserting`) under the mutex, `RevokeDevice` and `ClearCache` at any moment.
  A key is determined by the device, so the cache is a set of devices. The
  evictions a thread saw when it missed are history.
- `GatewayQueue`: `ToBytes` and `FromBytes` with `LengthRange` for the 2^16 of
  `payload_len`, a transport that cuts, `Route` and `RouteWithPriority`. A
  payload is named by its length: a cut payload is a prefix.
- `Containers`: `Deploy`, `ScaleUp`, `ScaleDown`, `HealthCheck`; `lists` holds
  every list a caller ever had, so any stale list may be scaled.
- `MetricsRegistry`: registration, increments and settings; `RenderPrometheus`
  gives a scrape as lines with their fields, and `WellFormed`, `Announced` and
  `ParsedValues` are the reader's side. Both kinds of write reach both kinds of
  metric, as in the code; `misused` remembers counters that were set or given a
  negative delta.
- `AdvisoryHolds`: the versions with their precedence, the ranges, the dependents
  as Cargo writes them, and `Passes` for `check` returning 0; people resolve the
  dependencies anew, write and remove holds and edit the ignores in any order
  while days pass. A hold's `fixed` is its advisory's `Patched`, copied as
  published; a lock file holds a package once.
- `Telemetry`: `RecordPacket` feeds the counters and the sketches; the count-min
  sketch is a table of counts under hashes that collide. The DDSketch counts the
  latency it has `Represented` for each, within the one percent telemetry.rs:28
  and 50 ask of it (`Near`), and a quantile is the bucket at its `Rank`; both are
  constants with what is assumed of the crate in `SketchAssumption`. `recorded`
  is a history variable that keeps the latencies themselves. Of the HyperLogLog
  only the set of devices it was given is kept.

`MCLibrary` puts the six beside each other: `part` chooses one per behaviour.

The `MC*` modules instantiate these for TLC, the `*Proofs` modules prove
theorems about them. Operators commented as mutants are plausible bugs: every
property of a passing run is violated when the named definition is replaced by
one of them.

## Runs

| Run | Instance | Shows |
|---|---|---|
| `ingest_concurrent` | 3 tasks, 9 kinds of datagram, cache of 1, `Word` = 4, 1 restart | all pipeline safety properties in every interleaving |
| `ingest_locks` | 2 tasks, 1 monitor, 4 kinds of datagram, store errors, 1 restart | no deadlock, lock order, consistent snapshots, every received packet is resolved, refinement of `IngestPipeline` |
| `ingest_frame_owner` | 2 tasks | violation: devices 1 and 5 (equal modulo `Word`) share a cache key |
| `breaker_safety` | 4 callers, thresholds 3, timeout 3, skew 1, lost results | thresholds, quota, fail-fast |
| `breaker_liveness` | 3 callers, thresholds 2 | half-open ends, recovery is for good |
| `breaker_late_success` | 3 callers | violation: a late success closes the circuit with a trial outstanding |
| `limiter_rate` | 2 devices, rate 2/3 per tick, burst 2, 7 ticks, purges after 1 or 3 ticks, 1 early purge in a window | rate bound, refusals justified |
| `limiter_clock` | 1 device, skew 1 | violation: a reading one tick old makes a tick count twice |
| `flow_control` | 3 gates, limit 5, marks 4 and 2 | overshoot bound, no flapping |
| `flow_high_mark` | 3 gates | violation: a rejected evaluation at the high mark does not start throttling |
| `heavy_slot` | 3 runs, 2 slots, 2 kills | exclusive slots, arrival order, info files, every waiter is served |
| `library` | 3 threads and 2 devices; payloads 0..4 with lengths modulo 3; 2 names, 2 labels, values -2..2; 4 ids; 3 senders on 2 x 2 columns, 3 latencies, 4 packets; 5 lock files, 2 advisories, 2 holds, 3 days | the ten properties of the library parts |

Bounds. Three tasks are the fewest in which a frame is put, evicted by a second
device and looked up again, and in which three counters can be out of step at
once; two devices share a low word and one does not; the nine datagrams reach
every branch of steps 1-4 (too short, forged, truncated by the buffer, delta,
empty keyframe, keyframe without and with coordinates and value). `MaxRestarts` =
1 puts a crash at every point of every interleaving. Four callers with a quota
and a threshold of three leave room for a late result beside a full set of
trials. Seven ticks at 2/3 of a request per tick are two refills of the
burst; a bucket needs three to fill up, so a purge after one comes too early and
one after three does not. Limit 5 with three gates reaches the largest overshoot and both marks
from both sides.

In `ingest_locks` two tasks and a monitor are the fewest that can wait for each
other in a cycle of two and be read in the middle of a section; its four
datagrams end in each of the ways a packet can end. Three runs for two slots are
the fewest with a waiter behind two holders; two kills take a shell and its
keeper, or two runs, at any step. A payload of 3 or 4 wraps a length that counts
modulo 3. Three senders on two columns collide in one row and not in the other. Of the
latencies 100, 101 and 250 two share a bucket and the third is moved by it.
The queue's four priorities, both argument ranges of `GatewayRouter::new` and one
length short of the header are all enumerated. The lock files are trees of
`test_advisory_hold_guard.py`: a version beside the held one in the gap of the
patched ranges, past it by a numeric identifier, and a release past its
pre-releases; two holds are the fewest that can be of two versions or of two
advisories of one crate, and three days pass both dates a hold can have.

`CHECK_DEADLOCK FALSE` is set where the modelled world ends: no more datagrams,
no more ticks, no more runs.
That no lock cycle stops the tasks of `ingest_locks` is what `EveryPacketResolved`
shows there.

Fairness. `IngestPipeline` assumes weak fairness of each spawned task: tokio
polls it until it returns, `process_packet` never awaits, and parking_lot locks
are released by their holders. Nothing forces a datagram, a router or a crash.
`IngestLocks` splits this: weak fairness of a thread's own steps, strong fairness
of its acquisitions, because a mutex may be taken by others again and again while
a thread waits; parking_lot's mutex is eventually fair. `HeavySlot` assumes that
shells and keepers that are not killed keep running and that work in a slot ends;
a wait need not run into its limit.
The breaker's `LiveSpec` is an assumption on its embedding, stated apart from
`Spec`: time passes, callers keep asking, and every admitted call is reported.
Without the last one a half-open period whose trial is never reported stays
half-open; the code offers no way to give a trial back.

## Findings

Four violation runs each show the code doing something other than its own
comments say (`PROJECT.json`, "findings"): the cache key that drops the upper
half of a device id (`ingest.rs:251`), late successes counted as trials
(`circuit_breaker.rs:121`), time credited twice after an older reading
(`rate_limiter.rs:52`), and rejections that bypass the hysteresis
(`backpressure.rs:86`).

Six more places where code and comment part, without a run of their own:
`gauge_set` and negative deltas reach counters, which `metrics_export.rs:11`
calls monotone (`metrics_export.rs:103`); a payload of 2^16 bytes or more loses
its end (`queue_bridge.rs:36`); a NaN reading is healthy
(`container_bridge.rs:97`); and a keeper that is killed while its shell works
frees the slot, beside what `preflight.sh:13-15` says of holders that live; the
guard takes the patched ranges of all advisories held for a crate together
(`advisory_hold_guard.py:127`), though lines 15-16 speak of the advisory's own;
and an ignore without a hold passes it, though `advisory_holds.toml:8-10` says
that it fails when the lists disagree. The properties of the passing runs name
the first, the second, the fourth and the fifth as their exceptions.

## Proofs

Every invariant and action property that a passing run checks is a theorem here,
for all values of the constants that the modules' assumptions allow. But for the
refinements they have the form `Spec => []Inv` (or `[][A]_vars`).

`IngestPipelineProofs`. `TypeOK` is inductive. Each of the others is proved from
it and a strengthening:

- `HitInv` adds that every cached key was put by a task that missed; that is
  what makes a hit find its earlier miss, and it survives eviction (fewer keys)
  and restart (no keys, no hits);
- `TraceInv` adds that a task past decryption opened its packet;
- `StoredBeforeVisible` is inductive: it speaks of tasks and cache alike;
- `SyncInv` adds that a device past the hub is connected, so that of two
  updates the later one has the earlier device among its recipients;
- `Accounting` is inductive over the cardinalities of the sets of tasks past
  each lock (`SameSets` for the steps that move none of them);
- `BytesAccounted` is inductive over the sum of the recorded packets' lengths:
  `RecordTelemetry` adds one packet to the set (`SumWith`), every other step
  keeps the set and its lengths, and a restart empties it (`BytesKept`);
- `SmallIdFramesApart` follows from `TraceInv` and `CacheKeyInjective`.

`CircuitBreakerProofs`. One invariant `IInv`: type, both bounds, and `AgeBound`,
which relates `opened_at` to the true opening; zero thresholds are included.

`RateLimiterProofs`. `RateInv` relates a window's grants and the tokens left to
the bursts allowed and the time of the last update. For a device without a
bucket it leaves room for the burst it will get: a purged bucket had filled up,
or the purge is counted as early. Nothing is assumed of the purge thresholds.
`RateKept` assumes `MaxSkew = 0`; `limiter_clock` shows why. `EarnedInv` (tokens
cover the time since the last grant) needs no such assumption.

`BackpressureProofs`. `IInv` adds that an answer to throttle stays in force above
the low mark. No relation between the marks is assumed.

`IngestLocksProofs`. `LInv` is `LocksTypeOK` (with `HoldersNeed`: a mutex is held
only by a thread whose stage needs it) and two strengthenings: `SectionsHeld`, a
task in the middle of a section holds its mutex, and `HubSettled`, a registered
device has been updated unless a task is about to; the second is what lets the
mapping do without `registered`. As a stage needs at most one mutex,
`LocksInOrder` follows. `LocksImplementPipeline` maps initial states to initial
states and each of the steps to a step of `IngestPipeline` or a stutter, so the
safety theorems of `IngestPipelineProofs` hold of the locked code under the
mapping (that last substitution is by hand: the prover does not use theorems of
an instantiated module).

`SnapshotsConsistent` compares what a monitor read under one mutex with what it
reads under the next, so it needs to know the counters at every moment between:
`CountInv` adds `CountsHeld` (each counter is the number of tasks past its write,
with the one packet that a task in the middle of the section has counted but not
classified), `MetFirst` (a packet is counted only after its device registered)
and `SeenBelow` (what a monitor holds is no more than the counter it will read
next). The tasks past the stats are among those past the telemetry; that
inclusion, with the monitors' order, is the whole reason that a snapshot is
consistent.

`HeavySlotProofs`. `IInv` adds to the type: `StartOrder` (runs start in the order
of their numbers), `HeardInSlot` (a shell is in a slot only if it read `held`,
which only a keeper past the queue writes), `LocksMatch` (lock files and holding
keepers agree), `KeeperStays` (only a kill ends the keeper of a living holder)
and `QueueOrder` (a keeper at the front has nobody that was there before it in
the queue). Exclusion follows from the first four, arrival order from the last.

`LibraryProofs`:

- `KeysInv`: a deriving thread holds the mutex, and its device is missing and
  unevicted since it missed; `QueueInv`: what is on the wire is the sent message
  but for its size; `ContainersInv`: all ids lie below the next one;
- `MetricsInv`: an entry is a type and a finite map of numbers. A scrape is a
  flattened sequence of entries, so its form is proved by adding one entry at a
  time: `Scraped(lines, D)` says that `lines` holds one contiguous block per
  metric of `D` and nothing else. `ScrapeFirst` and `ScrapeMore` build it,
  `RenderScraped` reaches the whole registry, and `ScrapeWellFormed`,
  `ScrapeAnnounces` and `ScrapeValues` read it back;
- `TelemetryInv`: each row of the count-min sketch sums to the packets and holds
  at least the true count of every device that hashes there; the buckets up to
  any bucket have counted the packets of the latencies they stand for
  (`KeptUpTo`); the byte total lies between the smallest and the largest size
  times the packets. `QuantileKeeps` then shows a quantile to be what the sketch
  keeps for the latency at its rank, hence within its one percent, and the
  average lies in the range of the sizes, rounded down as the model's division
  is. What `SketchAssumption` asks of the crate is taken as given;
- `HoldsInv`: a hold is of a version of its advisory's crate, and what a locked
  package depends on is locked. From it, `DependentsExact`: a name without a
  version stands for one package only, so the guard finds exactly the packages
  that depend on the held version. `HoldsHideNothing` follows. The comparison of
  versions is what the ranges stand on: `PrecedenceIsOrder` shows it a strict
  total order, sequences of identifiers of any length included (by the first
  place where two differ, `LeastNatural`), and `RangesAreIntervals` that no
  release between two fixed ones is missed by their range;
- a lemma, `PartsHold`, carries what is proved of a part over to the composition
  `MCLibrary` that the run checks; it says nothing of the program;
- `LibraryTypes`: the types of the parts' variables.

`Sums` holds the lemmas about sums over finite sets and about least and greatest
elements. The prover has no induction over data; what a fold computes is proved
there, and for the flattening of a scrape, by a smallest counterexample: a set
for which the claim fails and no smaller one does (`MinimalSubset`, from the
library's well-founded orderings), and then one step of the fold.

Only model-checked: the liveness properties and the fairness half of
`ImplementsPipeline`, which are out of the prover's reach, and the four
violations, which are counterexamples.

## Not modelled

- Sketches of alice-analytics beyond their use: how the HyperLogLog estimates
  the number of devices (`estimated_unique_devices`), what the DDSketch answers
  while it is empty (`NoLatency`) or beyond its range.
- The rounding of the f64 arithmetic in the rate limiter.
- The spelling of metrics, errors and log lines; `query_spatial_region` (a read
  of the external storage); statistics that nothing in the code reads
  (`transition_count`, `rejected_count`, `deployments` and the like).
- What the sync hub does with heartbeats and with an older version after a newer
  one: the alice-sync crate is not in the repository, and nothing here orders it.
- Metric help texts and labels that contain newlines.
- `heavy_slot_watch` beyond its kills: how memory is measured and which tree is
  the largest.
- `scripts/sibling_coverage_guard.py` and the CI files: they parse files and keep
  no state. Of the advisory hold guard, how the files are parsed.
