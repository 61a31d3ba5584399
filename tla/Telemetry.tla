------------------------------ MODULE Telemetry ------------------------------
(***************************************************************************)
(* The telemetry of the gateway (src/src/telemetry.rs): exact counters and *)
(* three sketches that record_packet feeds, and the summary drawn from     *)
(* them.  The sketches belong to the alice_analytics crate and are         *)
(* modelled from how telemetry.rs uses them and what it says of them: a    *)
(* count-min sketch whose rows hash devices to columns, a DDSketch that    *)
(* keeps a latency up to one percent, and a HyperLogLog of which only the  *)
(* set of hashes it was given is kept.  Its estimate of their number is a  *)
(* float off by some tenths of a percent and left out of the summary.      *)
(***************************************************************************)
EXTENDS Integers, FiniteSets, FiniteSetsExt, Functions

CONSTANTS
  Senders,     \* device ids
  Sizes,       \* packet sizes
  Latencies,   \* latencies of a packet
  Represented, \* latency -> the one the DDSketch keeps for it
  Rank,        \* of n latencies in order, which the DDSketch takes for a quantile
  NoLatency,   \* what the DDSketch answers while it is empty
  SketchRows,  \* rows of the count-min sketch
  Columns,     \* and their columns
  Column,      \* the hashes: row -> device -> column
  MaxPackets   \* bound: how many packets are recorded

Quantiles == {50, 95, 99}

(* DDSketch2048::new(0.01): the latency e stands for l within one percent. *)
Near(e, l) == 100 * (e - l) <= l /\ 100 * (l - e) <= l

ASSUME TelemetryAssumption ==
  /\ Sizes \subseteq Nat /\ MaxPackets \in Nat
  /\ IsFiniteSet(Sizes) /\ IsFiniteSet(Columns)
  /\ Column \in [SketchRows -> [Senders -> Columns]] /\ SketchRows # {}

(* What is asked of the DDSketch: it keeps the order of latencies and its  *)
(* one percent, and a higher quantile is of no lower rank.                 *)
ASSUME SketchAssumption ==
  /\ Latencies \subseteq Nat /\ IsFiniteSet(Latencies)
  /\ Represented \in [Latencies -> Nat]
  /\ \A k, l \in Latencies : k <= l => Represented[k] <= Represented[l]
  /\ \A l \in Latencies : Near(Represented[l], l)
  /\ Rank \in [Quantiles -> [1..MaxPackets -> Nat]]
  /\ \A n \in 1..MaxPackets :
       /\ 1 <= Rank[50][n] /\ Rank[50][n] <= Rank[95][n]
       /\ Rank[95][n] <= Rank[99][n] /\ Rank[99][n] <= n

Buckets == {Represented[l] : l \in Latencies}

VARIABLES
  totals,          \* the four counters
  latencySketch,   \* bucket -> count
  uniqueDevices,   \* the devices whose hash the HyperLogLog was given
  deviceFrequency, \* row -> column -> count
  truth,           \* history: how many packets of each device were recorded
  recorded         \* history: how many packets of each latency were

telemetryVars ==
  <<totals, latencySketch, uniqueDevices, deviceFrequency, truth, recorded>>

TelemetryInit ==
  /\ totals = [packets |-> 0, keyframes |-> 0, deltas |-> 0, bytes |-> 0]
  /\ latencySketch = [b \in Buckets |-> 0]
  /\ uniqueDevices = {}
  /\ deviceFrequency = [r \in SketchRows |-> [c \in Columns |-> 0]]
  /\ truth = [d \in Senders |-> 0]
  /\ recorded = [l \in Latencies |-> 0]

(* CountMinSketch::insert_hash and estimate_hash. *)
InsertHash(sketch, d) ==
  [r \in SketchRows |-> [sketch[r] EXCEPT ![Column[r][d]] = @ + 1]]
EstimateHash(sketch, d) == Min({sketch[r][Column[r][d]] : r \in SketchRows})

(* Mutant of CountDevice: a device is counted when it is new to the        *)
(* HyperLogLog.                                                            *)
CountNewDevice(d) ==
  IF d \in uniqueDevices THEN deviceFrequency ELSE InsertHash(deviceFrequency, d)

CountDevice(d) == InsertHash(deviceFrequency, d)

RecordPacket(d, size, latency, keyframe) ==
  /\ totals.packets < MaxPackets
  /\ totals' = [packets   |-> totals.packets + 1,
                keyframes |-> totals.keyframes + (IF keyframe THEN 1 ELSE 0),
                deltas    |-> totals.deltas + (IF keyframe THEN 0 ELSE 1),
                bytes     |-> totals.bytes + size]
  /\ latencySketch' = [latencySketch EXCEPT ![Represented[latency]] = @ + 1]
  /\ uniqueDevices' = uniqueDevices \cup {d}
  /\ deviceFrequency' = CountDevice(d)
  /\ truth' = [truth EXCEPT ![d] = @ + 1]
  /\ recorded' = [recorded EXCEPT ![latency] = @ + 1]

TelemetryNext ==
  \E d \in Senders, size \in Sizes, latency \in Latencies, keyframe \in BOOLEAN :
    RecordPacket(d, size, latency, keyframe)

TelemetrySpec == TelemetryInit /\ [][TelemetryNext]_telemetryVars

-----------------------------------------------------------------------------
(* DDSketch::quantile: the first bucket by which the rank is counted. *)
CountUpTo(b) == SumFunctionOnSet(latencySketch, {c \in Buckets : c <= b})
Quantile(q) ==
  IF totals.packets = 0 THEN NoLatency
  ELSE Min({b \in Buckets : CountUpTo(b) >= Rank[q][totals.packets]})

(* The latency of that rank among those recorded. *)
RecordedUpTo(l) == SumFunctionOnSet(recorded, {k \in Latencies : k <= l})
ExactQuantile(q) == Min({l \in Latencies : RecordedUpTo(l) >= Rank[q][totals.packets]})

DevicePacketEstimate(d) == EstimateHash(deviceFrequency, d)
P50LatencyMs == Quantile(50)
P95LatencyMs == Quantile(95)

(* Mutant of P99LatencyMs: it asks the sketch for the median. *)
P99CopiedFromP50 == Quantile(50)

P99LatencyMs == Quantile(99)

Share(n) == IF totals.packets = 0 THEN 0 ELSE n \div totals.packets

(* Without estimated_unique_devices; the ratio is in percent. *)
Summary ==
  [total_packets |-> totals.packets, keyframe_count |-> totals.keyframes,
   delta_count |-> totals.deltas, total_bytes |-> totals.bytes,
   avg_packet_size |-> Share(totals.bytes),
   keyframe_ratio |-> Share(100 * totals.keyframes),
   p50_latency_ms |-> P50LatencyMs, p95_latency_ms |-> P95LatencyMs,
   p99_latency_ms |-> P99LatencyMs]

(* A device is never estimated to have sent less than it did, nor all      *)
(* devices together more than was recorded in a row: the estimate errs to  *)
(* one side only, however the hashes collide (telemetry.rs:107).           *)
EstimateNeverUnder ==
  /\ \A d \in Senders : /\ truth[d] <= DevicePacketEstimate(d)
                        /\ DevicePacketEstimate(d) <= totals.packets
  /\ \A r \in SketchRows : SumFunction(deviceFrequency[r]) = totals.packets

(* The parts of a summary, drawn from structures that record_packet writes *)
(* one after the other, fit each other and what was recorded: the kinds    *)
(* add up, the ratio lies in 0..100 and the average between the sizes, and *)
(* a percentile is within one percent of the latency at its rank and no    *)
(* lower than the percentile before it (telemetry.rs:28, 131-147).         *)
SummaryCoherent ==
  LET s == Summary IN
  /\ s.keyframe_count + s.delta_count = s.total_packets
  /\ s.keyframe_ratio \in 0..100
  /\ s.total_packets > 0 =>
       /\ s.avg_packet_size \in Min(Sizes)..Max(Sizes)
       /\ Near(s.p50_latency_ms, ExactQuantile(50))
       /\ Near(s.p95_latency_ms, ExactQuantile(95))
       /\ Near(s.p99_latency_ms, ExactQuantile(99))
       /\ s.p50_latency_ms <= s.p95_latency_ms /\ s.p95_latency_ms <= s.p99_latency_ms
=============================================================================
