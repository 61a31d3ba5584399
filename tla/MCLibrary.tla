----------------------------- MODULE MCLibrary -----------------------------
(***************************************************************************)
(* Instance, for TLC, of the parts of the crate that lib.rs exports and    *)
(* the pipeline does not share state with, and of the guard that watches   *)
(* its dependencies.  A behaviour uses one of them, so their state spaces  *)
(* add up instead of multiplying.                                          *)
(***************************************************************************)
EXTENDS DeviceKeys, GatewayQueue, MetricsRegistry, Containers, Telemetry, AdvisoryHolds,
        TLC

VARIABLE part  \* the part the behaviour uses

MCDeltas == {-1, 1, 2}
MCRepresented == [l \in Latencies |-> IF l = 250 THEN 252 ELSE 101]
MCRank == [q \in Quantiles |-> [n \in 1..MaxPackets |-> (q * n + 99) \div 100]]
MCColumn == [r \in {1, 2} |-> [d \in 1..3 |-> IF d = r THEN 1 ELSE 2]]

(* The trees of test_advisory_hold_guard.py, with alpha for the word <<1, 0>>. *)
Release(major, minor, patch) == [core |-> <<major, minor, patch>>, pre |-> <<>>]
Alpha(n) == [core |-> <<0, 3, 0>>, pre |-> <<<<1, 0>>, <<0, n>>>>]

App == [name |-> "app", version |-> Release(1, 0, 0)]
Mid == [name |-> "mid", version |-> Release(1, 0, 0)]
Leaf(v) == [name |-> "leaf", version |-> v]
Old == Leaf(Release(0, 1, 0))

MCPackages ==
  {App, Mid, Old} \cup {Leaf(v) : v \in {Alpha(3), Alpha(10), Release(0, 3, 0)}}
MCResolves ==
  {(App :> {Mid} @@ Mid :> {Old} @@ Old :> {}), (App :> {Mid, Old} @@ Mid :> {Old} @@ Old :> {})}
  \cup {(App :> {Mid, p} @@ Mid :> {Old} @@ Old :> {} @@ p :> {}) : p \in MCPackages \ {App, Mid, Old}}
MCPatched ==
  [a \in {1, 2} |->
     IF a = 2 THEN {}
     ELSE {{[op |-> ">=", bound |-> Release(0, 2, 0)], [op |-> "<", bound |-> Alpha(1)]},
           {[op |-> ">=", bound |-> Alpha(8)]}}]
MCCrate == [a \in {1, 2} |-> "leaf"]
MCKind == [a \in {1, 2} |-> IF a = 1 THEN "vulnerability" ELSE "unmaintained"]

Init ==
  /\ part \in {"keys", "queue", "metrics", "containers", "telemetry", "holds"}
  /\ KeysInit /\ QueueInit /\ MetricsInit /\ ContainersInit /\ TelemetryInit /\ HoldsInit
  /\ part # "keys" => \A t, u \in KeyThreads : device[t] = device[u]
  /\ part # "queue" => queueCount = 1
  /\ part # "holds" => lock = CHOOSE l \in Resolves : TRUE

KeysPart ==
  /\ part = "keys" /\ KeysNext
  /\ UNCHANGED <<part, queueVars, metricsVars, containersVars, telemetryVars, holdsVars>>

QueuePart ==
  /\ part = "queue" /\ QueueNext
  /\ UNCHANGED <<part, keysVars, metricsVars, containersVars, telemetryVars, holdsVars>>

MetricsPart ==
  /\ part = "metrics" /\ MetricsNext
  /\ UNCHANGED <<part, keysVars, queueVars, containersVars, telemetryVars, holdsVars>>

ContainersPart ==
  /\ part = "containers" /\ ContainersNext
  /\ UNCHANGED <<part, keysVars, queueVars, metricsVars, telemetryVars, holdsVars>>

TelemetryPart ==
  /\ part = "telemetry" /\ TelemetryNext
  /\ UNCHANGED <<part, keysVars, queueVars, metricsVars, containersVars, holdsVars>>

HoldsPart ==
  /\ part = "holds" /\ HoldsNext
  /\ UNCHANGED <<part, keysVars, queueVars, metricsVars, containersVars, telemetryVars>>

Next ==
  \/ KeysPart \/ QueuePart \/ MetricsPart \/ ContainersPart \/ TelemetryPart \/ HoldsPart

libraryVars ==
  <<part, keysVars, queueVars, metricsVars, containersVars, telemetryVars, holdsVars>>

Spec == Init /\ [][Next]_libraryVars

(* The parts' variables keep their types. *)
LibraryTypeOK ==
  /\ KeysTypeOK /\ ContainersTypeOK
  /\ received \in GatewayMessage \cup {NoMessage}

=============================================================================
