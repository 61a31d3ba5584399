----------------------------- MODULE Containers -----------------------------
(***************************************************************************)
(* The container orchestrator (src/src/container_bridge.rs): deploy hands  *)
(* out new container ids, scale takes a list of ids from its caller and    *)
(* returns a longer or shorter one.  The orchestrator keeps no lists: its  *)
(* callers do, and a caller may scale a list it has scaled before, or one  *)
(* another caller has scaled meanwhile.                                    *)
(***************************************************************************)
EXTENDS Integers, Sequences

CONSTANTS
  Replicas,  \* replica counts that are asked for
  Usages,    \* usage readings in percent
  NaN,       \* a reading that is not a number
  MaxId      \* bound: how many ids are handed out

ASSUME ContainersAssumption ==
  /\ Replicas \subseteq Nat /\ Usages \subseteq Nat /\ NaN \notin Int
  /\ MaxId \in Nat

VARIABLES
  nextContainerId, \* ContainerOrchestrator::next_container_id
  lists,           \* every list of ids a caller holds or ever held
  health           \* the last status health_check returned

containersVars == <<nextContainerId, lists, health>>

HealthStatus == {"Healthy", "Degraded", "Unhealthy", "Unknown"}

ContainersInit == nextContainerId = 1 /\ lists = {} /\ health = "Unknown"

(* target ids: those kept of the list, and new ones after them. *)
Extended(list, target) ==
  [i \in 1..target |-> IF i <= Len(list) THEN list[i]
                       ELSE nextContainerId + (i - Len(list) - 1)]

HandOut(list, count) ==
  /\ nextContainerId + count <= MaxId + 1
  /\ nextContainerId' = nextContainerId + count
  /\ lists' = lists \cup {list}
  /\ UNCHANGED health

Deploy(replicas) == HandOut(Extended(<<>>, replicas), replicas)

(* Mutant of ScaleUp: the ids continue the list that is given. *)
ScaleUpFromList(list, target) ==
  /\ target > Len(list)
  /\ HandOut([i \in 1..target |-> IF i <= Len(list) THEN list[i] ELSE i],
             target - Len(list))

ScaleUp(list, target) ==
  /\ target > Len(list)
  /\ HandOut(Extended(list, target), target - Len(list))

ScaleDown(list, target) ==
  /\ target <= Len(list)
  /\ HandOut(SubSeq(list, 1, target), 0)

(* A comparison with NaN is false. *)
Above(usage, limit) == usage # NaN /\ usage > limit

HealthCheck(cpu, mem) ==
  /\ health' = IF Above(cpu, 95) \/ Above(mem, 95) THEN "Unhealthy"
               ELSE IF Above(cpu, 80) \/ Above(mem, 80) THEN "Degraded"
               ELSE "Healthy"
  /\ UNCHANGED <<nextContainerId, lists>>

ContainersNext ==
  \/ \E r \in Replicas : Deploy(r)
  \/ \E list \in lists, r \in Replicas : ScaleUp(list, r) \/ ScaleDown(list, r)
  \/ \E cpu, mem \in Usages \cup {NaN} : HealthCheck(cpu, mem)

ContainersSpec == ContainersInit /\ [][ContainersNext]_containersVars

-----------------------------------------------------------------------------
(* Every variable keeps its type. *)
ContainersTypeOK ==
  /\ nextContainerId \in Nat \ {0}
  /\ \A list \in lists : list \in Seq(Nat \ {0})
  /\ health \in HealthStatus

(* An id names one container for good (container_bridge.rs:59-88): two     *)
(* lists share an id only if one was scaled from the other, or both from a *)
(* third, and then they agree up to it.  No order of scaling down, scaling *)
(* a stale list up and deploying hands an id out a second time.            *)
SharedIdsSharedHistory ==
  \A a, b \in lists : \A i \in DOMAIN a, j \in DOMAIN b :
    a[i] = b[j] => i = j /\ \A h \in 1..i : a[h] = b[h]
=============================================================================
