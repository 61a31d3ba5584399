---------------------------- MODULE GatewayQueue ----------------------------
(***************************************************************************)
(* The queue bridge (src/src/queue_bridge.rs): messages are written to     *)
(* bytes with a header of 24, travel, may be cut short on the way, are     *)
(* read back, and are routed to one of a fixed number of queues.           *)
(*                                                                         *)
(* A payload is named by its length: its bytes are told apart by their     *)
(* position, so a payload of length n is a prefix of one of length m > n.  *)
(***************************************************************************)
EXTENDS Integers

CONSTANTS
  Devices,      \* source_device_id and timestamp_ms
  RoutingKeys,  \* routing_key (u32)
  LengthRange,  \* 2^16 in the code: the range of the payload_len field
  MaxPayload,   \* bound: the longest payload
  QueueCounts,  \* the arguments of GatewayRouter::new
  NoMessage,    \* from_bytes returns None; nothing was sent
  MaxRouted     \* bound: how many messages are routed

ASSUME QueueAssumption ==
  /\ RoutingKeys \subseteq Nat /\ QueueCounts \subseteq Nat
  /\ LengthRange \in Nat \ {0} /\ MaxPayload \in Nat /\ MaxRouted \in Nat

HeaderBytes == 24
Priorities == [Low |-> 0, Normal |-> 1, High |-> 2, Critical |-> 3]

GatewayMessage == [device : Devices, priority : DOMAIN Priorities,
                   routing_key : RoutingKeys, payload : 0..MaxPayload]

(* The bytes by the fields they hold; size is how many there are. *)
ToBytes(m) ==
  [device |-> m.device, code |-> Priorities[m.priority],
   routing_key |-> m.routing_key, length |-> m.payload % LengthRange,
   size |-> HeaderBytes + m.payload]

Decoded(b) ==
  [device |-> b.device,
   priority |-> CHOOSE p \in DOMAIN Priorities : Priorities[p] = b.code,
   routing_key |-> b.routing_key, payload |-> b.length]

(* Mutant of FromBytes: whatever arrived of the payload is taken. *)
FromBytesLenient(b) ==
  IF b.size < HeaderBytes THEN NoMessage
  ELSE IF b.size < HeaderBytes + b.length
  THEN [Decoded(b) EXCEPT !.payload = b.size - HeaderBytes]
  ELSE Decoded(b)

FromBytes(b) ==
  IF b.size < HeaderBytes + b.length \/ \A p \in DOMAIN Priorities : Priorities[p] # b.code
  THEN NoMessage ELSE Decoded(b)

VARIABLES
  sent,           \* the message last written
  wire,           \* its bytes, as far as they arrive
  received,       \* what from_bytes made of them
  messagesRouted, \* GatewayRouter::messages_routed
  bytesRouted,    \* GatewayRouter::bytes_routed
  queueCount,     \* GatewayRouter::queue_count
  routed          \* history: the queue of each routed message

queueVars == <<sent, wire, received, messagesRouted, bytesRouted, queueCount, routed>>

(* GatewayRouter::new has at least one queue. *)
QueueInit ==
  /\ queueCount \in {IF n = 0 THEN 1 ELSE n : n \in QueueCounts}
  /\ sent = NoMessage /\ wire = NoMessage /\ received = NoMessage
  /\ messagesRouted = 0 /\ bytesRouted = 0 /\ routed = {}

Send ==
  /\ received = NoMessage
  /\ \E m \in GatewayMessage : sent' = m /\ wire' = ToBytes(m)
  /\ UNCHANGED <<received, messagesRouted, bytesRouted, queueCount, routed>>

(* One length short of the header stands for all of them. *)
Cut ==
  /\ wire # NoMessage /\ received = NoMessage
  /\ \E size \in (HeaderBytes - 1)..(wire.size - 1) : wire' = [wire EXCEPT !.size = size]
  /\ UNCHANGED <<sent, received, messagesRouted, bytesRouted, queueCount, routed>>

Read ==
  /\ wire # NoMessage /\ received = NoMessage
  /\ received' = FromBytes(wire)
  /\ UNCHANGED <<sent, wire, messagesRouted, bytesRouted, queueCount, routed>>

(* Mutant of QueueOf: round robin. *)
NextQueue(m) == messagesRouted % queueCount

QueueOf(m) == m.routing_key % queueCount

Routed(queue, critical) ==
  /\ received # NoMessage /\ messagesRouted < MaxRouted
  /\ messagesRouted' = messagesRouted + 1
  /\ bytesRouted' = bytesRouted + received.payload
  /\ routed' = routed \cup {[key |-> received.routing_key, queue |-> queue,
                             critical |-> critical]}
  /\ received' = NoMessage /\ sent' = NoMessage /\ wire' = NoMessage
  /\ UNCHANGED queueCount

Route == Routed(QueueOf(received), FALSE)

RouteWithPriority ==
  LET critical == received.priority = "Critical" IN
  Routed(IF critical THEN 0 ELSE QueueOf(received), critical)

QueueNext == Send \/ Cut \/ Read \/ Route \/ RouteWithPriority

QueueSpec == QueueInit /\ [][QueueNext]_queueVars

-----------------------------------------------------------------------------
(* What from_bytes reads is the message that was written: never a header   *)
(* with another message's fields, and never a shorter payload because the  *)
(* bytes were cut.  Only a payload of 2^16 bytes or more loses its end, to *)
(* the width of payload_len (queue_bridge.rs:36).                          *)
DecodedIsSent ==
  received # NoMessage =>
    /\ [received EXCEPT !.payload = 0] = [sent EXCEPT !.payload = 0]
    /\ received.payload <= sent.payload
    /\ sent.payload < LengthRange =>
         received = sent /\ wire.size = HeaderBytes + sent.payload

(* "Consistent hash" (queue_bridge.rs:93): all messages of a routing key   *)
(* go to one queue that exists, through either method, but for critical    *)
(* ones under route_with_priority, which all go to queue 0.                *)
KeyAffinity ==
  \A a, b \in routed :
    /\ a.queue < queueCount /\ (a.critical => a.queue = 0)
    /\ ~a.critical /\ ~b.critical /\ a.key = b.key => a.queue = b.queue
=============================================================================
