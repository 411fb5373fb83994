-------------------------- MODULE MessageEnvelope --------------------------
(***************************************************************************)
(* The envelope every component of messageEngine passes around             *)
(* (src/core/MessageEnvelope.hpp), reduced to the fields that the delivery *)
(* logic reads.  Priority and the send timestamp (latency statistics only) *)
(* are left out; payload_length is the length of the payload.  Time is in  *)
(* ticks of one millisecond, so the code's `ms * 1000' conversions         *)
(* disappear.                                                              *)
(***************************************************************************)
EXTENDS Naturals, Sequences

CONSTANTS
  Node,             \* node identifiers
  MessageId,        \* message identifiers
  NODE_ID_INVALID   \* the reserved node id 0: broadcast, or no node

ASSUME NodeAssumption == NODE_ID_INVALID \notin Node

Type        == {"DATA", "ACK", "NAK", "HEARTBEAT"}
Reliability == {"BEST_EFFORT", "RELIABLE_ACK", "RELIABLE_RETRY"}

Envelope == [message_type         : Type,
             message_id           : MessageId,
             source_id            : Node,
             destination_id       : Node \union {NODE_ID_INVALID},
             sequence_num         : Nat,
             reliability_class    : Reliability,
             expiry_time_us       : Nat,
             payload              : Seq(Nat),
             fragment_index       : Nat,
             fragment_count       : Nat,
             total_payload_length : Nat]

envelope_is_data(env)    == env.message_type = "DATA"
envelope_is_control(env) == env.message_type \in {"ACK", "NAK", "HEARTBEAT"}

envelope_addressed_to(env, node) ==
  env.destination_id \in {node, NODE_ID_INVALID}

envelope_needs_ack_response(env) ==
  env.reliability_class \in {"RELIABLE_ACK", "RELIABLE_RETRY"}

envelope_make_ack(original, my_id) ==
  [message_type         |-> "ACK",
   message_id           |-> original.message_id,
   source_id            |-> my_id,
   destination_id       |-> original.source_id,
   sequence_num         |-> 0,
   reliability_class    |-> "BEST_EFFORT",
   expiry_time_us       |-> 0,
   payload              |-> <<>>,
   fragment_index       |-> 0,
   fragment_count       |-> 0,
   total_payload_length |-> 0]

\* The value 0 means that the message never expires.
timestamp_expired(expiry_us, now_us) == expiry_us # 0 /\ now_us >= expiry_us

\* uint64_t overflow saturates in the code; model clocks stay far below it.
timestamp_deadline_us(now_us, duration) == now_us + duration
=============================================================================
