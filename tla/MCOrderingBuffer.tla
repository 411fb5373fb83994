-------------------------- MODULE MCOrderingBuffer --------------------------
(* Messages of the sources by number and session, with an unordered one    *)
(* and a control message of each source.                                   *)
EXTENDS OrderingBufferSpec

CONSTANTS
  MaxSeq,    \* the highest sequence number a source uses
  Expiring   \* the sequence numbers whose messages expire at time 2

MCMessageId == 1 .. MaxSession

Envel(type, n, id, s) ==
  [message_type |-> type, message_id |-> id, source_id |-> n,
   destination_id |-> NODE_ID_INVALID, sequence_num |-> s,
   reliability_class |-> "BEST_EFFORT",
   expiry_time_us |-> IF s \in Expiring THEN 2 ELSE 0,
   payload |-> <<>>, fragment_index |-> 0, fragment_count |-> 1,
   total_payload_length |-> 0]

(* Source a in full; b without a second session; c and d, for which there is
   a peer slot too few, with their first message. *)
Sends(n, id, s) ==
  \/ n = "a"
  \/ n = "b" /\ id = 1 /\ s <= 2
  \/ n \in {"c", "d"} /\ id = 1 /\ s = 1

MCMessage ==
  {m \in {Envel("DATA", n, id, s) : n \in Node, id \in MessageId, s \in 0 .. MaxSeq} :
     Sends(m.source_id, m.message_id, m.sequence_num)}
    \union {Envel("ACK", n, 1, 0) : n \in Node}
=============================================================================
