---------------------------- MODULE MCAckTracker ----------------------------
(* Two slots, three messages to two destinations: the table fills up, and  *)
(* cancel_peer() meets messages that are not the peer's.                   *)
EXTENDS AckTrackerSpec

MCMessage ==
  {[message_type |-> "DATA", message_id |-> id, source_id |-> "a",
    destination_id |-> IF id = 2 THEN "c" ELSE "b", sequence_num |-> 0,
    reliability_class |-> "RELIABLE_ACK", expiry_time_us |-> 0,
    payload |-> <<>>, fragment_index |-> 0, fragment_count |-> 1,
    total_payload_length |-> 0]
     : id \in MessageId}
=============================================================================
