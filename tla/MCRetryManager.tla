--------------------------- MODULE MCRetryManager ---------------------------
(* Two slots, three messages to two destinations; the second one expires.  *)
EXTENDS RetryManagerSpec

MCMessage ==
  {[message_type |-> "DATA", message_id |-> id, source_id |-> "a",
    destination_id |-> IF id = 2 THEN "c" ELSE "b", sequence_num |-> 0,
    reliability_class |-> "RELIABLE_RETRY",
    expiry_time_us |-> IF id = 2 THEN 3 ELSE 0,
    payload |-> <<>>, fragment_index |-> 0, fragment_count |-> 1,
    total_payload_length |-> 0]
     : id \in MessageId}
=============================================================================
