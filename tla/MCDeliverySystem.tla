-------------------------- MODULE MCDeliverySystem --------------------------
(* A server "s" and a client "c".                                          *)
EXTENDS DeliverySystem

Msg(id, src, dst, class, expiry) ==
  [message_type |-> "DATA", message_id |-> id, source_id |-> src,
   destination_id |-> dst, sequence_num |-> 0, reliability_class |-> class,
   expiry_time_us |-> expiry, payload |-> <<>>, fragment_index |-> 0,
   fragment_count |-> 1, total_payload_length |-> 0]

\* A message of two frames.
LongMsg(id, src, dst, class) ==
  [Msg(id, src, dst, class, 0) EXCEPT !.payload = <<7, 8>>]

SingleWorkload == {LongMsg(1, "c", "s", "RELIABLE_RETRY")}

\* Both directions; the second message is short or has two frames.
EchoWorkload == {Msg(1, "c", "s", "RELIABLE_RETRY", 0),
                 Msg(2, "c", "s", "BEST_EFFORT", 0),
                 LongMsg(2, "c", "s", "BEST_EFFORT"),
                 Msg(4, "s", "c", "RELIABLE_RETRY", 0)}

\* Two reliability classes on one channel; more reliable messages than slots.
MixedWorkload == EchoWorkload \union {Msg(3, "c", "s", "RELIABLE_RETRY", 0)}

\* Three short messages of the client over a network that refuses or copies; two
\* of them if a tick follows the copy.
NetworkFault == /\ restarts = 0
                /\ 4 \notin Used
                /\ \A m \in sent : m.payload = <<>>
                /\ refused + duplicated <= 1
                /\ clock > 1 /\ duplicated > 0 => Cardinality(Used) < 3

\* The client restarts while messages are in flight both ways.
ClientRestart == /\ 3 \notin Used
                 /\ \A m \in sent : m.message_id = 2 => m.payload # <<>>
                 /\ refused = 0 /\ duplicated = 0
                 /\ clock = 1

\* The states worth exploring: one trouble at a time.
OneTrouble == NetworkFault \/ ClientRestart
=============================================================================
