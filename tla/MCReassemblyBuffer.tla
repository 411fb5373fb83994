------------------------- MODULE MCReassemblyBuffer -------------------------
(* Two messages of "a" compete for a's single slot, a message of "b" and a *)
(* lone frame of "c" for the other one.                                    *)
EXTENDS ReassemblyBufferSpec

Env(src, id, payload, expiry) ==
  [message_type |-> "DATA", message_id |-> id, source_id |-> src,
   destination_id |-> NODE_ID_INVALID, sequence_num |-> 0,
   reliability_class |-> "BEST_EFFORT", expiry_time_us |-> expiry,
   payload |-> payload, fragment_index |-> 0, fragment_count |-> 0,
   total_payload_length |-> 0]

MCMessage == {Env("a", 1, <<1, 2, 3, 4, 5>>, 0),
              Env("a", 2, <<6, 7, 8, 9>>, 2),
              Env("b", 1, <<3, 2, 1>>, 0)}

\* Frames of a's first message: one announces another size, one has an index that
\* is not below the count, one is too long and one too short by as much; and the
\* first frame of a message of "c" whose second one is lost.
MCStray ==
  LET f == fragment_message(Env("a", 1, <<1, 2, 3, 4, 5>>, 0))
      g == fragment_message(Env("c", 1, <<5, 5, 5>>, 0))
  IN  {[f[2] EXCEPT !.total_payload_length = 6],
       [f[2] EXCEPT !.fragment_index = 3],
       [f[1] EXCEPT !.payload = <<1, 2, 3, 3>>],
       [f[2] EXCEPT !.payload = <<>>],
       g[1]}
=============================================================================
