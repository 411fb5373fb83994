----------------------------- MODULE UdpBackend -----------------------------
(***************************************************************************)
(* The plain UDP transport between two configured addresses.               *)
(*                                                                         *)
(* A backend is a record: whether it holds a socket and is open, its       *)
(* configuration (own address, address of the peer, impairments), its own  *)
(* node id, the node id the peer announced in its HELLO (NoNode: none      *)
(* yet), the receive queue and the impairment engine.  A datagram is the   *)
(* envelope with the addresses it goes from and to; an envelope has a      *)
(* type, the node it names as its source and a message id.                 *)
(*                                                                         *)
(* Operations give their result, the backend and the datagrams handed to   *)
(* the socket; `failing` is the set of calls that fail.                    *)
(***************************************************************************)
EXTENDS ImpairmentEngine

CONSTANTS RingCapacity,   \* MSG_RING_CAPACITY
          Oversized,      \* ids of messages longer than DTLS_MAX_DATAGRAM_BYTES
          NoNode          \* NODE_ID_INVALID

NewBackend ==
  [fd |-> FALSE, open |-> FALSE, cfg |-> NoEntry, local |-> NoNode,
   peer |-> NoNode, queue |-> <<>>, imp |-> NoEntry]

(* The socket is created, made reusable and bound; a call that fails gives it
   back.  The peer's announcement is left as it is: close() clears it. *)
init(b, cfg, failing) ==
  IF ~cfg.valid \/ ~cfg.specific_peer
  THEN [res |-> "ERR_INVALID", b |-> b]
  ELSE IF failing \cap {"create", "reuseaddr", "bind"} # {}
  THEN [res |-> "ERR_IO", b |-> [b EXCEPT !.cfg = cfg, !.fd = FALSE]]
  ELSE [res |-> "OK",
        b   |-> [b EXCEPT !.cfg = cfg, !.fd = TRUE, !.open = TRUE,
                          !.queue = <<>>, !.imp = NewEngine(cfg.impairment)]]

close(b) == [b EXCEPT !.fd = FALSE, !.open = FALSE, !.peer = NoNode]

Hello(node) == [message_type |-> "HELLO", source_id |-> node, message_id |-> 0]

Datagram(b, env) == [env |-> env, from |-> b.cfg.self, to |-> b.cfg.peer]

(* The HELLO goes out once; nothing repeats it when it is lost. *)
send_hello_datagram(b, failing) ==
  IF b.cfg.peer.port = 0
  THEN [res |-> "ERR_INVALID", b |-> b, sent |-> {}]
  ELSE IF 0 \in failing
  THEN [res |-> "ERR_IO", b |-> b, sent |-> {}]
  ELSE [res |-> "OK", b |-> b, sent |-> {Datagram(b, Hello(b.local))}]

register_local_id(b, node, failing) ==
  send_hello_datagram([b EXCEPT !.local = node], failing)

-----------------------------------------------------------------------------
(* Sending.  `failing` is here the set of places in the batch whose send_to()
   fails; 0 stands for a HELLO. *)

IsCurrent(env, m) == m.source_id = env.source_id /\ m.message_id = env.message_id

(* Only a failure of the message being sent counts. *)
send_one_envelope(b, m, current, fails) ==
  [failed |-> fails /\ current, sent |-> IF fails THEN {} ELSE {Datagram(b, m)}]

flush_outbound_batch(b, env, batch, failing) ==
  LET one == [i \in DOMAIN batch |->
                send_one_envelope(b, batch[i], IsCurrent(env, batch[i]), i \in failing)]
  IN  [failed |-> \E i \in DOMAIN batch : one[i].failed,
       sent   |-> UNION {one[i].sent : i \in DOMAIN batch}]

(* A message the engine drops on purpose is reported as sent. *)
send_message(b, env, now, failing) ==
  IF env.message_id \in Oversized
  THEN {[res |-> "ERR_INVALID", b |-> b, sent |-> {}]}
  ELSE
  {IF o.res = "ERR_IO"
   THEN [res |-> "OK", b |-> [b EXCEPT !.imp = o.eng], sent |-> {}]
   ELSE IF o.res # "OK"
   THEN [res |-> o.res, b |-> [b EXCEPT !.imp = o.eng], sent |-> {}]
   ELSE LET c == collect_deliverable(o.eng, now)
            f == flush_outbound_batch(b, env, c.batch, failing)
        IN  [res  |-> IF f.failed THEN "ERR_IO" ELSE "OK",
             b    |-> [b EXCEPT !.imp = c.eng],
             sent |-> f.sent] :
   o \in process_outbound(b.imp, env, now)}

flush_delayed_to_wire(b, now, failing) ==
  LET c == collect_deliverable(b.imp, now) IN
  [b    |-> [b EXCEPT !.imp = c.eng],
   sent |-> UNION {send_one_envelope(b, c.batch[i], FALSE, i \in failing).sent :
                     i \in DOMAIN c.batch}]

-----------------------------------------------------------------------------
(* Receiving *)

validate_source(b, d) == d.from = b.cfg.peer

(* The first HELLO names the peer and is consumed; a later HELLO, a message
   before it and a message of another node are dropped. *)
process_hello_or_validate(b, env) ==
  IF env.message_type = "HELLO"
  THEN [pass |-> FALSE, b |-> IF b.peer = NoNode THEN [b EXCEPT !.peer = env.source_id] ELSE b]
  ELSE [pass |-> b.peer # NoNode /\ env.source_id = b.peer, b |-> b]

apply_inbound(b, env, now) ==
  {[b EXCEPT !.imp = i.eng,
             !.queue = IF i.res = "OK" /\ i.out # <<>> /\ Len(@) < RingCapacity
                       THEN Append(@, i.out[1]) ELSE @] :
     i \in process_inbound(b.imp, env, now)}

(* One datagram read from the socket. *)
recv_one_datagram(b, d, now) ==
  LET v == process_hello_or_validate(b, d.env) IN
  IF ~validate_source(b, d) THEN {b}
  ELSE IF ~v.pass THEN {v.b}
  ELSE apply_inbound(v.b, d.env, now)

Pop(b) == [b EXCEPT !.queue = Tail(@)]

\* Mutant: without a datagram the round ends before it flushes.
receive_message_FlushesOnTraffic(b, arrived, now, failing) ==
  IF b.queue # <<>>
  THEN {[got |-> <<Head(b.queue)>>, b |-> Pop(b), sent |-> {}]}
  ELSE {IF r.queue # <<>>
        THEN [got |-> <<Head(r.queue)>>, b |-> Pop(r), sent |-> {}]
        ELSE LET f == flush_delayed_to_wire(r, now, failing) IN
             [got |-> <<>>, b |-> IF arrived = <<>> THEN r ELSE f.b, sent |-> f.sent] :
        r \in IF arrived = <<>> THEN {b} ELSE recv_one_datagram(b, arrived[1], now)}
(* One round of receive_message(): a message that waits is returned at once;
   otherwise a datagram is read if there is one, and if that gave nothing the
   messages that are due are sent.  A longer timeout is a series of rounds. *)
receive_message(b, arrived, now, failing) ==
  IF b.queue # <<>>
  THEN {[got |-> <<Head(b.queue)>>, b |-> Pop(b), sent |-> {}]}
  ELSE {IF r.queue # <<>>
        THEN [got |-> <<Head(r.queue)>>, b |-> Pop(r), sent |-> {}]
        ELSE LET f == flush_delayed_to_wire(r, now, failing) IN
             [got |-> <<>>, b |-> f.b, sent |-> f.sent] :
        r \in IF arrived = <<>> THEN {b} ELSE recv_one_datagram(b, arrived[1], now)}
===============================================================================
