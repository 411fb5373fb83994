---------------------------- MODULE TlsTcpBackend ----------------------------
(***************************************************************************)
(* The TLS transport over TCP: as TcpBackend, with a handshake at the      *)
(* start of every connection and a table whose slots stay where they are:  *)
(* `slots` is a function from 1 .. MaxConnections, an inactive slot is     *)
(* NoEntry and the lowest of them is taken next.                           *)
(*                                                                         *)
(* The library (mbedTLS) is given by the results of its calls.  `failing`  *)
(* is the set of the calls, or of the connections, that fail; `store` is   *)
(* the client's TlsSessionStore: whether it holds a session.               *)
(***************************************************************************)
EXTENDS ImpairmentEngine

CONSTANTS MaxConnections,  \* MAX_TCP_CONNECTIONS
          RingCapacity,    \* MSG_RING_CAPACITY
          HelloTimeout,    \* recv_timeout_ms of the first channel
          HandshakeMax,    \* 32 calls of ssl_handshake()
          NoNode           \* NODE_ID_INVALID

Places == 1 .. MaxConnections

NewBackend ==
  [open |-> FALSE, listen |-> FALSE, cfg |-> NoEntry, local |-> NoNode,
   slots |-> [i \in Places |-> NoEntry], hellos |-> <<>>, queue |-> <<>>, imp |-> NoEntry]

NewSlot(c) == [conn |-> c, node |-> NoNode, hello |-> FALSE, age |-> 0]

Active(b)   == {i \in Places : b.slots[i] # NoEntry}
Conns(b)    == {b.slots[i].conn : i \in Active(b)}

-----------------------------------------------------------------------------
(* The library and file calls a configuration makes; any of them may fail. *)

load_crl_if_configured(tls) == IF tls.crl_file THEN {"crl"} ELSE {}

load_ca_and_crl(tls) == {"ca"} \cup load_crl_if_configured(tls)

load_tls_certs(tls) ==
  {"cert", "key", "own_cert"} \cup
  (IF tls.verify_peer /\ tls.ca_file THEN load_ca_and_crl(tls) ELSE {})

setup_session_tickets == {"ticket_setup"}

maybe_setup_session_tickets(tls) ==
  IF tls.session_resumption THEN setup_session_tickets ELSE {}

setup_tls_config(tls) ==
  {"crypto", "defaults"} \cup load_tls_certs(tls) \cup maybe_setup_session_tickets(tls)

validate_tls_init_config(cfg) ==
  LET tls == cfg.tls IN
  IF ~tls.tls_enabled THEN "OK"
  ELSE IF tls.verify_peer /\ ~tls.ca_file THEN "ERR_IO"
  ELSE IF \/ tls.require_crl /\ tls.verify_peer /\ ~tls.crl_file
          \/ ~tls.verify_peer /\ tls.peer_hostname
          \/ ~cfg.is_server /\ tls.verify_peer /\ ~tls.peer_hostname
  THEN "ERR_INVALID" ELSE "OK"

bind_and_listen == {"bind", "nonblocking"}

-----------------------------------------------------------------------------
(* The handshakes.  `rets` are the results of ssl_handshake(). *)

run_tls_handshake_loop(rets) ==
  LET final == {i \in DOMAIN rets : i <= HandshakeMax /\ rets[i] # "want"} IN
  final # {} /\ rets[Min(final)] = "done"

(* TlsSessionStore: a save clears the store first, so a save that fails leaves
   it empty. *)
zeroize         == FALSE
try_save(fails) == IF fails THEN zeroize ELSE TRUE

has_resumable_session(tls, store) == tls.session_resumption /\ store

(* A resumed TLS 1.2 session is refused if forward secrecy is required. *)
check_forward_secrecy(tls, tls12, had_session) ==
  ~(tls.forward_secrecy /\ had_session /\ tls12)

enforce_forward_secrecy_if_required(tls, tls12, had_session, store) ==
  [ok    |-> check_forward_secrecy(tls, tls12, had_session),
   store |-> IF check_forward_secrecy(tls, tls12, had_session) THEN store ELSE zeroize]

try_save_client_session(tls, store, failing) ==
  IF tls.session_resumption THEN try_save("get_session" \in failing) ELSE store

(* A handshake that fails leaves the store as it is, with the session that may
   be the reason.  When the loop's attempts run out, the client stops at the
   assertion of log_stale_ticket_warning(); the others see the same: its end of
   the connection is gone. *)
tls_connect_handshake(tls, store, failing, hs) ==
  LET had == has_resumable_session(tls, store)
      fs  == enforce_forward_secrecy_if_required(tls, hs.tls12, had, store)
  IN  IF failing \cap {"set_block", "ssl_setup", "hostname"} # {}
         \/ ~run_tls_handshake_loop(hs.rets)
      THEN [ok |-> FALSE, store |-> store]
      ELSE IF ~fs.ok THEN fs
      ELSE [ok |-> TRUE, store |-> try_save_client_session(tls, store, failing)]

connect_to_server(cfg, store, failing, hs) ==
  IF "connect" \in failing THEN [ok |-> FALSE, store |-> store]
  ELSE IF cfg.tls.tls_enabled THEN tls_connect_handshake(cfg.tls, store, failing, hs)
  ELSE [ok |-> TRUE, store |-> store]

(* `c` is the client's connection. *)
init(b, cfg, c, store, failing, hs) ==
  LET valid == validate_tls_init_config(cfg)
      fresh == [b EXCEPT !.cfg = cfg, !.local = NoNode, !.queue = <<>>,
                         !.slots = [i \in Places |-> NoEntry],
                         !.imp = NewEngine(cfg.impairment)]
      conn  == connect_to_server(cfg, store, failing, hs)
  IN  IF valid # "OK" THEN [res |-> valid, b |-> b, store |-> store]
      ELSE IF cfg.tls.tls_enabled /\ failing \cap setup_tls_config(cfg.tls) # {}
      THEN [res |-> "ERR_IO", b |-> fresh, store |-> store]
      ELSE IF cfg.is_server
      THEN IF failing \cap bind_and_listen # {}
           THEN [res |-> "ERR_IO", b |-> fresh, store |-> store]
           ELSE [res |-> "OK", b |-> [fresh EXCEPT !.open = TRUE, !.listen = TRUE],
                 store |-> store]
      ELSE IF ~conn.ok THEN [res |-> "ERR_IO", b |-> fresh, store |-> conn.store]
      ELSE [res |-> "OK", store |-> conn.store,
            b |-> [fresh EXCEPT !.open = TRUE, !.slots[1] = NewSlot(c)]]

(* Only an open backend is closed; the session store keeps what it has. *)
close(b) ==
  IF ~b.open THEN b
  ELSE [b EXCEPT !.open = FALSE, !.listen = FALSE, !.slots = [i \in Places |-> NoEntry]]

do_tls_server_handshake(failing, hs) ==
  failing \cap {"set_block", "ssl_setup"} = {} /\ run_tls_handshake_loop(hs.rets)

-----------------------------------------------------------------------------
(* The table *)

(* The connection taken from the backlog gets the lowest inactive slot, or is
   closed again if its handshake fails. *)
accept_and_handshake(b, c, failing, hs) ==
  IF b.cfg.tls.tls_enabled /\ ~do_tls_server_handshake(failing, hs) THEN b
  ELSE [b EXCEPT !.slots[Min(Places \ Active(b))] = NewSlot(c)]

remove_client(b, i) == [b EXCEPT !.slots[i] = NoEntry]

sweep_hello_timeouts(b) ==
  [b EXCEPT !.slots = [i \in Places |->
     IF i \in Active(b) /\ ~@[i].hello /\ @[i].age > HelloTimeout THEN NoEntry ELSE @[i]]]

find_client_slot(b, node) ==
  LET found == {i \in Active(b) : b.slots[i].node = node} IN
  IF found = {} THEN {} ELSE {Min(found)}

\* Mutant: the connection that holds the node id is evicted.
handle_hello_frame_EvictsOld(b, i, node) ==
  LET held == {j \in Active(b) \ {i} : b.slots[j].node = node}
      x    == IF held = {} THEN b ELSE remove_client(b, Min(held))
  IN  [x EXCEPT !.slots[i].node = node,
                !.hellos = IF Len(@) < MaxConnections - 1 THEN Append(@, node) ELSE @]
handle_hello_frame(b, i, node) ==
  IF \E j \in Active(b) \ {i} : b.slots[j].node = node
  THEN remove_client(b, i)
  ELSE [b EXCEPT !.slots[i].node = node,
                 !.hellos = IF Len(@) < MaxConnections - 1 THEN Append(@, node) ELSE @]

pop_hello_peer(b) == [b EXCEPT !.hellos = <<>>]

validate_source_id(b, i, node) == b.slots[i].node \in {NoNode, node}

-----------------------------------------------------------------------------
(* Receiving *)

apply_inbound_impairment(b, env, now) ==
  LET gate == is_partition_active(b.imp, now) IN
  IF gate.active THEN {[b EXCEPT !.imp = gate.eng]}
  ELSE {[b EXCEPT !.imp = i.eng,
                  !.queue = IF i.res = "OK" /\ i.out # <<>> /\ Len(@) < RingCapacity
                            THEN Append(@, i.out[1]) ELSE @] :
          i \in process_inbound(gate.eng, env, now)}

(* Whether the frame goes on to the checks of a message, and the backend. *)
classify_inbound_frame(b, i, env) ==
  IF env.message_type = "HELLO"
  THEN [pass |-> FALSE,
        b    |-> IF ~b.cfg.is_server THEN b
                 ELSE IF b.slots[i].hello THEN remove_client(b, i)
                 ELSE handle_hello_frame([b EXCEPT !.slots[i].hello = TRUE], i, env.source_id)]
  ELSE [pass |-> ~b.cfg.is_server \/ b.slots[i].hello, b |-> b]

(* A frame is a header and a payload; <<>> if one of them cannot be read in
   time or the length is out of range, and of type JUNK if what is read is no
   envelope. *)
recv_from_client(b, i, frame, now) ==
  IF frame = <<>> THEN {remove_client(b, i)}
  ELSE IF frame[1].message_type = "JUNK" THEN {b}
  ELSE LET x == classify_inbound_frame(b, i, frame[1]) IN
       IF ~x.pass \/ ~validate_source_id(b, i, frame[1].source_id) THEN {x.b}
       ELSE apply_inbound_impairment(
              IF b.cfg.is_server \/ b.slots[1].node # NoNode THEN b
              ELSE [b EXCEPT !.slots[1].node = frame[1].source_id], frame[1], now)

(* poll() answers by slot: slot_of leads from an answer to its slot. *)
build_poll_fds(b, readable) ==
  [i \in Places |-> i \in Active(b) /\ b.slots[i].conn \in readable]

(* poll_clients_once() up to the reading; one connection at most is accepted,
   and polled in the same round. *)
poll_clients_once(b, readable, waiting, failing, hs) ==
  LET s == IF b.cfg.is_server THEN sweep_hello_timeouts(b) ELSE b
      x == IF b.cfg.is_server /\ waiting # <<>> /\ Cardinality(Active(s)) < MaxConnections
           THEN accept_and_handshake(s, waiting[1], failing, hs) ELSE s
  IN  [b |-> x, ready |-> build_poll_fds(x, readable)]

(* The slot to read next, the last one first, or none. *)
NextReadable(ready, at) ==
  LET next == {i \in DOMAIN ready : i < at /\ ready[i]} IN
  IF next = {} THEN {} ELSE {Max(next)}

-----------------------------------------------------------------------------
(* Sending *)

Hello(node) ==
  [message_type |-> "HELLO", source_id |-> node, destination_id |-> NoNode, message_id |-> 0]

(* A frame is written as a header and a payload, on a slot that is active. *)
tls_send_frame(b, i, env, failing) ==
  IF i \notin Active(b) \/ b.slots[i].conn \in failing THEN <<>>
  ELSE <<[conn |-> b.slots[i].conn, env |-> env]>>

send_hello_frame(b, failing) ==
  LET out == tls_send_frame(b, 1, Hello(b.local), failing) IN
  [res |-> IF out = <<>> THEN "ERR_IO" ELSE "OK", b |-> b, sent |-> out]

register_local_id(b, node, failing) ==
  LET named == [b EXCEPT !.local = node] IN
  IF b.cfg.is_server THEN [res |-> "OK", b |-> named, sent |-> <<>>]
  ELSE send_hello_frame(named, failing)

send_to_all_clients(b, env, failing) ==
  LET out == FlattenSeq([i \in Places |-> tls_send_frame(b, i, env, failing)]) IN
  [res |-> IF Len(out) < Cardinality(Active(b)) THEN "ERR_IO" ELSE "OK", sent |-> out]

send_to_slot(b, i, env, failing) ==
  LET out == tls_send_frame(b, i, env, failing) IN
  [res |-> IF out = <<>> THEN "ERR_IO" ELSE "OK", sent |-> out]

unicast_serialized(b, env, failing) ==
  LET slot == find_client_slot(b, env.destination_id) IN
  IF slot = {} THEN [res |-> "ERR_INVALID", sent |-> <<>>]
  ELSE send_to_slot(b, Min(slot), env, failing)

route_one_delayed(b, env, current, failing) ==
  LET out == IF ~b.cfg.is_server \/ env.destination_id = NoNode
             THEN send_to_all_clients(b, env, failing)
             ELSE unicast_serialized(b, env, failing)
  IN  [res |-> IF current THEN out.res ELSE "OK", sent |-> out.sent]

IsCurrent(env, m) == m.source_id = env.source_id /\ m.message_id = env.message_id

flush_delayed_to_clients(b, env, now, failing) ==
  LET c   == collect_deliverable(b.imp, now)
      one == [i \in DOMAIN c.batch |->
                route_one_delayed(b, c.batch[i], IsCurrent(env, c.batch[i]), failing)]
      bad == {i \in DOMAIN c.batch : one[i].res # "OK"}
  IN  [res  |-> IF bad = {} THEN "OK" ELSE one[Max(bad)].res,
       b    |-> [b EXCEPT !.imp = c.eng],
       sent |-> FlattenSeq([i \in DOMAIN c.batch |-> one[i].sent])]

send_message(b, env, now, failing) ==
  {LET x == [b EXCEPT !.imp = o.eng] IN
   IF o.res # "OK" THEN [res |-> IF o.res = "ERR_IO" THEN "OK" ELSE o.res, b |-> x, sent |-> <<>>]
   ELSE IF Active(b) = {} THEN [res |-> "OK", b |-> x, sent |-> <<>>]
   ELSE flush_delayed_to_clients(x, env, now, failing) :
   o \in process_outbound(b.imp, env, now)}

Pop(b) == [b EXCEPT !.queue = Tail(@)]

(* The end of a round of receive_message(), as in TcpBackend. *)
receive_message(b, now, failing) ==
  IF b.queue # <<>> THEN [got |-> <<Head(b.queue)>>, b |-> Pop(b), sent |-> <<>>]
  ELSE LET f == flush_delayed_to_clients(b, Hello(NoNode), now, failing) IN
       [got |-> <<>>, b |-> f.b, sent |-> f.sent]
===============================================================================
