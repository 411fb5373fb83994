--------------------------- MODULE DtlsUdpBackend ---------------------------
(***************************************************************************)
(* The DTLS transport: one association between a client and a server, or,  *)
(* with TLS switched off, plain datagrams whose source address is checked. *)
(*                                                                         *)
(* A backend is a record as in UdpBackend, with in addition its stage      *)
(* ("closed", "handshake" while init() is in it, "open"), the ports a      *)
(* server learns in two phases (pending, locked: 0 is none) and, with TLS, *)
(* the session the handshake agreed on and the address the socket is       *)
(* connected to.  An address is a record of ip and port.  The library      *)
(* (mbedTLS) is given by the results of its calls: `failing` is the set of *)
(* calls that fail, and a record can be read only in its own session.      *)
(***************************************************************************)
EXTENDS ImpairmentEngine

CONSTANTS RingCapacity,   \* MSG_RING_CAPACITY
          Oversized,      \* ids of messages longer than DTLS_MAX_DATAGRAM_BYTES
          HandshakeMax,   \* DTLS_HANDSHAKE_MAX_ITER
          NoNode          \* NODE_ID_INVALID

NewBackend ==
  [fd |-> FALSE, stage |-> "closed", cfg |-> NoEntry, local |-> NoNode,
   peer |-> NoNode, pending |-> 0, locked |-> 0, session |-> 0, remote |-> NoEntry,
   queue |-> <<>>, imp |-> NoEntry]

-----------------------------------------------------------------------------
(* The library and file calls a configuration makes; any of them may fail. *)

load_crl_if_configured(tls) == IF tls.crl_file THEN {"crl"} ELSE {}

load_own_cert_and_key == {"cert", "key", "own_cert"}

load_certs_and_key(tls) ==
  load_own_cert_and_key \cup
  (IF tls.verify_peer /\ tls.ca_file THEN {"ca"} \cup load_crl_if_configured(tls) ELSE {})

setup_cookie_if_server(cfg) == IF cfg.is_server THEN {"cookie"} ELSE {}

setup_dtls_config(cfg) ==
  {"crypto", "defaults"} \cup load_certs_and_key(cfg.tls) \cup setup_cookie_if_server(cfg)

validate_dtls_init_config(tls) ==
  IF ~tls.tls_enabled THEN "OK"
  ELSE IF tls.verify_peer /\ ~tls.ca_file THEN "ERR_IO"
  ELSE IF tls.require_crl /\ tls.verify_peer /\ ~tls.crl_file THEN "ERR_INVALID"
  ELSE IF ~tls.verify_peer /\ tls.peer_hostname THEN "ERR_INVALID"
  ELSE "OK"

create_and_bind_udp_socket == {"create", "reuseaddr", "bind"}

(* The calls before the handshake proper; the client refuses to verify a peer
   whose name it was not given. *)
server_wait_and_handshake == {"poll", "peek", "connect", "ssl_setup", "transport_id"}
client_connect_and_handshake == {"pton", "connect", "ssl_setup", "hostname"}

HandshakePrelude(cfg) ==
  IF cfg.is_server THEN server_wait_and_handshake ELSE client_connect_and_handshake

(* The handshake is tried until it is done or fails; a request for another
   cookie or for more data is not a failure, but there are HandshakeMax tries. *)
run_dtls_handshake(rets) ==
  LET final == {i \in DOMAIN rets : i <= HandshakeMax /\ rets[i] \notin {"verify", "want"}}
  IN  IF final # {} /\ rets[Min(final)] = "done" THEN "OK" ELSE "ERR_IO"

-----------------------------------------------------------------------------
Opened(b, session, remote) ==
  [b EXCEPT !.stage = "open", !.session = session, !.remote = remote]

Released(b) == [b EXCEPT !.stage = "closed", !.fd = FALSE]

(* init() up to the handshake, or to the end of it without TLS. *)
init(b, cfg, failing) ==
  LET valid == IF cfg.valid THEN validate_dtls_init_config(cfg.tls) ELSE "ERR_INVALID"
      fresh == [NewBackend EXCEPT !.cfg = cfg, !.local = b.local,
                                  !.imp = NewEngine(cfg.impairment)]
      calls == create_and_bind_udp_socket \cup
               (IF cfg.tls.tls_enabled THEN setup_dtls_config(cfg) ELSE {})
  IN  IF valid # "OK" THEN [res |-> valid, b |-> b]
      ELSE IF cfg.ipv6_peer THEN [res |-> "ERR_INVALID", b |-> [b EXCEPT !.cfg = cfg]]
      ELSE IF failing \cap calls # {} THEN [res |-> "ERR_IO", b |-> Released(fresh)]
      ELSE IF cfg.tls.tls_enabled
      THEN [res |-> "handshake", b |-> [fresh EXCEPT !.fd = TRUE, !.stage = "handshake"]]
      ELSE [res |-> "OK", b |-> Opened([fresh EXCEPT !.fd = TRUE], 0, NoEntry)]

(* The rest of init() with TLS, for the session and the remote address. *)
run_tls_handshake_phase(b, failing, rets, session, remote) ==
  IF ~b.cfg.is_server /\ b.cfg.tls.verify_peer /\ ~b.cfg.tls.peer_hostname
  THEN [res |-> "ERR_INVALID", b |-> Released(b)]
  ELSE IF failing \cap HandshakePrelude(b.cfg) # {} \/ run_dtls_handshake(rets) # "OK"
  THEN [res |-> IF "poll" \in failing THEN "ERR_TIMEOUT" ELSE "ERR_IO", b |-> Released(b)]
  ELSE [res |-> "OK", b |-> Opened(b, session, remote)]

close(b) ==
  [b EXCEPT !.stage = "closed", !.fd = FALSE, !.peer = NoNode,
            !.pending = 0, !.locked = 0, !.session = 0, !.remote = NoEntry]

-----------------------------------------------------------------------------
(* Sending.  `failing` is here the set of places in the batch whose send
   fails; 0 stands for a HELLO. *)

Hello(node) == [message_type |-> "HELLO", source_id |-> node, message_id |-> 0]

(* With TLS the datagram belongs to the session; without, a server answers to
   the port it has locked and until then to the configured one. *)
send_wire_bytes(b, env) ==
  [env |-> env, from |-> b.cfg.self, session |-> b.session,
   to  |-> IF b.cfg.tls.tls_enabled THEN b.remote
           ELSE IF b.cfg.is_server /\ b.locked # 0
           THEN [b.cfg.peer EXCEPT !.port = b.locked]
           ELSE b.cfg.peer]

send_hello_datagram(b, failing) ==
  IF 0 \in failing THEN [res |-> "ERR_IO", b |-> b, sent |-> {}]
  ELSE [res |-> "OK", b |-> b, sent |-> {send_wire_bytes(b, Hello(b.local))}]

(* The client announces itself; the server answers a HELLO with its own. *)
register_local_id(b, node, failing) ==
  LET named == [b EXCEPT !.local = node] IN
  IF b.cfg.is_server THEN [res |-> "OK", b |-> named, sent |-> {}]
  ELSE send_hello_datagram(named, failing)

IsCurrent(env, m) == m.source_id = env.source_id /\ m.message_id = env.message_id

send_one_envelope(b, m, current, fails) ==
  [failed |-> fails /\ current, sent |-> IF fails THEN {} ELSE {send_wire_bytes(b, m)}]

flush_outbound_batch(b, env, batch, failing) ==
  LET one == [i \in DOMAIN batch |->
                send_one_envelope(b, batch[i], IsCurrent(env, batch[i]), i \in failing)]
  IN  [failed |-> \E i \in DOMAIN batch : one[i].failed,
       sent   |-> UNION {one[i].sent : i \in DOMAIN batch}]

(* A message the engine drops on purpose is reported as sent. *)
send_message(b, env, now, failing) ==
  IF env.message_id \in Oversized
  THEN {[res |-> "ERR_INVALID", b |-> b, sent |-> {}]}
  ELSE
  {IF o.res = "ERR_IO"
   THEN [res |-> "OK", b |-> [b EXCEPT !.imp = o.eng], sent |-> {}]
   ELSE IF o.res # "OK"
   THEN [res |-> o.res, b |-> [b EXCEPT !.imp = o.eng], sent |-> {}]
   ELSE LET c == collect_deliverable(o.eng, now)
            f == flush_outbound_batch(b, env, c.batch, failing)
        IN  [res  |-> IF f.failed THEN "ERR_IO" ELSE "OK",
             b    |-> [b EXCEPT !.imp = c.eng],
             sent |-> f.sent] :
   o \in process_outbound(b.imp, env, now)}

flush_delayed_to_wire(b, now, failing) ==
  LET c == collect_deliverable(b.imp, now) IN
  [b    |-> [b EXCEPT !.imp = c.eng],
   sent |-> UNION {send_one_envelope(b, c.batch[i], FALSE, i \in failing).sent :
                     i \in DOMAIN c.batch}]

-----------------------------------------------------------------------------
(* Receiving *)

\* Mutant: the first port seen stays the pending one.
validate_source_FirstPort(b, d) ==
  LET learning == b.cfg.is_server /\ b.locked = 0 IN
  IF b.cfg.tls.tls_enabled THEN [ok |-> TRUE, b |-> b]
  ELSE [ok |-> /\ d.from.ip = b.cfg.peer.ip
               /\ \/ learning
                  \/ d.from.port = (IF b.cfg.is_server THEN b.locked ELSE b.cfg.peer.port),
        b  |-> IF learning /\ b.pending = 0 THEN [b EXCEPT !.pending = d.from.port] ELSE b]
(* A server without TLS takes the port of any datagram as pending until a
   HELLO locks one; the verdict is in `ok`. *)
validate_source(b, d) ==
  LET learning == b.cfg.is_server /\ b.locked = 0 IN
  IF b.cfg.tls.tls_enabled THEN [ok |-> TRUE, b |-> b]
  ELSE [ok |-> /\ d.from.ip = b.cfg.peer.ip
               /\ \/ learning
                  \/ d.from.port = (IF b.cfg.is_server THEN b.locked ELSE b.cfg.peer.port),
        b  |-> IF learning THEN [b EXCEPT !.pending = d.from.port] ELSE b]

commit_pending_src_port(b) ==
  IF b.cfg.is_server /\ b.pending # 0
  THEN [b EXCEPT !.locked = b.pending, !.pending = 0] ELSE b

(* The first HELLO names the peer and locks its port; a server that knows its
   own id answers it.  A later HELLO, a message before it and a message of
   another node are dropped. *)
process_hello_or_validate(b, env, failing) ==
  IF env.message_type # "HELLO"
  THEN [pass |-> b.peer # NoNode /\ env.source_id = b.peer, b |-> b, sent |-> {}]
  ELSE IF b.peer # NoNode
  THEN [pass |-> FALSE, b |-> b, sent |-> {}]
  ELSE LET c == commit_pending_src_port([b EXCEPT !.peer = env.source_id]) IN
       [pass |-> FALSE, b |-> c,
        sent |-> IF c.cfg.is_server /\ c.local # NoNode
                 THEN send_hello_datagram(c, failing).sent ELSE {}]

apply_inbound_impairment(b, env, now) ==
  {[b EXCEPT !.imp = i.eng,
             !.queue = IF i.res = "OK" /\ i.out # <<>> /\ Len(@) < RingCapacity
                       THEN Append(@, i.out[1]) ELSE @] :
     i \in process_inbound(b.imp, env, now)}

deserialize_and_dispatch(b, env, now, failing) ==
  LET v == process_hello_or_validate(b, env, failing) IN
  IF ~v.pass THEN {[b |-> v.b, sent |-> v.sent]}
  ELSE {[b |-> x, sent |-> {}] : x \in apply_inbound_impairment(v.b, env, now)}

(* The library reads a record only in the session it was written in. *)
try_tls_recv(b, d) == b.cfg.tls.tls_enabled => d.session = b.session

recv_one_dtls_datagram(b, d, now, failing) ==
  LET v == validate_source(b, d) IN
  IF ~try_tls_recv(b, d) \/ ~v.ok THEN {[b |-> v.b, sent |-> {}]}
  ELSE deserialize_and_dispatch(v.b, d.env, now, failing)

Pop(b) == [b EXCEPT !.queue = Tail(@)]

(* One round of receive_message(), as in UdpBackend. *)
receive_message(b, arrived, now, failing) ==
  IF b.queue # <<>>
  THEN {[got |-> <<Head(b.queue)>>, b |-> Pop(b), sent |-> {}]}
  ELSE {IF r.b.queue # <<>>
        THEN [got |-> <<Head(r.b.queue)>>, b |-> Pop(r.b), sent |-> r.sent]
        ELSE LET f == flush_delayed_to_wire(r.b, now, failing) IN
             [got |-> <<>>, b |-> f.b, sent |-> r.sent \cup f.sent] :
        r \in IF arrived = <<>> THEN {[b |-> b, sent |-> {}]}
              ELSE recv_one_dtls_datagram(b, arrived[1], now, failing)}
===============================================================================
