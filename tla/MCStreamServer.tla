--------------------------- MODULE MCStreamServer ---------------------------
(* Constants of StreamServerSystem for TLC. *)
EXTENDS StreamServerSystem

CONSTANTS c1, c2, c3, n1, n2

(* c2 is the node of c1 again, after a restart or a second time. *)
MCAfter  == (c1 :> {}) @@ (c2 :> {c1}) @@ (c3 :> {})
MCNodeOf == (c1 :> n1) @@ (c2 :> n1) @@ (c3 :> n2)

Plain == [enabled |-> FALSE, loss |-> FALSE, duplication |-> FALSE, latency |-> 0,
          jitter_mean |-> 0, jitter_variance |-> 0, reorder_enabled |-> FALSE, window |-> 0,
          partition_enabled |-> FALSE, partition_gap |-> 0, partition_duration |-> 0]

NoTls == [tls_enabled |-> FALSE]

(* Everything on: a resumed TLS 1.2 session is refused by the client. *)
Tls == [tls_enabled |-> TRUE, verify_peer |-> TRUE, ca_file |-> TRUE, require_crl |-> TRUE,
        crl_file |-> TRUE, peer_hostname |-> TRUE, session_resumption |-> TRUE,
        forward_secrecy |-> TRUE]

(* The courses of a handshake: done in time, and never done. *)
Done(tls12) == [rets |-> <<"want", "done">>, tls12 |-> tls12]
TooLong     == [rets |-> <<"want", "want", "done">>, tls12 |-> FALSE]

(* calls: of the clients, after they connected; sends: messages of the server;
   faults: failed calls, broken frames, closes of the server. *)
Bound(who, hs, c, s, f) ==
  [clients |-> who, handshakes |-> hs, calls |-> c, sends |-> s, faults |-> f]
Bounds(kind) ==
  IF kind = "tcp"
  THEN {Bound(Clients, {}, 3, 0, 0), Bound(Clients, {}, 2, 0, 1), Bound(Clients, {}, 1, 1, 0)}
  ELSE {Bound(Clients, {Done(FALSE)}, 3, 0, 0), Bound(Clients, {Done(TRUE), TooLong}, 1, 1, 1),
        Bound({c1, c3}, {Done(FALSE)}, 4, 0, 0)}

MCSetups ==
  UNION {{[kind |-> k, tls |-> IF k = "tcp" THEN NoTls ELSE Tls, imp |-> Plain, clients |-> b.clients,
           handshakes |-> b.handshakes, calls |-> b.calls, sends |-> b.sends,
           faults |-> b.faults] : b \in Bounds(k)} : k \in {"tcp", "tls"}}
===============================================================================
