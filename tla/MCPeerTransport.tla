--------------------------- MODULE MCPeerTransport ---------------------------
(* Constants of PeerTransportSystem for TLC. *)
EXTENDS PeerTransportSystem

Plain == [enabled |-> FALSE, loss |-> FALSE, duplication |-> FALSE, latency |-> 0,
          jitter_mean |-> 0, jitter_variance |-> 0, reorder_enabled |-> FALSE, window |-> 0,
          partition_enabled |-> FALSE, partition_gap |-> 0, partition_duration |-> 0]

(* Delays, with copies or without; a window of one message; partitions, with
   losses and jitter or without. *)
Late     == [Plain EXCEPT !.enabled = TRUE, !.latency = 1]
Copies   == [Late EXCEPT !.duplication = TRUE]
Reorders == [Plain EXCEPT !.reorder_enabled = TRUE, !.window = 1]
Parted   == [Plain EXCEPT !.enabled = TRUE, !.partition_enabled = TRUE,
                          !.partition_gap = 1, !.partition_duration = 1]
Broken   == [Parted EXCEPT !.loss = TRUE, !.jitter_mean = 1, !.jitter_variance = 1]

NoTls == [tls_enabled |-> FALSE, verify_peer |-> FALSE, ca_file |-> FALSE,
          require_crl |-> FALSE, crl_file |-> FALSE, peer_hostname |-> FALSE]
Tls   == [tls_enabled |-> TRUE, verify_peer |-> TRUE, ca_file |-> TRUE,
          require_crl |-> TRUE, crl_file |-> TRUE, peer_hostname |-> TRUE]
(* The client refuses this one in the handshake. *)
Nameless == [Tls EXCEPT !.peer_hostname = FALSE]

MCSetups ==
  {[kind |-> "local", tls |-> NoTls, imp |-> i] : i \in {Late, Copies, Reorders, Broken}}
  \cup {[kind |-> "udp", tls |-> NoTls, imp |-> i] : i \in {Late, Reorders, Parted}}
  \cup {[kind |-> "dtls", tls |-> NoTls, imp |-> i] : i \in {Plain, Late}}
  \cup {[kind |-> "dtls", tls |-> Tls, imp |-> Late],
         [kind |-> "dtls", tls |-> Nameless, imp |-> Plain]}

(* Datagrams of another node, from another port of the client's host and from
   another host, and one that names the client as its source. *)
MCStrays ==
  {[env |-> D!Hello("other"), from |-> Address("client", 2), to |-> Address("server", 3), session |-> 0],
   [env |-> D!Hello("other"), from |-> Address("elsewhere", 1), to |-> Address("server", 3), session |-> 0],
   [env |-> Data("client", 9), from |-> Address("client", 2), to |-> Address("server", 3), session |-> 0]}

MCRets == {<<"verify", "done">>, <<"want", "want", "done">>, <<"want", "error">>}
===============================================================================
