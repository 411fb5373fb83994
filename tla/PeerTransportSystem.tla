------------------------- MODULE PeerTransportSystem -------------------------
(***************************************************************************)
(* Two ends of a transport without connections: LocalSimHarness,           *)
(* UdpBackend or DtlsUdpBackend, with the impairment engine of each end    *)
(* and the network between them.  The transport and its configuration are  *)
(* chosen at the start.                                                    *)
(*                                                                         *)
(* The network loses, delays, reorders and duplicates datagrams and brings *)
(* datagrams of others; ends fail to open, close and open again, a client  *)
(* possibly from another port.  One round of receive_message() is one      *)
(* step: it blocks for one datagram at most.                               *)
(***************************************************************************)
EXTENDS ImpairmentEngine, TLC

CONSTANTS RingCapacity, Oversized, HandshakeMax, NoNode,
          Setups,         \* [kind, tls, imp]: transport, TLS settings, impairments
          Strays,         \* datagrams of others
          Rets,           \* sequences of results of the library's handshake
          MaxTime,        \* bound: the clock
          MaxSends,       \* bound: messages, of both ends together
          MaxOpens,       \* bound: calls of init()
          MaxFaults,      \* bound: lost, copied, stray datagrams, failed calls, close()
          MaxInjected     \* bound: the same with the messages of tests, LocalSimHarness only

L == INSTANCE LocalSimHarness
U == INSTANCE UdpBackend
D == INSTANCE DtlsUdpBackend

VARIABLES setup,    \* the element of Setups this behaviour is about
          ends,     \* per end: the harness or backend
          net,      \* datagrams under way
          now,      \* the clock
          sends,    \* per end: messages sent
          opens,    \* calls of init()
          faults,   \* faults of the environment
          named,    \* ends that have called register_local_id() since they opened
          hello,    \* per end: node and address of the HELLO that named its peer
          took,     \* per end: nodes and addresses of the messages let in since
          owed      \* messages the transport has to keep until they are received

vars == <<setup, ends, net, now, sends, opens, faults, named, hello, took, owed>>

Ends     == {"client", "server"}
Other(e) == IF e = "client" THEN "server" ELSE "client"
Kind     == setup.kind

ClientPorts == IF Kind = "dtls" THEN {1, 2} ELSE {1}
Address(e, port) == [ip |-> e, port |-> port]

Config(e, port) ==
  [self          |-> Address(e, port),
   peer          |-> Address(Other(e), IF e = "client" THEN 3 ELSE 1),
   is_server     |-> e = "server",
   tls           |-> setup.tls,
   valid         |-> TRUE,
   specific_peer |-> TRUE,
   ipv6_peer     |-> FALSE,
   impairment    |-> setup.imp]

Data(e, k) == [message_type |-> "DATA", source_id |-> e, message_id |-> k]

IsOpen(e) == IF Kind = "dtls" THEN ends[e].stage = "open" ELSE ends[e].open

(* Places of a batch whose send_to() fails: none, the first or all. *)
FailingSends == {{}} \cup (IF faults < MaxFaults THEN {{1}, 0 .. DelaySlots} ELSE {})

Init ==
  /\ setup \in Setups
  /\ ends = [e \in Ends |-> CASE Kind = "local" -> L!NewHarness
                              [] Kind = "udp"   -> U!NewBackend
                              [] Kind = "dtls"  -> D!NewBackend]
  /\ net = {} /\ now = 1 /\ opens = 0 /\ faults = 0
  /\ sends = [e \in Ends |-> 0]
  /\ hello = [e \in Ends |-> NoEntry]
  /\ took = [e \in Ends |-> {}]
  /\ named = {} /\ owed = {}

-----------------------------------------------------------------------------
(* Opening and closing *)

(* A new session of an end. *)
Reset(e) ==
  /\ opens' = opens + 1
  /\ hello' = [hello EXCEPT ![e] = NoEntry]
  /\ took' = [took EXCEPT ![e] = {}]
  /\ UNCHANGED <<setup, net, now, sends, named, owed>>

LocalOpen(e) ==
  /\ Kind = "local" /\ ~IsOpen(e) /\ opens < MaxOpens
  /\ ends' = [ends EXCEPT ![e] = L!link(L!init(@, setup.imp))]
  /\ Reset(e)
  /\ UNCHANGED faults

(* init() of the other two; with TLS it goes on with the handshake. *)
Open(e, port, failing) ==
  /\ Kind # "local" /\ ~IsOpen(e) /\ opens < MaxOpens
  /\ e = "server" \/ port \in ClientPorts
  /\ Kind = "dtls" => ends[e].stage = "closed"
  /\ failing # {} => faults < MaxFaults
  /\ faults' = faults + Cardinality(failing)
  /\ LET cfg == Config(e, IF e = "server" THEN 3 ELSE port) IN
     ends' = [ends EXCEPT ![e] = IF Kind = "udp" THEN U!init(@, cfg, failing).b
                                 ELSE D!init(@, cfg, failing).b]
  /\ Reset(e)

InHandshake(e) == Kind = "dtls" /\ ends[e].stage = "handshake"

(* Both ends are in the handshake: each of them may come to its end or fail;
   the session is numbered by the calls of init() so far. *)
Handshake(rets) ==
  /\ \A e \in Ends : InHandshake(e)
  /\ ends' = [e \in Ends |-> D!run_tls_handshake_phase(ends[e], {}, rets[e], opens,
                                                       ends[Other(e)].cfg.self).b]
  /\ UNCHANGED <<setup, net, now, sends, opens, faults, named, hello, took, owed>>

(* An end alone: the server's poll() or a call of the client fails. *)
HandshakeFails(e) ==
  /\ InHandshake(e)
  /\ ends' = [ends EXCEPT ![e] = D!run_tls_handshake_phase(@, {"poll", "connect"}, <<>>, opens, NoEntry).b]
  /\ UNCHANGED <<setup, net, now, sends, opens, faults, named, hello, took, owed>>

(* close() gives up what is under way. *)
Close(e) ==
  /\ IsOpen(e) /\ faults < MaxFaults /\ faults' = faults + 1
  /\ ends' = [ends EXCEPT ![e] = CASE Kind = "local" -> L!close(@)
                                   [] Kind = "udp"   -> U!close(@)
                                   [] Kind = "dtls"  -> D!close(@)]
  /\ owed' = {} /\ named' = named \ {e}
  /\ hello' = [hello EXCEPT ![e] = NoEntry]
  /\ took' = [took EXCEPT ![e] = {}]
  /\ UNCHANGED <<setup, net, now, sends, opens>>

Register(e, failing) ==
  /\ Kind # "local" /\ IsOpen(e) /\ e \notin named
  /\ named' = named \cup {e}
  /\ failing # {} => faults < MaxFaults
  /\ faults' = faults + Cardinality(failing)
  /\ \E r \in {IF Kind = "udp" THEN U!register_local_id(ends[e], e, failing)
               ELSE D!register_local_id(ends[e], e, failing)} :
       /\ ends' = [ends EXCEPT ![e] = r.b]
       /\ net' = net \cup r.sent
  /\ UNCHANGED <<setup, now, sends, opens, hello, took, owed>>

-----------------------------------------------------------------------------
(* Messages *)

(* The receiver knows the sender by the node and address it has now. *)
Settled(e) ==
  /\ \A x \in Ends : IsOpen(x)
  /\ Kind # "local" =>
       /\ hello[Other(e)] = [node |-> e, from |-> ends[e].cfg.self]
       /\ setup.tls.tls_enabled => ends["client"].session = ends["server"].session

Lossless == ~setup.imp.loss /\ ~setup.imp.partition_enabled

Owing(e, env, res) ==
  IF res = "OK" /\ Settled(e) /\ Lossless THEN owed \cup {env} ELSE owed

(* Sends stop early enough for every release time to come. *)
CanSend(e) ==
  /\ IsOpen(e) /\ sends["client"] + sends["server"] < MaxSends
  /\ now + setup.imp.latency + DupDelay <= MaxTime
  /\ sends' = [sends EXCEPT ![e] = @ + 1]

DelayedIn(imp) == {imp.delay[i].env : i \in ActiveSlots(imp)}
Delayed(e)     == DelayedIn(ends[e].imp)

(* Messages that left the delay buffer of end e, or the reordering window of its
   peer, in the send with outcome o and met a full queue. *)
Spilled(e, o) ==
  {m \in Delayed(e) \cup Range(ends[Other(e)].imp.reorder) :
     /\ Len(o.peer.queue) = RingCapacity
     /\ m \notin DelayedIn(o.h.imp) \cup Range(o.peer.imp.reorder) \cup Range(o.peer.queue)}

LocalSend(e) ==
  /\ Kind = "local" /\ \A x \in Ends : IsOpen(x)
  /\ CanSend(e)
  /\ \E o \in L!send_message(ends[e], ends[Other(e)], Data(e, sends[e] + 1), now) :
       /\ ends' = [ends EXCEPT ![e] = o.h, ![Other(e)] = o.peer]
       /\ owed' = Owing(e, Data(e, sends[e] + 1), o.res) \ Spilled(e, o)
  /\ UNCHANGED <<setup, net, now, opens, faults, named, hello, took>>

(* A test puts a message straight into a queue. *)
LocalInject(e, type) ==
  /\ Kind = "local" /\ IsOpen(e) /\ faults < MaxInjected
  /\ faults' = faults + 1
  /\ ends' = [ends EXCEPT ![e] = L!inject(@, [Data(Other(e), 0) EXCEPT !.message_type = type]).h]
  /\ UNCHANGED <<setup, net, now, sends, opens, named, hello, took, owed>>

LocalReceive(e) ==
  /\ Kind = "local" /\ IsOpen(e) /\ ends[e].queue # <<>>
  /\ \E r \in {L!receive_message(ends[e])} :
       /\ ends' = [ends EXCEPT ![e] = r.h]
       /\ owed' = owed \ {r.env}
  /\ UNCHANGED <<setup, net, now, sends, opens, faults, named, hello, took>>

Send(e, failing) ==
  /\ Kind # "local" /\ CanSend(e) /\ e \in named
  /\ faults' = faults + MinOf(Cardinality(failing), 1)
  /\ \E o \in IF Kind = "udp" THEN U!send_message(ends[e], Data(e, sends[e] + 1), now, failing)
              ELSE D!send_message(ends[e], Data(e, sends[e] + 1), now, failing) :
       /\ ends' = [ends EXCEPT ![e] = o.b]
       /\ net' = net \cup o.sent
       /\ owed' = Owing(e, Data(e, sends[e] + 1), o.res) \ (IF failing = {} THEN {} ELSE Delayed(e))
  /\ UNCHANGED <<setup, now, opens, named, hello, took>>

(* The kernel hands over datagrams to the address of the socket; a connected
   socket takes only those of the address it is connected to. *)
Arrived(e) ==
  {d \in net : /\ d.to = ends[e].cfg.self
               /\ setup.tls.tls_enabled => d.from = ends[e].remote}

(* The history of a round in which datagram d was read. *)
Witness(e, d, old, new, got) ==
  /\ hello' = IF old.peer = NoNode /\ new.peer # NoNode
              THEN [hello EXCEPT ![e] = [node |-> d.env.source_id, from |-> d.from]] ELSE hello
  /\ took' = IF d.env.message_type = "DATA" /\ (got # <<>> \/ new.imp.reorder # old.imp.reorder)
             THEN [took EXCEPT ![e] = @ \cup {[node |-> d.env.source_id, from |-> d.from]}]
             ELSE took

(* `copied`: the network delivers another copy of the datagram later. *)
Receive(e, failing, copied) ==
  /\ Kind # "local" /\ IsOpen(e)
  /\ \E a \in {<<>>} \cup {<<d>> : d \in {x \in Arrived(e) : ends[e].queue = <<>>}} :
       /\ copied => a # <<>> /\ faults < MaxFaults
       /\ faults' = faults + (IF copied \/ failing # {} THEN 1 ELSE 0)
       /\ \E o \in IF Kind = "udp" THEN U!receive_message(ends[e], a, now, failing)
                   ELSE D!receive_message(ends[e], a, now, failing) :
            /\ ends' = [ends EXCEPT ![e] = o.b]
            /\ net' = (IF copied \/ a = <<>> THEN net ELSE net \ {a[1]}) \cup o.sent
            /\ owed' = (owed \ Range(o.got)) \ (IF failing = {} THEN {} ELSE Delayed(e))
            /\ IF a = <<>> THEN UNCHANGED <<hello, took>>
               ELSE Witness(e, a[1], ends[e], o.b, o.got)
  /\ UNCHANGED <<setup, now, sends, opens, named>>

-----------------------------------------------------------------------------
(* The environment *)

Lose(d) ==
  /\ faults < MaxFaults /\ faults' = faults + 1
  /\ net' = net \ {d} /\ owed' = owed \ {d.env}
  /\ UNCHANGED <<setup, ends, now, sends, opens, named, hello, took>>

Stray(d) ==
  /\ Kind # "local" /\ faults < MaxFaults /\ faults' = faults + 1
  /\ net' = net \cup {IF Kind = "udp" THEN [x \in {"env", "from", "to"} |-> d[x]] ELSE d}
  /\ UNCHANGED <<setup, ends, now, sends, opens, named, hello, took, owed>>

(* Time is looked at only by a delay buffer and by a partition cycle. *)
Timed(e) ==
  /\ IsOpen(e)
  /\ ActiveSlots(ends[e].imp) # {} \/ setup.imp.partition_enabled

Tick ==
  /\ \E e \in Ends : Timed(e)
  /\ now < MaxTime /\ now' = now + 1
  /\ UNCHANGED <<setup, ends, net, sends, opens, faults, named, hello, took, owed>>

Next ==
  \/ \E e \in Ends :
       \/ LocalOpen(e) \/ LocalSend(e) \/ LocalReceive(e)
       \/ \E type \in {"DATA", "INVALID"} : LocalInject(e, type)
       \/ \E failing \in {{}, {"bind"}, {"cert"}}, port \in {1, 2} : Open(e, port, failing)
       \/ HandshakeFails(e) \/ Close(e)
       \/ \E failing \in {{}, {0}} : Register(e, failing)
       \/ \E failing \in FailingSends :
            Send(e, failing) \/ \E copied \in BOOLEAN : Receive(e, failing, copied)
  \/ \E rets \in [Ends -> Rets] : Handshake(rets)
  \/ \E d \in net : Lose(d)
  \/ \E d \in Strays : Stray(d)
  \/ Tick

(* The clock goes on and an open end keeps calling receive_message(), as the
   poll loops of the applications do. *)
Fairness ==
  /\ WF_vars(Tick)
  /\ \A e \in Ends : WF_vars(Receive(e, {}, FALSE))

Spec == Init /\ [][Next]_vars /\ Fairness

-----------------------------------------------------------------------------
InFlight(m) ==
  \/ \E d \in net : d.env = m
  \/ \E e \in Ends : /\ ends[e].imp # NoEntry
                     /\ m \in Delayed(e) \cup Range(ends[e].imp.reorder) \cup Range(ends[e].queue)

(* One peer per session: every message an end of UdpBackend or DtlsUdpBackend
   lets in names the node, and comes from the address, of the one HELLO that
   named its peer, whatever other datagrams came in between.  A DTLS server with
   TLS switched off locks the port of that very HELLO, although every datagram
   before it leaves a pending port. *)
OnePeer ==
  \A e \in Ends :
    /\ took[e] \subseteq {hello[e]}
    /\ Kind = "dtls" /\ ends[e].locked # 0 => ends[e].locked = hello[e].from.port

(* A send that returned OK between settled ends, with no loss and no partition
   configured, is kept by the transport: in a delay buffer, on the wire, in a
   reordering window or in a receive queue, until it is received or the
   environment loses it.  Two losses are the transport's own and are exempt: a
   delayed message whose send_to() fails, and one that LocalSimHarness takes from
   its delay buffer or window when the receive queue of the peer is full; both
   are only logged, the send has long returned OK. *)
NothingLost == \A m \in owed : InFlight(m)

(* Messages in the delay buffer of UdpBackend and DtlsUdpBackend leave it, also
   when no further send_message() flushes it: receive_message() does. *)
DelayDrains ==
  []<>(\A e \in Ends : Kind # "local" /\ IsOpen(e) => ActiveSlots(ends[e].imp) = {})
===============================================================================
