------------------------- MODULE StreamServerSystem -------------------------
(***************************************************************************)
(* A server and its clients on TcpBackend or TlsTcpBackend: connections    *)
(* are made, wait to be accepted, announce themselves with a HELLO (or do  *)
(* not), carry messages both ways, break and are closed.                   *)
(*                                                                         *)
(* The server is one thread: a round of receive_message() sweeps, accepts  *)
(* and polls in one step (Poll) and then reads one connection per step     *)
(* (Drain), so that clients send, close and connect while the answers of   *)
(* poll() age.  A client has one connection in its life and a round of its *)
(* receive_message() is one step.  The impairment engines are disabled:    *)
(* the time they are given is 0.                                           *)
(***************************************************************************)
EXTENDS ImpairmentEngine, TLC

CONSTANTS MaxConnections, RingCapacity, HelloTimeout, HandshakeMax, NoNode,
          Server,         \* the server's node id
          Clients,        \* the clients, named like their connections
          NodeOf,         \* per client: its node id; a restarted node is a new client
          After,          \* per client: those that connect before it
          Setups          \* [kind, tls, imp, clients, handshakes, calls, sends, faults]:
                          \* transport, TLS settings, impairments, the clients that take
                          \* part, the courses [rets, tls12] of a handshake, and bounds
                          \* on three of the variables below

T == INSTANCE TcpBackend
S == INSTANCE TlsTcpBackend

VARIABLES setup,    \* the element of Setups this behaviour is about
          server,   \* the server's backend
          client,   \* per client: its backend
          store,    \* per node: whether its TlsSessionStore holds a session
          backlog,  \* connections the kernel has and the server has not accepted
          up,       \* per client: frames on the way to the server
          down,     \* per client: frames on the way to the client
          round,    \* the poll under way: its answers and the place read last
          calls,    \* calls of the clients so far
          sends,    \* messages of the server so far
          faults,   \* faults of the environment
          said,     \* clients that have sent a HELLO
          heard,    \* clients of which the server has read a HELLO
          took,     \* connections and source nodes of the messages let in
          bumped,   \* connections touched in the place of another (TcpBackend)
          unjust    \* connections the server closed for no reason of theirs

vars == <<setup, server, client, store, backlog, up, down, round, calls, sends, faults,
          said, heard, took, bumped, unjust>>

Tcp      == setup.kind = "tcp"
Nodes    == {NodeOf[c] : c \in Clients}
NoRound  == [ready |-> <<>>, at |-> 0]
Now      == 0

Table(b) == IF Tcp THEN T!Conns(b) ELSE S!Conns(b)
SlotAt(c) == CHOOSE s \in Range(server.slots) : s # NoEntry /\ s.conn = c

Config(is_server) == [is_server |-> is_server, tls |-> setup.tls, impairment |-> setup.imp]

Torn == [message_type |-> "TORN", source_id |-> NoNode, destination_id |-> NoNode, message_id |-> 0]
Junk == [Torn EXCEPT !.message_type = "JUNK"]

Data(src, dst, id) ==
  [message_type |-> "DATA", source_id |-> src, destination_id |-> dst, message_id |-> id]

(* Frames appended to the connections they were written to. *)
Carry(wire, sent) ==
  [c \in Clients |-> wire[c] \o
     LET own == SelectSeq(sent, LAMBDA x : x.conn = c) IN [i \in DOMAIN own |-> own[i].env]]

(* The client's end of a connection that was made is gone. *)
HungUp(c) == client[c].cfg # NoEntry /\ ~client[c].open
Connected(c) == client[c].open /\ Table(client[c]) # {}

Init ==
  /\ setup \in Setups
  /\ server = IF Tcp THEN T!NewBackend ELSE S!NewBackend
  /\ client = [c \in Clients |-> IF Tcp THEN T!NewBackend ELSE S!NewBackend]
  /\ store = [n \in Nodes |-> FALSE]
  /\ backlog = <<>> /\ round = NoRound
  /\ up = [c \in Clients |-> <<>>] /\ down = [c \in Clients |-> <<>>]
  /\ calls = 0 /\ sends = 0 /\ faults = 0
  /\ said = {} /\ heard = {} /\ took = {} /\ bumped = {} /\ unjust = {}

-----------------------------------------------------------------------------
(* The server opens and closes. *)

OpenServer(failing) ==
  /\ ~server.open
  /\ faults' = faults + (IF failing = {} THEN 0 ELSE 1) /\ faults' <= setup.faults
  /\ server' = IF Tcp THEN T!init(server, Config(TRUE), NoEntry, failing).b
               ELSE S!init(server, Config(TRUE), NoEntry, FALSE, failing, NoEntry).b
  /\ UNCHANGED <<setup, client, store, backlog, up, down, round, calls, sends,
                 said, heard, took, bumped, unjust>>

CloseServer ==
  /\ server.open /\ round = NoRound
  /\ faults < setup.faults /\ faults' = faults + 1
  /\ server' = IF Tcp THEN T!close(server) ELSE S!close(server)
  /\ up' = [c \in Clients |-> <<>>] /\ backlog' = <<>>
  /\ UNCHANGED <<setup, client, store, down, round, calls, sends,
                 said, heard, took, bumped, unjust>>

-----------------------------------------------------------------------------
(* The clients *)

(* With TLS the client's init() goes on when the server accepts. *)
Connect(c) ==
  /\ server.listen /\ c \in setup.clients /\ client[c].cfg = NoEntry /\ c \notin Range(backlog)
  /\ \A d \in After[c] : client[d].cfg # NoEntry \/ d \in Range(backlog)
  /\ backlog' = Append(backlog, c)
  /\ client' = IF Tcp THEN [client EXCEPT ![c] = T!init(@, Config(FALSE), c, {}).b] ELSE client
  /\ UNCHANGED <<setup, server, store, up, down, round, calls, sends, faults,
                 said, heard, took, bumped, unjust>>

(* connect() fails: the client gives up. *)
ConnectFails(c) ==
  /\ c \in setup.clients /\ client[c].cfg = NoEntry /\ c \notin Range(backlog)
  /\ faults < setup.faults /\ faults' = faults + 1
  /\ client' = [client EXCEPT ![c] =
       IF Tcp THEN T!init(@, Config(FALSE), c, {"connect"}).b
       ELSE S!init(@, Config(FALSE), c, FALSE, {"connect"}, NoEntry).b]
  /\ UNCHANGED <<setup, server, store, backlog, up, down, round, calls, sends,
                 said, heard, took, bumped, unjust>>

(* What a client's call has written; a send that fails may leave a part of the
   frame, after which nothing on the connection can be read. *)
Written(c, r, fails) ==
  /\ client' = [client EXCEPT ![c] = r.b]
  /\ up' = IF c \notin Table(server) \cup Range(backlog) THEN up
           ELSE IF fails THEN [up EXCEPT ![c] = Append(@, Torn)] ELSE Carry(up, r.sent)
  /\ calls' = calls + 1 /\ calls' <= setup.calls
  /\ faults' = faults + (IF fails THEN 1 ELSE 0) /\ faults' <= setup.faults

Register(c, fails) ==
  /\ Connected(c)
  /\ LET failing == IF fails THEN {c} ELSE {} IN
     Written(c, IF Tcp THEN T!register_local_id(client[c], NodeOf[c], failing)
                ELSE S!register_local_id(client[c], NodeOf[c], failing), fails)
  /\ said' = IF fails THEN said ELSE said \cup {c}
  /\ UNCHANGED <<setup, server, store, backlog, down, round, sends, heard, took, bumped, unjust>>

(* The source id is the caller's; nothing makes it the registered one. *)
ClientSend(c, src, fails) ==
  /\ Connected(c)
  /\ src # NodeOf[c] => setup.faults > 0
  /\ \E r \in IF Tcp THEN T!send_message(client[c], Data(src, NoNode, c), Now, IF fails THEN {c} ELSE {})
              ELSE S!send_message(client[c], Data(src, NoNode, c), Now, IF fails THEN {c} ELSE {}) :
       Written(c, r, fails)
  /\ UNCHANGED <<setup, server, store, backlog, down, round, sends,
                 said, heard, took, bumped, unjust>>

(* A frame that is no envelope to the server, such as one of another version. *)
Garbled(c) ==
  /\ Connected(c) /\ calls < setup.calls /\ faults < setup.faults
  /\ calls' = calls + 1 /\ faults' = faults + 1
  /\ up' = [up EXCEPT ![c] = Append(@, Junk)]
  /\ UNCHANGED <<setup, server, client, store, backlog, down, round, sends,
                 said, heard, took, bumped, unjust>>

(* A round of receive_message(): one frame, or the end of the stream. *)
ClientReceive(c) ==
  /\ Connected(c)
  /\ down[c] # <<>> \/ (c \notin Table(server) /\ c \notin Range(backlog))
  /\ LET frame == IF down[c] = <<>> THEN <<>> ELSE <<Head(down[c])>> IN
     \E b \in IF Tcp THEN T!recv_from_client(client[c], c, frame, Now)
              ELSE S!recv_from_client(client[c], 1, frame, Now) :
       client' = [client EXCEPT ![c] =
         IF Tcp THEN T!receive_message(b, Now, {}).b ELSE S!receive_message(b, Now, {}).b]
  /\ down' = [down EXCEPT ![c] = IF @ = <<>> THEN @ ELSE Tail(@)]
  /\ UNCHANGED <<setup, server, store, backlog, up, round, calls, sends, faults,
                 said, heard, took, bumped, unjust>>

ClientClose(c) ==
  /\ Connected(c) /\ calls < setup.calls
  /\ calls' = calls + 1
  /\ client' = [client EXCEPT ![c] = IF Tcp THEN T!close(@) ELSE S!close(@)]
  /\ down' = [down EXCEPT ![c] = <<>>]
  /\ UNCHANGED <<setup, server, store, backlog, up, round, sends, faults,
                 said, heard, took, bumped, unjust>>

-----------------------------------------------------------------------------
(* The server's rounds *)

Readable(c) == up[c] # <<>> \/ HungUp(c)

NextPlace(b, ready, at) ==
  IF Tcp THEN T!drain_readable_clients(b, ready, at) ELSE S!NextReadable(ready, at)

(* After reading `at`: the round goes on, or receive_message() takes a message
   or flushes the delay buffer.  The timeout of the server's calls is that of
   one poll, so then it returns and the engine takes the HELLO notifications. *)
Proceed(b, ready, at) ==
  IF NextPlace(b, ready, at) # {}
  THEN /\ server' = b /\ round' = [ready |-> ready, at |-> at]
       /\ UNCHANGED <<down, took>>
  ELSE \E r \in {IF Tcp THEN T!receive_message(b, Now, {}) ELSE S!receive_message(b, Now, {})} :
         /\ server' = IF Tcp THEN T!pop_hello_peer(r.b) ELSE S!pop_hello_peer(r.b)
         /\ down' = Carry(down, r.sent)
         /\ took' = took \cup {[conn |-> m.message_id, node |-> m.source_id] : m \in Range(r.got)}
         /\ round' = NoRound

(* The connections closed by the step, of which those in `due` had it coming. *)
Closing(new, due) ==
  LET closed == Table(server) \ Table(new) IN
  unjust' = unjust \cup (closed \ due)

Overdue == {c \in Table(server) \ heard : SlotAt(c).age > HelloTimeout}

(* A message that is there already ends receive_message() at once. *)
Taken ==
  /\ server.open /\ round = NoRound /\ server.queue # <<>>
  /\ Proceed(server, <<>>, 0)
  /\ UNCHANGED <<setup, client, store, backlog, up, calls, sends, faults,
                 said, heard, bumped, unjust>>

(* The sweep, at most one connection accepted, and poll().  With TLS the two
   ends of the accepted connection run the handshake `hs`. *)
Poll(hs) ==
  /\ server.open /\ round = NoRound /\ server.queue = <<>>
  /\ \E p \in {IF Tcp THEN T!poll_clients_once(server, {c \in Clients : Readable(c)}, backlog)
               ELSE S!poll_clients_once(server, {c \in Clients : Readable(c)}, backlog, {}, hs)} :
       /\ Proceed(p.b, p.ready, IF Tcp THEN 0 ELSE MaxConnections + 1)
       /\ Closing(p.b, Overdue)
       /\ up' = [c \in Clients |-> IF c \in Table(server) \ Table(p.b) THEN <<>> ELSE up[c]]
       /\ LET accepts == backlog # <<>> /\ (IF Tcp THEN Head(backlog) \in Table(p.b)
                            ELSE Cardinality(Table(server) \cap Table(p.b)) < MaxConnections)
              c       == Head(backlog)
              made    == S!init(client[c], Config(FALSE), c, store[NodeOf[c]], {}, hs)
          IN  /\ backlog' = IF accepts THEN Tail(backlog) ELSE backlog
              /\ IF accepts /\ ~Tcp
                 THEN /\ client' = [client EXCEPT ![c] = made.b]
                      /\ store' = [store EXCEPT ![NodeOf[c]] = made.store]
                 ELSE UNCHANGED <<client, store>>
  /\ UNCHANGED <<setup, calls, sends, faults, said, heard, bumped>>

PollAny == \E hs \in IF Tcp \/ backlog = <<>> THEN {NoEntry} ELSE setup.handshakes : Poll(hs)

(* One connection is read: a frame, or none if it is broken, closed or, in the
   place of another, idle. *)
Drain ==
  \E i \in NextPlace(server, round.ready, round.at) :
    LET c     == server.slots[i].conn
        frame == IF up[c] = <<>> \/ Head(up[c]).message_type = "TORN" THEN <<>> ELSE <<Head(up[c])>>
        hello == frame # <<>> /\ frame[1].message_type = "HELLO"
        rival == \E d \in Table(server) \cap heard : d # c /\ NodeOf[d] = NodeOf[c]
    IN  \E b \in IF Tcp THEN T!recv_from_client(server, c, frame, Now)
                 ELSE S!recv_from_client(server, i, frame, Now) :
          /\ Proceed(b, round.ready, i)
          /\ up' = [up EXCEPT ![c] = IF @ = <<>> \/ c \notin Table(b) THEN <<>> ELSE Tail(@)]
          /\ heard' = IF hello THEN heard \cup {c} ELSE heard
          /\ Closing(b, IF IF hello THEN c \in heard \/ rival ELSE Readable(c) /\ frame = <<>>
                        THEN {c} ELSE {})
          /\ bumped' = bumped
               \cup (IF Readable(c) THEN {} ELSE {c})
               \cup (IF Tcp /\ hello /\ c \notin heard /\ c \notin Table(b)
                     THEN {b.slots[j].conn : j \in DOMAIN b.slots \cap {i}} ELSE {})
          /\ UNCHANGED <<setup, client, store, backlog, calls, sends, faults, said>>

(* To a node or to everyone. *)
ServerSend(dst, failing) ==
  /\ server.open /\ round = NoRound /\ sends < setup.sends
  /\ sends' = sends + 1
  /\ faults' = faults + Cardinality(failing) /\ faults' <= setup.faults
  /\ \E r \in IF Tcp THEN T!send_message(server, Data(Server, dst, Server), Now, failing)
              ELSE S!send_message(server, Data(Server, dst, Server), Now, failing) :
       /\ server' = r.b
       /\ down' = [c \in Clients |-> IF Connected(c) THEN Carry(down, r.sent)[c] ELSE <<>>]
  /\ UNCHANGED <<setup, client, store, backlog, up, round, calls,
                 said, heard, took, bumped, unjust>>

(* Time matters to connections that have not announced themselves. *)
Tick ==
  LET Older(s) == IF s = NoEntry \/ s.hello THEN s
                  ELSE [s EXCEPT !.age = MinOf(@ + 1, HelloTimeout + 1)]
      aged     == [i \in DOMAIN server.slots |-> Older(server.slots[i])]
  IN  /\ aged # server.slots
      /\ server' = [server EXCEPT !.slots = aged]
      /\ UNCHANGED <<setup, client, store, backlog, up, down, round, calls, sends, faults,
                     said, heard, took, bumped, unjust>>

Next ==
  \/ \E failing \in {{}, {"bind"}, {"cert"}} : OpenServer(failing)
  \/ CloseServer
  \/ \E c \in Clients :
       \/ Connect(c) \/ ConnectFails(c) \/ Garbled(c) \/ ClientReceive(c) \/ ClientClose(c)
       \/ \E fails \in BOOLEAN :
            Register(c, fails) \/ \E src \in Nodes : ClientSend(c, src, fails)
  \/ Drain \/ PollAny
  \/ Taken
  \/ \E dst \in Nodes \cup {NoNode}, failing \in {{}} \cup {{c} : c \in Clients} :
       ServerSend(dst, failing)
  \/ Tick

(* The server keeps calling receive_message(), as the loop of Server.cpp does. *)
Fairness ==
  /\ WF_vars(Tick) /\ WF_vars(Taken) /\ WF_vars(Drain)
  /\ WF_vars(PollAny)

Spec == Init /\ [][Next]_vars /\ Fairness

-----------------------------------------------------------------------------
(* A node id belongs to the connection that announced it: of the connections in
   the table at most one is registered for a node, and it has sent that HELLO
   itself, although slots are compacted or used again between a HELLO and the
   messages; a message let in names the node its own connection announced, and
   a message for one node is written to no other connection. *)
RouteIsOwn ==
  /\ \A i, j \in DOMAIN server.slots :
       LET s == server.slots[i] IN
       s # NoEntry /\ s.node # NoNode =>
         /\ s.conn \in said /\ s.node = NodeOf[s.conn]
         /\ i # j /\ server.slots[j] # NoEntry => server.slots[j].node # s.node
  /\ \A t \in took : t.conn \in said /\ t.node = NodeOf[t.conn]
  /\ \A c \in Clients : \A m \in Range(down[c]) :
       m.destination_id # NoNode => c \in said /\ m.destination_id = NodeOf[c]

(* The server closes a connection only because of what that connection did: it
   ended or broke, said HELLO twice, announced a node that another connection
   holds, or said nothing in time.  The exceptions are TcpBackend's: a
   connection that was idle, or had not announced itself, when the table was
   compacted under an index to it. *)
ClosedForCause == unjust \subseteq bumped

(* A connection that never announces itself leaves the table, so that it cannot
   keep a slot from others, with TcpBackend unless the flag of its HELLO was set
   in the place of another. *)
SilentEvicted == []<>(\A c \in Table(server) : c \in heard \cup bumped)
===============================================================================
