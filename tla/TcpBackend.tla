----------------------------- MODULE TcpBackend -----------------------------
(***************************************************************************)
(* The TCP transport: a server with a table of connections, or a client    *)
(* with its one connection.                                                *)
(*                                                                         *)
(* A backend is a record.  The table (m_client_fds, m_client_node_ids,     *)
(* m_client_hello_received, m_client_accept_ts up to m_client_count) is    *)
(* the sequence `slots`: removing a connection moves those behind it one   *)
(* place down.  A slot's age is the time since the connection was          *)
(* accepted, counted up to just above the timeout for the HELLO.  What the *)
(* backend puts on the wire is a sequence of [conn, env]; `failing` is the *)
(* set of the system calls, or of the connections, that fail.              *)
(***************************************************************************)
EXTENDS ImpairmentEngine

CONSTANTS MaxConnections,  \* MAX_TCP_CONNECTIONS
          RingCapacity,    \* MSG_RING_CAPACITY
          HelloTimeout,    \* recv_timeout_ms of the first channel
          NoNode           \* NODE_ID_INVALID

NewBackend ==
  [open |-> FALSE, listen |-> FALSE, cfg |-> NoEntry, local |-> NoNode,
   slots |-> <<>>, hellos |-> <<>>, queue |-> <<>>, imp |-> NoEntry]

NewSlot(c) == [conn |-> c, node |-> NoNode, hello |-> FALSE, age |-> 0]

Conns(b)   == {b.slots[i].conn : i \in DOMAIN b.slots}
Place(b, c) == CHOOSE i \in DOMAIN b.slots : b.slots[i].conn = c

-----------------------------------------------------------------------------
(* Opening and closing: the calls to make, any of which may fail. *)

bind_and_listen   == {"create", "reuseaddr", "bind", "listen", "nonblocking"}
connect_to_server == {"create", "reuseaddr", "connect"}

(* `c` is the client's connection.  The queue of HELLO notifications is not
   emptied, here or in close(). *)
init(b, cfg, c, failing) ==
  LET fresh == [b EXCEPT !.cfg = cfg, !.local = NoNode, !.queue = <<>>,
                         !.imp = NewEngine(cfg.impairment)]
  IN  IF failing \cap (IF cfg.is_server THEN bind_and_listen ELSE connect_to_server) # {}
      THEN [res |-> "ERR_IO", b |-> fresh]
      ELSE [res |-> "OK",
            b   |-> [fresh EXCEPT !.open = TRUE, !.listen = cfg.is_server,
                                  !.slots = IF cfg.is_server THEN <<>> ELSE <<NewSlot(c)>>]]

close(b) == [b EXCEPT !.open = FALSE, !.listen = FALSE, !.slots = <<>>]

-----------------------------------------------------------------------------
(* The table *)

accept_clients(b, c) ==
  IF Len(b.slots) >= MaxConnections THEN b ELSE [b EXCEPT !.slots = Append(@, NewSlot(c))]

remove_client_fd(b, c)     == [b EXCEPT !.slots = SelectSeq(@, LAMBDA s : s.conn # c)]
close_and_evict_slot(b, c) == remove_client_fd(b, c)

\* Mutant: a connection is never too old.
sweep_hello_timeouts_OffByOne(b) ==
  [b EXCEPT !.slots = SelectSeq(@, LAMBDA s : s.hello \/ s.age <= HelloTimeout + 1)]
sweep_hello_timeouts(b) ==
  [b EXCEPT !.slots = SelectSeq(@, LAMBDA s : s.hello \/ s.age <= HelloTimeout)]

(* The slot of a node, or none. *)
find_client_slot(b, node) ==
  LET found == {i \in DOMAIN b.slots : b.slots[i].node = node} IN
  IF found = {} THEN {} ELSE {Min(found)}

(* A node that is registered already keeps its connection and the new one is
   evicted; otherwise the node takes the slot and the engine is to be told,
   if there is room (a ring of MaxConnections places, one of them unused). *)
handle_hello_frame(b, c, node) ==
  IF \E i \in DOMAIN b.slots : b.slots[i].node = node /\ b.slots[i].conn # c
  THEN close_and_evict_slot(b, c)
  ELSE [b EXCEPT !.slots[Place(b, c)].node = node,
                 !.hellos = IF Len(@) < MaxConnections - 1 THEN Append(@, node) ELSE @]

(* The flag is set through the slot index found before, which after an
   eviction is the index of the connection behind. *)
process_hello_frame(b, c, node) ==
  LET i == Place(b, c)
      h == handle_hello_frame(b, c, node)
  IN  IF b.slots[i].hello THEN close_and_evict_slot(b, c)
      ELSE IF i \in DOMAIN h.slots THEN [h EXCEPT !.slots[i].hello = TRUE] ELSE h

(* All of them, as the engine takes them: pop_hello_peer() until it is empty. *)
pop_hello_peer(b) == [b EXCEPT !.hellos = <<>>]

is_unregistered_slot(b, c) == b.slots[Place(b, c)].node = NoNode

validate_source_id(b, c, node) == b.slots[Place(b, c)].node \in {NoNode, node}

-----------------------------------------------------------------------------
(* Receiving *)

(* A partition is asked for before the engine is, so it holds also when the
   engine is disabled. *)
apply_inbound_impairment(b, env, now) ==
  LET gate == is_partition_active(b.imp, now) IN
  IF gate.active THEN {[b EXCEPT !.imp = gate.eng]}
  ELSE {[b EXCEPT !.imp = i.eng,
                  !.queue = IF i.res = "OK" /\ i.out # <<>> /\ Len(@) < RingCapacity
                            THEN Append(@, i.out[1]) ELSE @] :
          i \in process_inbound(gate.eng, env, now)}

(* One frame of a connection: <<>> if recv_frame() fails, and of type JUNK if
   what it reads is no envelope. *)
recv_from_client(b, c, frame, now) ==
  IF frame = <<>> THEN {remove_client_fd(b, c)}
  ELSE IF frame[1].message_type = "JUNK" THEN {b}
  ELSE IF frame[1].message_type = "HELLO"
  THEN {IF b.cfg.is_server THEN process_hello_frame(b, c, frame[1].source_id) ELSE b}
  ELSE IF \/ b.cfg.is_server /\ is_unregistered_slot(b, c)
          \/ ~validate_source_id(b, c, frame[1].source_id)
  THEN {b}
  ELSE apply_inbound_impairment(
         IF b.cfg.is_server \/ ~is_unregistered_slot(b, c) THEN b
         ELSE [b EXCEPT !.slots[1].node = frame[1].source_id], frame[1], now)

(* The connections poll() is asked about, with its answers. *)
build_poll_fds(b, readable) == [i \in DOMAIN b.slots |-> b.slots[i].conn \in readable]

has_listen(b) == b.cfg.is_server /\ b.listen /\ Len(b.slots) < MaxConnections

(* poll_clients_once() up to the reading; `waiting` are the connections that
   wait to be accepted. *)
poll_clients_once(b, readable, waiting) ==
  LET s == IF b.cfg.is_server THEN sweep_hello_timeouts(b) ELSE b IN
  [ready |-> build_poll_fds(s, readable),
   b     |-> IF has_listen(s) /\ waiting # <<>> THEN accept_clients(s, waiting[1]) ELSE s]

(* The place of the table to read next, or none: the answers of poll() are by
   place, and the table may have been compacted since. *)
drain_readable_clients(b, ready, at) ==
  LET next == {i \in DOMAIN ready : i > at /\ ready[i]} IN
  IF next = {} \/ Min(next) > Len(b.slots) THEN {} ELSE {Min(next)}

-----------------------------------------------------------------------------
(* Sending *)

Hello(node) ==
  [message_type |-> "HELLO", source_id |-> node, destination_id |-> NoNode, message_id |-> 0]

send_hello_frame(b, failing) ==
  IF b.slots = <<>> \/ b.slots[1].conn \in failing
  THEN [res |-> "ERR_IO", b |-> b, sent |-> <<>>]
  ELSE [res |-> "OK", b |-> b,
        sent |-> <<[conn |-> b.slots[1].conn, env |-> Hello(b.local)]>>]

register_local_id(b, node, failing) ==
  LET named == [b EXCEPT !.local = node] IN
  IF b.cfg.is_server THEN [res |-> "OK", b |-> named, sent |-> <<>>]
  ELSE send_hello_frame(named, failing)

SendTo(b, env, places, failing) ==
  LET out == SelectSeq([i \in DOMAIN b.slots |-> [conn |-> b.slots[i].conn, env |-> env]],
               LAMBDA x : Place(b, x.conn) \in places /\ x.conn \notin failing)
  IN  [sent |-> out, failed |-> Len(out) < Cardinality(places)]

send_to_all_clients(b, env, failing)   == SendTo(b, env, DOMAIN b.slots, failing)
send_to_slot(b, env, place, failing)   == SendTo(b, env, place, failing)

\* Mutant: a message to an unknown node goes to everyone.
send_one_delayed_FallsBack(b, env, failing) ==
  LET slot == find_client_slot(b, env.destination_id)
      out  == IF ~b.cfg.is_server \/ slot = {} THEN send_to_all_clients(b, env, failing)
              ELSE send_to_slot(b, env, slot, failing)
  IN  [res |-> IF out.failed THEN "ERR_IO" ELSE "OK", sent |-> out.sent]
(* A client, and a message to nobody in particular, addresses every
   connection, also one that has not registered. *)
send_one_delayed(b, env, failing) ==
  LET all  == ~b.cfg.is_server \/ env.destination_id = NoNode
      slot == find_client_slot(b, env.destination_id)
      out  == IF all THEN send_to_all_clients(b, env, failing)
              ELSE send_to_slot(b, env, slot, failing)
  IN  IF ~all /\ slot = {} THEN [res |-> "ERR_INVALID", sent |-> <<>>]
      ELSE [res |-> IF out.failed THEN "ERR_IO" ELSE "OK", sent |-> out.sent]

(* Only the message of this call decides about its result. *)
apply_send_result(env, m, res) ==
  IF m.source_id = env.source_id /\ m.message_id = env.message_id THEN res ELSE "OK"

flush_delayed_to_clients(b, env, now, failing) ==
  LET c   == collect_deliverable(b.imp, now)
      one == [i \in DOMAIN c.batch |-> send_one_delayed(b, c.batch[i], failing)]
      bad == {i \in DOMAIN c.batch : apply_send_result(env, c.batch[i], one[i].res) # "OK"}
  IN  [res  |-> IF bad = {} THEN "OK" ELSE one[Max(bad)].res,
       b    |-> [b EXCEPT !.imp = c.eng],
       sent |-> FlattenSeq([i \in DOMAIN c.batch |-> one[i].sent])]

(* A message dropped on purpose is reported as sent, and so is a message while
   there is no connection: it stays in the delay buffer. *)
send_message(b, env, now, failing) ==
  {LET x == [b EXCEPT !.imp = o.eng] IN
   IF o.res # "OK" THEN [res |-> IF o.res = "ERR_IO" THEN "OK" ELSE o.res, b |-> x, sent |-> <<>>]
   ELSE IF b.slots = <<>> THEN [res |-> "OK", b |-> x, sent |-> <<>>]
   ELSE flush_delayed_to_clients(x, env, now, failing) :
   o \in process_outbound(b.imp, env, now)}

Pop(b) == [b EXCEPT !.queue = Tail(@)]

(* The end of a round of receive_message(): a message, or the flush of the
   delay buffer. *)
receive_message(b, now, failing) ==
  IF b.queue # <<>> THEN [got |-> <<Head(b.queue)>>, b |-> Pop(b), sent |-> <<>>]
  ELSE LET f == flush_delayed_to_clients(b, Hello(NoNode), now, failing) IN
       [got |-> <<>>, b |-> f.b, sent |-> f.sent]
===============================================================================
