--------------------------- MODULE DeliverySystem ---------------------------
(***************************************************************************)
(* Nodes that run a DeliveryEngine each, and the network between them.  An *)
(* application calls send(), receive(), pump_retries() and                 *)
(* sweep_ack_timeouts() of its own engine in any order, from one thread,   *)
(* with the current time.  A transport may refuse a message, accept and    *)
(* lose it, deliver it late, out of order or more than once.  A client may *)
(* restart: its connection closes with all that is in flight on it, and    *)
(* its HELLO makes the server reset what it keeps about it (REQ-3.3.6).    *)
(* The HELLO is read by receive_message(), inside one receive() call, and  *)
(* acted upon at the start of the next one.                                *)
(***************************************************************************)
EXTENDS DeliveryEngine

CONSTANTS
  Server,        \* the node that accepts connections
  LongPoll,      \* TRUE: receive() is given more than the 100 ms of one poll
  Workload,      \* the messages that applications may send, each once
  MaxTime,       \* bound on the clock
  MaxRefused,    \* bound on the sends that the transport refuses
  MaxLost,       \* bound on the messages lost after they were accepted
  MaxRestarts,   \* bound on client restarts
  MaxDuplicated  \* bound on the copies that the network makes

ASSUME SystemAssumption == /\ IsFiniteSet(Node)
                           /\ Server \in Node
                           /\ LongPoll \in BOOLEAN
                           /\ Workload \subseteq Envelope
                           /\ {MaxTime, MaxRefused, MaxLost, MaxDuplicated,
                               MaxRestarts} \subseteq Nat

VARIABLES
  eng,           \* the DeliveryEngine of each node
  connecting,    \* clients whose HELLO the server has not read yet
  hello,         \* the transport's queue of nodes whose HELLO was read
  net,           \* frames under way
  clock,         \* CLOCK_MONOTONIC
  refused, lost, duplicated, restarts,   \* how often each has happened
  sent,          \* history: messages that send() gave to the transport
  failed,        \* history: ids of messages of which it gave no frame to it
  stale,         \* history: sent to or by a client before its last restart
  delivered      \* history: what each application was given, in order

vars == <<eng, connecting, hello, net, clock, refused, lost, duplicated, restarts,
          sent, failed, stale, delivered>>

Init == /\ eng        = [n \in Node |-> EngineInit]
        /\ connecting = Node \ {Server}
        /\ hello      = [n \in Node |-> {}]
        /\ net        = {}
        /\ clock      = 1
        /\ refused    = 0
        /\ lost       = 0
        /\ duplicated = 0
        /\ restarts   = 0
        /\ sent       = {}
        /\ failed     = {}
        /\ stale      = {}
        /\ delivered  = [n \in Node |-> <<>>]

\* The network after `out' was given to it, some of it lost.  The server has
\* no route to a client whose HELLO it has not read.
Transmit(base, out) ==
  \E gone \in SUBSET out :
    /\ lost' = lost + Cardinality(gone)
    /\ lost' <= MaxLost
    /\ net'  = base \union {m \in out \ gone : m.destination_id \notin connecting}

\* Each application sends its messages in the order of the ids that
\* MessageIdGen counts up.
Used == failed \union {s.message_id : s \in sent}

FrameCount(m) == Len(RB!fragment_message(m))

\* accepted is the number of frames that the transport takes before it refuses
\* one; a message that is partly on the wire counts as sent.
Send(m, accepted) ==
  /\ m.message_id \notin Used
  /\ \A o \in Workload : /\ o.source_id = m.source_id
                         /\ o.message_id < m.message_id
                         => o.message_id \in Used
  /\ refused' = IF accepted = FrameCount(m) THEN refused ELSE refused + 1
  /\ refused' <= MaxRefused
  /\ LET n == m.source_id
         r == send(eng[n], m, clock, accepted)
     IN  /\ eng'    = [eng EXCEPT ![n] = r.engine]
         /\ sent'   = IF r.wire # {} THEN sent \union {r.stamped} ELSE sent
         /\ failed' = IF r.wire = {} THEN failed \union {m.message_id} ELSE failed
         /\ Transmit(net, r.wire)
  /\ UNCHANGED <<connecting, hello, clock, duplicated, restarts, stale, delivered>>

\* receive() of node n ends with outcome o; read is what it took from the wire,
\* hellos are the nodes whose HELLO receive_message() read meanwhile.
Finish(n, o, read, hellos) ==
  /\ eng'        = [eng EXCEPT ![n] = o.engine]
  /\ hello'      = [hello EXCEPT ![n] = hellos]
  /\ connecting' = connecting \ hellos
  /\ delivered'  = [delivered EXCEPT ![n] = IF o.out = {} THEN @
                                            ELSE Append(@, CHOOSE x \in o.out : TRUE)]
  /\ Transmit(net \ read, o.reply)
  /\ UNCHANGED <<clock, refused, restarts, sent, failed, stale>>

ReceiveStaged(n) ==
  LET o == receive_staged(eng[n], n, hello[n], clock)
  IN  /\ o.res = "OK"
      /\ Finish(n, o, {}, {})
      /\ UNCHANGED duplicated

Hellos(n) == IF n = Server THEN SUBSET connecting ELSE {{}}

ReceiveTimeout(n, hellos) ==
  LET o == receive_staged(eng[n], n, hello[n], clock)
  IN  /\ o.res \in {"ERR_EMPTY", "ERR_EXPIRED"}
      /\ Finish(n, o, {}, hellos)
      /\ UNCHANGED duplicated

\* copies is 1 when the network keeps a copy of m to deliver again.  A client
\* sends its HELLO first; one poll reads at most one frame of each client.
\* (A quantifier over a singleton is a LET that TLC evaluates only once.)
ReceiveWire(n, m, copies, hellos) ==
  /\ m.source_id # n
  /\ m.source_id \in connecting => LongPoll /\ m.source_id \in hellos
  /\ m.source_id \notin connecting => m.source_id \notin hellos
  /\ duplicated' = duplicated + copies
  /\ duplicated' <= MaxDuplicated
  /\ \E o \in {receive_staged(eng[n], n, hello[n], clock)} :
       /\ o.res \in {"ERR_EMPTY", "ERR_EXPIRED"}
       /\ \E r \in {handle_fragment_ingest(o.engine, m, clock)} :
            \E w \in {receive_wire(r, n, clock)} :
              Finish(n, w, IF copies = 0 THEN {m} ELSE {}, hellos)

PumpRetries(n) ==
  \E r \in {pump_retries(eng[n], clock)} :
    /\ eng' = [eng EXCEPT ![n] = r.engine]
    /\ Transmit(net, r.due)
    /\ UNCHANGED <<connecting, hello, clock, refused, duplicated, restarts, sent, failed, stale,
                   delivered>>

SweepAckTimeouts(n) ==
  /\ eng' = [eng EXCEPT ![n] = sweep_ack_timeouts(eng[n], clock).engine]
  /\ UNCHANGED <<connecting, hello, net, clock, refused, lost, duplicated, restarts, sent, failed,
                 stale, delivered>>

Involves(m, n) == n \in {m.source_id, m.destination_id}

\* Client n starts again with a new engine and connects to the server.
Restart(n) ==
  /\ n # Server
  /\ restarts < MaxRestarts
  /\ restarts'  = restarts + 1
  /\ eng'       = [eng EXCEPT ![n] = EngineInit]
  /\ connecting' = connecting \union {n}
  /\ hello'     = [hello EXCEPT ![n] = {}]
  /\ net'       = {m \in net : ~Involves(m, n)}
  /\ stale'     = stale \union {m \in sent : Involves(m, n)}
  /\ delivered' = [delivered EXCEPT ![n] = <<>>]
  /\ UNCHANGED <<clock, refused, lost, duplicated, sent, failed>>

Tick == /\ clock < MaxTime
        /\ clock' = clock + 1
        /\ UNCHANGED <<eng, connecting, hello, net, refused, lost, duplicated, restarts, sent, failed,
                       stale, delivered>>

Traffic ==
  \/ \E m \in Workload : \E accepted \in 0 .. FrameCount(m) : Send(m, accepted)
  \/ \E n \in Node : \/ ReceiveStaged(n)
                     \/ \E h \in Hellos(n) : ReceiveTimeout(n, h)
                     \/ \E m \in net, copies \in {0, 1}, h \in Hellos(n) :
                          ReceiveWire(n, m, copies, h)
                     \/ PumpRetries(n)

Next == \/ Traffic
        \/ \E n \in Node : SweepAckTimeouts(n) \/ Restart(n)
        \/ Tick

Spec == Init /\ [][Next]_vars

\* The poll loop of a sender keeps calling pump_retries(), that of a receiver
\* receive(), and no tick passes while a retransmission is due.  Sweeps, which
\* concern the sender's ACK table and not its retries, are left out here.
PromptTick ==
  /\ \A n \in Node : RM!Due(eng[n].m_retry_manager, clock) = {}
  /\ Tick

FairSpec ==
  /\ Init /\ [][Traffic \/ PromptTick]_vars
  /\ WF_vars(PromptTick)
  /\ WF_vars(ReceiveTimeout(Server, connecting))
  /\ \A w \in Workload :
       /\ WF_vars(PumpRetries(w.source_id))
       /\ WF_vars(\E m \in net : ReceiveWire(w.destination_id, m, 0, {}))
-----------------------------------------------------------------------------
TypeOK == /\ eng \in [Node -> Engine]
          /\ \A n \in Node : Cardinality(eng[n].m_held_pending) <= 1
          /\ connecting \subseteq Node \ {Server}
          /\ hello \in [Node -> SUBSET Node]
          /\ net \subseteq Envelope
          /\ {clock, refused, lost, duplicated, restarts} \subseteq Nat
          /\ sent \subseteq Envelope
          /\ failed \subseteq MessageId
          /\ stale \subseteq sent
          /\ delivered \in [Node -> Seq(Envelope)]

SameMessage(a, b) == a.source_id = b.source_id /\ a.message_id = b.message_id

\* m, whole or a frame, was sent to or by a client before its last restart.
OfOldSession(m) == \E x \in stale : SameMessage(x, m)

(***************************************************************************)
(* At-most-once (REQ-3.3.3): a RELIABLE_RETRY message reaches the          *)
(* application once, however often it is retransmitted or duplicated, as   *)
(* long as the duplicate filter's window has not turned over.              *)
(***************************************************************************)
AtMostOnce ==
  \A n \in Node : \A i, j \in DOMAIN delivered[n] :
    /\ delivered[n][i].reliability_class = "RELIABLE_RETRY"
    /\ SameMessage(delivered[n][i], delivered[n][j])
    => i = j

(***************************************************************************)
(* An ACK under way vouches for the message: the node that sent it has     *)
(* given the message to its application or, on an ordered channel, keeps   *)
(* it until its turn comes; it has not thrown it away.                     *)
(* This is so while the hold pool has room: a message that a full pool     *)
(* refuses is in the duplicate filter already and is acknowledged when it  *)
(* comes again.                                                            *)
(***************************************************************************)
AckMeansKept ==
  \A a \in net :
    a.message_type = "ACK" =>
      LET e    == eng[a.source_id]
          here == {delivered[a.source_id][i] : i \in DOMAIN delivered[a.source_id]}
                    \union e.m_held_pending
                    \union {e.m_ordering.m_hold[h].env : h \in OB!Held(e.m_ordering)}
      IN  \E m \in here : /\ m.source_id = a.destination_id
                          /\ m.message_id = a.message_id

\* Messages that node n still tracks or retransmits.
InFlight(n) ==
  LET t == eng[n].m_ack_tracker
      r == eng[n].m_retry_manager
  IN  {t.m_slots[i].env : i \in AT!InState(t, "PENDING")}
        \union {r.m_slots[i].env : i \in RM!Active(r)}

(***************************************************************************)
(* A send() that fails before a frame is on the wire leaves nothing        *)
(* behind: no slot is held for the message, no retry puts it on the wire   *)
(* and nobody receives it (the `at-most-once contract' of                  *)
(* reserve_bookkeeping).                                                   *)
(***************************************************************************)
FailedSendLeavesNothing ==
  \A id \in failed : \A n \in Node :
    /\ \A m \in InFlight(n) : m.message_id # id
    /\ \A m \in net : m.message_id # id
    /\ \A i \in DOMAIN delivered[n] : delivered[n][i].message_id # id

(***************************************************************************)
(* A message is retransmitted only while its ACK is outstanding: when the  *)
(* AckTracker has taken the ACK, the RetryManager has stopped too.         *)
(***************************************************************************)
AckStopsRetries ==
  \A n \in Node :
    LET t == eng[n].m_ack_tracker
        r == eng[n].m_retry_manager
    IN  \A i \in AT!InState(t, "ACKED"), j \in RM!Active(r) :
          ~SameMessage(t.m_slots[i].env, r.m_slots[j].env)

(***************************************************************************)
(* Ordered channel (REQ-3.3.5): an application gets the numbered messages  *)
(* of a sender's current session in increasing order.                      *)
(***************************************************************************)
InOrderDelivery ==
  \A n \in Node : \A j \in DOMAIN delivered[n] : \A i \in 1 .. j - 1 :
    LET a == delivered[n][i]
        b == delivered[n][j]
    IN  /\ a.source_id = b.source_id
        /\ a.sequence_num # 0 /\ b.sequence_num # 0
        /\ ~OfOldSession(a) /\ ~OfOldSession(b)
        => a.sequence_num < b.sequence_num

(***************************************************************************)
(* Nothing of a client's old session outlives the reset: once the server   *)
(* has seen the HELLO it neither tracks nor retransmits what it had sent   *)
(* before, and stages nothing that the client had sent before (REQ-3.3.6). *)
(***************************************************************************)
StaleOnlyUntilHello ==
  \A m \in stale :
    /\ m \in InFlight(Server) => m.destination_id \in hello[Server] \union connecting
    /\ \A x \in eng[Server].m_held_pending :
         SameMessage(x, m) => m.source_id \in hello[Server] \union connecting

\* What node n keeps until its turn comes.
Waiting(n) ==
  eng[n].m_held_pending
    \union {eng[n].m_ordering.m_hold[h].env : h \in OB!Held(eng[n].m_ordering)}

\* Some message that waits at node n has expired, and with it m may go: it is m
\* itself, or a later one past which the sweep moves the gate, or the staged one.
\* When receive() drops that, it stages the successor, goes on to the transport
\* and may overwrite the successor by what comes from there.
GivenUp(n, m) ==
  \E x \in Waiting(n) :
    /\ x.source_id = m.source_id
    /\ timestamp_expired(x.expiry_time_us, clock)
    /\ x.sequence_num >= m.sequence_num \/ x \in eng[n].m_held_pending

(***************************************************************************)
(* `Stage it in m_held_pending so the subsequent receive() call delivers   *)
(* it': a message that waits for its turn is handed out, whatever arrives  *)
(* before, unless its source has connected anew or a message of its source *)
(* has expired in a way that gives it up.                                  *)
(***************************************************************************)
WaitingNotLost ==
  [][\A n \in Node : \A m \in Waiting(n) :
       \/ m \in Waiting(n)'
       \/ \E i \in DOMAIN delivered'[n] : delivered'[n][i] = m
       \/ m.source_id \in hello[n]
       \/ restarts' # restarts
       \/ GivenUp(n, m)]_vars

\* The first frames of messages that node n has a part of.
Collected(n) == {eng[n].m_reassembly[i].header : i \in RB!Open(eng[n].m_reassembly)}

(***************************************************************************)
(* What a client sends after it has connected is delivered to the server's *)
(* application or waits for its turn or for its other frames; it is not    *)
(* discarded as a duplicate from the session before (REQ-3.3.6).           *)
(***************************************************************************)
NewSessionNotDropped ==
  [][\A m \in net \ net' :
       /\ m.message_type = "DATA"
       /\ m.destination_id = Server
       /\ ~OfOldSession(m)'
       => \E x \in Waiting(Server)' \union Collected(Server)' \union
                  Range(delivered[Server])' : SameMessage(x, m)]_vars

(***************************************************************************)
(* `Drain any pending HELLO reconnect notifications from the transport and *)
(* reset stale per-peer ordering state before any delivery attempt': the   *)
(* reset comes before the first message of the new session, so none of its *)
(* messages waits although all earlier ones were delivered.                *)
(***************************************************************************)
NoFalseGap ==
  \A m \in Waiting(Server) \ eng[Server].m_held_pending :
    \E s \in 1 .. m.sequence_num - 1 :
      \A i \in DOMAIN delivered[Server] :
        LET d == delivered[Server][i]
        IN  d.source_id = m.source_id /\ ~OfOldSession(d) => d.sequence_num # s

(***************************************************************************)
(* A RELIABLE_RETRY message is delivered although max_retries of its       *)
(* frames and ACKs are lost or refused: the first retransmission is due at *)
(* once, the others within BACKOFF_CAP of each other.                      *)
(***************************************************************************)
EventuallyDelivered ==
  \A m \in Workload :
    (\E s \in sent : /\ SameMessage(s, m)
                     /\ clock + BACKOFF_CAP * (max_retries - 1) <= MaxTime)
      ~> \E i \in DOMAIN delivered[m.destination_id] :
           SameMessage(delivered[m.destination_id][i], m)

(***************************************************************************)
(* The retries of a message end: whether it was acknowledged or not, its   *)
(* entry leaves the table, so that later sends find room.                  *)
(***************************************************************************)
RetriesEnd ==
  \A m \in Workload :
    (\E s \in sent : /\ SameMessage(s, m)
                     /\ clock + BACKOFF_CAP * (max_retries - 1) <= MaxTime)
      ~> ~\E i \in RM!Active(eng[m.source_id].m_retry_manager) :
            SameMessage(eng[m.source_id].m_retry_manager.m_slots[i].env, m)
=============================================================================
