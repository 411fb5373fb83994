------------------------ MODULE RequestReplySystem ------------------------
(***************************************************************************)
(* Clients and a server with a RequestReplyEngine each, over the delivery  *)
(* that the engines underneath give: a request (RELIABLE_RETRY) is         *)
(* received at most once, late or never; a response or another message     *)
(* (BEST_EFFORT) may also be received more than once; nothing is received  *)
(* after its expiry time.  Applications call their engine in any order;    *)
(* the server answers late, or not at all.                                 *)
(***************************************************************************)
EXTENDS RequestReplyEngine, Functions

CONSTANTS
  Server,          \* the node that answers; the others ask
  Timeout,         \* the timeouts that clients use; 0 means none
  MaxTime,         \* bound on the clock
  MaxMessages,     \* bound on the messages sent
  MaxDuplicated,   \* bound on the copies that the network makes
  MaxRefused       \* bound on the sends that an engine refuses

ASSUME RequestReplySystemAssumption ==
  /\ Server \in Node
  /\ Timeout \subseteq Nat
  /\ {MaxTime, MaxMessages, MaxDuplicated, MaxRefused} \subseteq Nat

\* Message ids are fresh, and the correlation ids of a session do not wrap around:
\* a client would have to send 2^64 requests.
ASSUME SessionAssumption ==
  /\ 1 .. MaxMessages \subseteq MessageId
  /\ MaxMessages < CID_MAX

Client == Node \ {Server}

VARIABLES
  rr,          \* the RequestReplyEngine of each node
  net,         \* envelopes under way
  clock,       \* CLOCK_MONOTONIC
  ids,         \* how many messages have been sent
  duplicated, refused,
  taken,       \* requests that the server's application has not answered yet
  asked,       \* history: the requests that send_request() sent
  answers      \* history: what receive_response() returned to each client

vars == <<rr, net, clock, ids, duplicated, refused, taken, asked, answers>>

Init == /\ rr         = [n \in Node |-> RRInit]
        /\ net        = {}
        /\ clock      = 1
        /\ ids        = 0
        /\ duplicated = 0
        /\ refused    = 0
        /\ taken      = {}
        /\ asked      = {}
        /\ answers    = [n \in Client |-> <<>>]

\* The next message from src to dst.  An application's payload is one cell.
NewMessage(src, dst, cell) ==
  [message_type |-> "DATA", message_id |-> ids + 1, source_id |-> src,
   destination_id |-> dst, sequence_num |-> 0, reliability_class |-> "BEST_EFFORT",
   expiry_time_us |-> 0, payload |-> <<cell>>, fragment_index |-> 0,
   fragment_count |-> 1, total_payload_length |-> 1]

\* The answer to a request is told from the answers to all others.
Answer(cell) == MaxMessages + cell

\* One more message; tx is what the engine's send() returns.
Count(tx) == /\ ids < MaxMessages
             /\ ids'     = ids + 1
             /\ refused' = IF tx = "OK" THEN refused ELSE refused + 1
             /\ refused' <= MaxRefused

SendRequest(c, timeout, tx) ==
  /\ Count(tx)
  /\ LET r == send_request(rr[c], NewMessage(c, Server, ids + 1), timeout, clock, tx)
     IN  /\ rr'    = [rr EXCEPT ![c] = r.rr]
         /\ net'   = net \union r.wire
         /\ asked' = asked \union {[client |-> c, correlation_id |-> m.payload[2],
                                    cell |-> ids + 1] : m \in r.wire}
  /\ UNCHANGED <<clock, duplicated, taken, answers>>

\* A message that is no request, sent with the engine's own send().  It may be
\* received at any later time, so it is enough to send one at the beginning.
SendOther(c) ==
  /\ ids = 0
  /\ Count("OK")
  /\ net' = net \union {NewMessage(c, Server, ids + 1)}
  /\ UNCHANGED <<rr, clock, duplicated, taken, asked, answers>>

\* The server's application keeps a request that it could not answer.
SendResponse(q, tx) ==
  /\ Count(tx)
  /\ LET r == send_response(NewMessage(Server, q.src, Answer(q.payload[1])),
                            q.correlation_id, clock, tx)
     IN  /\ net'   = net \union r.wire
         /\ taken' = IF r.res = "OK" THEN taken \ {q} ELSE taken
  /\ UNCHANGED <<rr, clock, duplicated, asked, answers>>

Deliverable(n) == {m \in net : /\ m.destination_id = n
                               /\ ~timestamp_expired(m.expiry_time_us, clock)}

Batches(n) == UNION {{b \in [1 .. k -> Deliverable(n)] : IsInjective(b)}
                       : k \in 0 .. MAX_STASH_SIZE}

\* The receives of one pump_inbound(); the network keeps a copy of `again'.
Pump(batch) ==
  \E again \in SUBSET {m \in Range(batch) : m.reliability_class = "BEST_EFFORT"} :
    /\ duplicated' = duplicated + Cardinality(again)
    /\ duplicated' <= MaxDuplicated
    /\ net' = (net \ Range(batch)) \union again

ReceiveRequest(batch) ==
  /\ Pump(batch)
  /\ \E r \in {receive_request(pump_inbound(rr[Server], batch))} :
       /\ rr'    = [rr EXCEPT ![Server] = r.rr]
       /\ taken' = taken \union r.out
  /\ UNCHANGED <<clock, ids, refused, asked, answers>>

ReceiveNonRR(n, batch) ==
  /\ Pump(batch)
  /\ rr' = [rr EXCEPT ![n] = receive_non_rr(pump_inbound(@, batch)).rr]
  /\ UNCHANGED <<clock, ids, refused, taken, asked, answers>>

ReceiveResponse(c, cid, batch) ==
  /\ Pump(batch)
  /\ \E r \in {receive_response(pump_inbound(rr[c], batch), cid)} :
       /\ rr'      = [rr EXCEPT ![c] = r.rr]
       /\ answers' = [answers EXCEPT ![c] =
                        @ \o SetToSeq({[correlation_id |-> cid, payload |-> p] : p \in r.out})]
  /\ UNCHANGED <<clock, ids, refused, taken, asked>>

SweepTimeouts(c) ==
  /\ rr' = [rr EXCEPT ![c] = sweep_timeouts(@, clock)]
  /\ UNCHANGED <<net, clock, ids, duplicated, refused, taken, asked, answers>>

Tick == /\ clock < MaxTime
        /\ clock' = clock + 1
        /\ UNCHANGED <<rr, net, ids, duplicated, refused, taken, asked, answers>>

Next ==
  \/ \E c \in Client : \/ \E t \in Timeout, tx \in {"OK", "ERR_IO"} : SendRequest(c, t, tx)
                       \/ SendOther(c)
                       \/ \E q \in asked, b \in Batches(c) :
                            q.client = c /\ ReceiveResponse(c, q.correlation_id, b)
                       \/ SweepTimeouts(c)
  \/ \E q \in taken, tx \in {"OK", "ERR_IO"} : SendResponse(q, tx)
  \/ \E b \in Batches(Server) : ReceiveRequest(b) \/ ReceiveNonRR(Server, b)
  \/ Tick

\* The clock runs and the applications' loops sweep; nobody is bound to answer,
\* and no client to ask for its response.
Spec == /\ Init /\ [][Next]_vars
        /\ WF_vars(Tick)
        /\ \A c \in Client : WF_vars(SweepTimeouts(c))
-----------------------------------------------------------------------------
(***************************************************************************)
(* What a client gets for a correlation id is the server's answer to the   *)
(* request that was sent under it, and it gets it once, although responses *)
(* come late, twice and out of order, slots are used again after timeouts, *)
(* and other clients use the same correlation ids.                         *)
(***************************************************************************)
ResponseMatches ==
  \A c \in Client :
    /\ IsInjective([i \in DOMAIN answers[c] |-> answers[c][i].correlation_id])
    /\ \A a \in Range(answers[c]) :
         \E q \in asked : /\ q.client = c
                          /\ q.correlation_id = a.correlation_id
                          /\ a.payload = <<Answer(q.cell)>>

(***************************************************************************)
(* A response that has arrived stays at hand until receive_response()      *)
(* returns it or the request times out; later copies do not disturb it.    *)
(***************************************************************************)
ResponseKept ==
  [][\A c \in Client : \A i \in ActiveRequests(rr[c]) :
       LET p == rr[c].m_pending[i]
       IN  p.stash # {} =>
             \/ rr'[c].m_pending[i] = p
             \/ \E a \in Range(answers'[c]) : /\ a.correlation_id = p.correlation_id
                                              /\ a.payload \in p.stash
             \/ p.expires_us # 0 /\ clock >= p.expires_us]_vars

(***************************************************************************)
(* A request with a timeout leaves the table in the end, whether it was    *)
(* answered or not and whether or not the client asks for the response, so *)
(* `stale slots do not prevent new requests'.                              *)
(***************************************************************************)
RequestsEnd ==
  \A c \in Client, i \in PendingIndex :
    (/\ rr[c].m_pending[i].active
     /\ rr[c].m_pending[i].expires_us \in 1 .. MaxTime)
      ~> ~rr[c].m_pending[i].active
=============================================================================
