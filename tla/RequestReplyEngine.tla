------------------------ MODULE RequestReplyEngine ------------------------
(***************************************************************************)
(* src/core/RequestReplyEngine.cpp as a data type: requests that wait for  *)
(* their response, and inbound requests and other messages that wait for   *)
(* the application.  The DeliveryEngine underneath is given by what its    *)
(* send() returns and by the envelopes its receive() returns with OK.      *)
(*                                                                         *)
(* The 12 bytes of an RRHeader are three cells here: kind, correlation id  *)
(* and padding.  The rings of the two stashes are sequences.  Callers pass *)
(* buffers that are large enough.                                          *)
(***************************************************************************)
EXTENDS MessageEnvelope, FiniteSetsExt, SequencesExt

CONSTANTS
  MAX_PENDING_REQUESTS,    \* 16 in the code
  MAX_STASH_SIZE,          \* 16
  MSG_MAX_PAYLOAD_BYTES,   \* 4096
  CID_MAX,                 \* UINT64_MAX
  k_resp_expiry_us         \* 5 s

ASSUME RequestReplyAssumption == /\ MAX_PENDING_REQUESTS \in Nat \ {0}
                                 /\ MAX_STASH_SIZE \in Nat \ {0}
                                 /\ MSG_MAX_PAYLOAD_BYTES \in Nat
                                 /\ CID_MAX \in Nat \ {0}
                                 /\ k_resp_expiry_us \in Nat

RR_HEADER_SIZE == 3
RRKind_REQUEST == 0
RRKind_RESPONSE == 1

\* <<>> when the payload does not fit.
build_wire_payload(kind, correlation_id, app_payload) ==
  IF RR_HEADER_SIZE + Len(app_payload) > MSG_MAX_PAYLOAD_BYTES THEN <<>>
    ELSE <<kind, correlation_id, 0>> \o app_payload

\* An empty payload stops the program at an assertion; no message here has one.
parse_rr_header(raw) ==
  /\ Len(raw) >= RR_HEADER_SIZE
  /\ raw[1] \in {RRKind_REQUEST, RRKind_RESPONSE}
  /\ raw[2] # 0
  /\ raw[3] = 0

AppPayload(raw) == SubSeq(raw, RR_HEADER_SIZE + 1, Len(raw))
-----------------------------------------------------------------------------
PendingIndex == 1 .. MAX_PENDING_REQUESTS

NoRequest == [active |-> FALSE]

\* stash holds the response that has arrived (stash_ready), or nothing.
PendingRequest ==
  {NoRequest} \union [active         : {TRUE},
                      correlation_id : 1 .. CID_MAX,
                      expires_us     : Nat,
                      stash          : SUBSET Seq(Nat)]

StashedRequest == [src : Node, correlation_id : 1 .. CID_MAX, payload : Seq(Nat)]

\* m_pending_count, which no decision reads, is the number of active slots.
RequestReply == [m_cid_gen       : 1 .. CID_MAX,
                 m_pending       : [PendingIndex -> PendingRequest],
                 m_request_stash : Seq(StashedRequest),
                 m_non_rr_stash  : Seq(Envelope)]

RRInit == [m_cid_gen       |-> 1,
           m_pending       |-> [i \in PendingIndex |-> NoRequest],
           m_request_stash |-> <<>>,
           m_non_rr_stash  |-> <<>>]

ActiveRequests(r) == {i \in PendingIndex : r.m_pending[i].active}

find_pending(r, cid) == {i \in ActiveRequests(r) : r.m_pending[i].correlation_id = cid}

find_free_pending(r) == PendingIndex \ ActiveRequests(r)
-----------------------------------------------------------------------------
\* A response that nobody waits for, or a second one, is dropped.
handle_inbound_response(r, cid, app_payload) ==
  LET found == find_pending(r, cid)
  IN  IF found = {} \/ r.m_pending[Min(found)].stash # {} THEN r
        ELSE [r EXCEPT !.m_pending[Min(found)].stash = {app_payload}]

\* A request that finds the stash full is dropped.
handle_inbound_request(r, src, cid, app_payload) ==
  IF Len(r.m_request_stash) >= MAX_STASH_SIZE THEN r
    ELSE [r EXCEPT !.m_request_stash =
            Append(@, [src |-> src, correlation_id |-> cid, payload |-> app_payload])]

stash_non_rr_data(r, env) ==
  IF Len(r.m_non_rr_stash) >= MAX_STASH_SIZE THEN r
    ELSE [r EXCEPT !.m_non_rr_stash = Append(@, env)]

dispatch_inbound_envelope(r, env) ==
  LET raw == env.payload
  IN  CASE ~parse_rr_header(raw) -> stash_non_rr_data(r, env)
        [] parse_rr_header(raw) /\ raw[1] = RRKind_RESPONSE ->
             handle_inbound_response(r, raw[2], AppPayload(raw))
        [] OTHER -> handle_inbound_request(r, env.source_id, raw[2], AppPayload(raw))

pump_envelope(r, env) == IF envelope_is_data(env) THEN dispatch_inbound_envelope(r, env) ELSE r

\* batch: what receive() returns with OK, at most MAX_STASH_SIZE envelopes,
\* until it returns something else.
pump_inbound(r, batch) ==
  LET after[k \in 0 .. Len(batch)] ==
        IF k = 0 THEN r ELSE pump_envelope(after[k - 1], batch[k])
  IN  after[Len(batch)]
-----------------------------------------------------------------------------
Deadline(timeout_us, now_us) == IF timeout_us = 0 THEN 0 ELSE now_us + timeout_us

\* env comes with the addresses and the id that the engine stamps; its payload
\* is the application's.
RREnvelope(env, kind, cid, class, expiry_us) ==
  [env EXCEPT !.message_type      = "DATA",
              !.reliability_class = class,
              !.expiry_time_us    = expiry_us,
              !.payload           = build_wire_payload(kind, cid, @)]

\* Mutant: the correlation id is the number of the slot.
NewCid_Slot(r) == Min(find_free_pending(r))

NewCid(r) == r.m_cid_gen

\* tx is what the engine's send() returns.  A correlation id that was given to
\* a request that could not be sent is not used again.
send_request(r, env, timeout_us, now_us, tx) ==
  LET free == find_free_pending(r)
      cid  == NewCid(r)
      out  == RREnvelope(env, RRKind_REQUEST, cid, "RELIABLE_RETRY",
                         Deadline(timeout_us, now_us))
      next == [r EXCEPT !.m_cid_gen = IF @ = CID_MAX THEN 1 ELSE @ + 1]
  IN  CASE free = {} -> [res |-> "ERR_FULL", rr |-> r, wire |-> {}]
        [] free # {} /\ out.payload = <<>> -> [res |-> "ERR_FULL", rr |-> next, wire |-> {}]
        [] free # {} /\ out.payload # <<>> /\ tx # "OK" ->
             [res |-> tx, rr |-> next, wire |-> {}]
        [] OTHER ->
             [res  |-> "OK",
              rr   |-> [next EXCEPT !.m_pending[Min(free)] =
                          [active         |-> TRUE,
                           correlation_id |-> cid,
                           expires_us     |-> out.expiry_time_us,
                           stash          |-> {}]],
              wire |-> {out}]

send_response(env, cid, now_us, tx) ==
  LET out == RREnvelope(env, RRKind_RESPONSE, cid, "BEST_EFFORT", now_us + k_resp_expiry_us)
  IN  CASE out.payload = <<>> -> [res |-> "ERR_FULL", wire |-> {}]
        [] out.payload # <<>> /\ tx # "OK" -> [res |-> tx, wire |-> {}]
        [] OTHER -> [res |-> "OK", wire |-> {out}]

\* The three receive calls, after their pump_inbound().
receive_request(r) ==
  IF r.m_request_stash = <<>> THEN [res |-> "ERR_EMPTY", rr |-> r, out |-> {}]
    ELSE [res |-> "OK", rr |-> [r EXCEPT !.m_request_stash = Tail(@)],
          out |-> {Head(r.m_request_stash)}]

receive_non_rr(r) ==
  IF r.m_non_rr_stash = <<>> THEN [res |-> "ERR_EMPTY", rr |-> r, out |-> {}]
    ELSE [res |-> "OK", rr |-> [r EXCEPT !.m_non_rr_stash = Tail(@)],
          out |-> {Head(r.m_non_rr_stash)}]

receive_response(r, cid) ==
  LET found == find_pending(r, cid)
      idx   == Min(found)
  IN  CASE found = {} -> [res |-> "ERR_INVALID", rr |-> r, out |-> {}]
        [] found # {} /\ r.m_pending[idx].stash = {} ->
             [res |-> "ERR_EMPTY", rr |-> r, out |-> {}]
        [] OTHER -> [res |-> "OK", rr |-> [r EXCEPT !.m_pending[idx] = NoRequest],
                     out |-> r.m_pending[idx].stash]

\* Mutant: requests without a timeout are swept too.
TimedOut_Unlimited(r, now_us) ==
  {i \in ActiveRequests(r) : now_us >= r.m_pending[i].expires_us}

\* Mutant: a request whose response has arrived is not swept.
TimedOut_Unanswered(r, now_us) ==
  {i \in ActiveRequests(r) : /\ r.m_pending[i].stash = {}
                             /\ r.m_pending[i].expires_us # 0
                             /\ now_us >= r.m_pending[i].expires_us}

TimedOut(r, now_us) ==
  {i \in ActiveRequests(r) : /\ r.m_pending[i].expires_us # 0
                             /\ now_us >= r.m_pending[i].expires_us}

sweep_timeouts(r, now_us) ==
  [r EXCEPT !.m_pending = [i \in PendingIndex |->
                             IF i \in TimedOut(r, now_us) THEN NoRequest ELSE @[i]]]
=============================================================================
