------------------------ MODULE RequestReplyProofs ------------------------
(***************************************************************************)
(* Proofs about the clients and the server of RequestReplySystem, for any  *)
(* number of clients, table sizes, timeouts and bounds: a client gets the  *)
(* answer to its own request, once, and a response that has arrived is     *)
(* neither lost nor overwritten.                                           *)
(***************************************************************************)
EXTENDS RequestReplySystem, FiniteSetTheorems, SequenceTheorems,
        WellFoundedInduction, TLAPS

\* A non-empty set of naturals has a least element: the order of the naturals is
\* well-founded.
LEMMA MinIsLeast ==
  ASSUME NEW S, S \subseteq Nat, S # {}
  PROVE  Min(S) \in S /\ \A y \in S : Min(S) <= y
<1> DEFINE R == OpToRel(<, Nat)
<1>1. IsWellFoundedOn(R, Nat)
  BY NatLessThanWellFounded, Zenon
<1>2. \A x, y \in Nat : y < x => <<y, x>> \in R
  BY DEF OpToRel
<1> HIDE DEF R
<1>3. PICK x \in S : \A y \in S : ~ (<<y, x>> \in R)
  BY <1>1, WFMin
<1>4. ASSUME NEW y \in S PROVE x <= y
  <2>1. x \in Nat /\ y \in Nat /\ ~ (<<y, x>> \in R)
    BY <1>3
  <2>2. ~ (y < x)
    BY <1>2, <2>1, Zenon
  <2>3. QED
    BY <2>1, <2>2
<1>5. QED
  BY <1>4 DEF Min

RequestRecord == [client : Client, correlation_id : 1 .. CID_MAX, cell : Nat]

\* No client uses a correlation id twice.
OneRequestEach(A) ==
  \A p, q \in A : p.client = q.client /\ p.correlation_id = q.correlation_id => p = q

\* m belongs to a request of A: it is the request itself, an answer to it, or it is
\* no message of the request-reply protocol.
IsRequest(m, q) == /\ m.destination_id = Server
                   /\ m.source_id = q.client
                   /\ m.payload = <<RRKind_REQUEST, q.correlation_id, 0, q.cell>>

IsResponse(m, q) == /\ m.destination_id = q.client
                    /\ m.payload = <<RRKind_RESPONSE, q.correlation_id, 0, Answer(q.cell)>>

Genuine(m, A) == \/ \E q \in A : IsRequest(m, q) \/ IsResponse(m, q)
                 \/ Len(m.payload) < RR_HEADER_SIZE

IsStashed(s, q) == s = [src |-> q.client, correlation_id |-> q.correlation_id,
                        payload |-> <<q.cell>>]

\* The slot p waits for the answer to the request q, or holds it.
WaitsFor(p, q) == /\ p.correlation_id = q.correlation_id
                  /\ p.stash \subseteq {<<Answer(q.cell)>>}

\* Every active slot of the engine r of node n belongs to a request of n, no two to
\* the same one, and the stashed requests are requests that were sent.
GoodEngine(n, r, A) ==
  /\ r \in RequestReply
  /\ \A i, j \in ActiveRequests(r) :
       r.m_pending[i].correlation_id = r.m_pending[j].correlation_id => i = j
  /\ \A i \in ActiveRequests(r) : \E q \in A : q.client = n /\ WaitsFor(r.m_pending[i], q)
  /\ \A k \in DOMAIN r.m_request_stash : \E q \in A : IsStashed(r.m_request_stash[k], q)

TypeOK == /\ rr \in [Node -> RequestReply]
          /\ net \subseteq Envelope
          /\ clock \in Nat
          /\ ids \in 0 .. MaxMessages
          /\ taken \subseteq StashedRequest
          /\ asked \subseteq RequestRecord
          /\ answers \in [Client -> Seq([correlation_id : 1 .. CID_MAX, payload : Seq(Nat)])]

\* Correlation ids that were given out are below the counter, which runs no faster
\* than the messages are counted.
FreshIds == /\ \A n \in Node : rr[n].m_cid_gen <= ids + 1
            /\ \A q \in asked : q.correlation_id < rr[q.client].m_cid_gen

\* A request that was answered is in no slot any more.
AnsweredIsDone ==
  \A c \in Client : \A i \in ActiveRequests(rr[c]) : \A a \in Range(answers[c]) :
    a.correlation_id # rr[c].m_pending[i].correlation_id

IInv == /\ TypeOK
        /\ OneRequestEach(asked)
        /\ FreshIds
        /\ \A n \in Node : GoodEngine(n, rr[n], asked)
        /\ \A m \in net : Genuine(m, asked)
        /\ \A s \in taken : \E q \in asked : IsStashed(s, q)
        /\ AnsweredIsDone
        /\ ResponseMatches

-----------------------------------------------------------------------------
(* The engine of one node. *)

ActiveSlot == [active : {TRUE}, correlation_id : 1 .. CID_MAX, expires_us : Nat,
               stash : SUBSET Seq(Nat)]

\* A slot is either empty or a request with all its fields.
LEMMA SlotFacts ==
  ASSUME NEW r \in RequestReply
  PROVE  /\ ActiveRequests(r) \subseteq PendingIndex
         /\ PendingIndex \subseteq Nat
         /\ \A i \in ActiveRequests(r) : r.m_pending[i] \in ActiveSlot
         /\ \A i \in PendingIndex \ ActiveRequests(r) : r.m_pending[i] = NoRequest
<1>1. r.m_pending \in [PendingIndex -> PendingRequest]
  BY DEF RequestReply
<1>2. ActiveRequests(r) \subseteq PendingIndex /\ PendingIndex \subseteq Nat
  BY RequestReplyAssumption DEF ActiveRequests, PendingIndex
<1>3. ASSUME NEW i \in ActiveRequests(r) PROVE r.m_pending[i] \in ActiveSlot
  <2>1. r.m_pending[i].active = TRUE /\ r.m_pending[i] \in PendingRequest
    BY <1>1, <1>2 DEF ActiveRequests
  <2>2. NoRequest.active = FALSE
    BY DEF NoRequest
  <2>3. r.m_pending[i] # NoRequest
    BY <2>1, <2>2
  <2>4. QED
    BY <2>1, <2>3 DEF PendingRequest, ActiveSlot
<1>4. ASSUME NEW i \in PendingIndex \ ActiveRequests(r) PROVE r.m_pending[i] = NoRequest
  <2>1. ~r.m_pending[i].active /\ r.m_pending[i] \in PendingRequest
    BY <1>1 DEF ActiveRequests
  <2>2. QED
    BY <2>1 DEF PendingRequest
<1>5. QED
  BY <1>2, <1>3, <1>4

\* No two slots have the same correlation id, so find_pending() finds one at most.
LEMMA FoundSlot ==
  ASSUME NEW n, NEW A, NEW r, GoodEngine(n, r, A), NEW cid, find_pending(r, cid) # {}
  PROVE  LET i == Min(find_pending(r, cid))
         IN  /\ i \in ActiveRequests(r)
             /\ r.m_pending[i].correlation_id = cid
             /\ \A j \in ActiveRequests(r) : r.m_pending[j].correlation_id = cid => j = i
<1>1. r \in RequestReply
  BY DEF GoodEngine
<1>2. find_pending(r, cid) \subseteq Nat
  BY <1>1, SlotFacts DEF find_pending
<1>3. Min(find_pending(r, cid)) \in find_pending(r, cid)
  BY <1>2, MinIsLeast
<1>4. QED
  BY <1>3 DEF find_pending, GoodEngine

\* What the receipt of an envelope leaves as it is: the slots in use, and every
\* response that has already arrived.
Keeps(r, s) ==
  /\ s.m_cid_gen = r.m_cid_gen
  /\ ActiveRequests(s) = ActiveRequests(r)
  /\ \A i \in ActiveRequests(r) :
       /\ s.m_pending[i].correlation_id = r.m_pending[i].correlation_id
       /\ r.m_pending[i].stash # {} => s.m_pending[i] = r.m_pending[i]

LEMMA KeepsTwice ==
  ASSUME NEW r, NEW s, NEW t, Keeps(r, s), Keeps(s, t)
  PROVE  Keeps(r, t)
BY DEF Keeps

\* An engine whose slots are those of r.
LEMMA SameSlots ==
  ASSUME NEW r \in RequestReply, NEW s, s.m_pending = r.m_pending,
         s.m_cid_gen = r.m_cid_gen
  PROVE  Keeps(r, s) /\ ActiveRequests(s) = ActiveRequests(r)
BY DEF Keeps, ActiveRequests

\* A response for q arrives at the client of q.
LEMMA ResponseArrives ==
  ASSUME NEW A, A \subseteq RequestRecord, OneRequestEach(A), NEW q \in A,
         NEW r, GoodEngine(q.client, r, A)
  PROVE  LET s == handle_inbound_response(r, q.correlation_id, <<Answer(q.cell)>>)
         IN  GoodEngine(q.client, s, A) /\ Keeps(r, s)
<1> DEFINE cid == q.correlation_id
           found == find_pending(r, cid)
           i == Min(found)
           ans == <<Answer(q.cell)>>
           s == handle_inbound_response(r, cid, ans)
<1>1. r \in RequestReply
  BY DEF GoodEngine
<1>2. CASE found = {} \/ r.m_pending[i].stash # {}
  <2>1. s = r
    BY <1>2 DEF handle_inbound_response
  <2>2. QED
    BY <1>1, <2>1, SameSlots
<1>3. CASE ~(found = {} \/ r.m_pending[i].stash # {})
  <2>1. /\ i \in ActiveRequests(r)
        /\ r.m_pending[i].correlation_id = cid
        /\ \A j \in ActiveRequests(r) : r.m_pending[j].correlation_id = cid => j = i
    BY <1>3, FoundSlot
  <2>2. s = [r EXCEPT !.m_pending[i].stash = {ans}]
    BY <1>3 DEF handle_inbound_response
  <2>3. r.m_pending[i].stash = {}
    BY <1>3
  <2>4. ans \in Seq(Nat)
    <3>1. q.cell \in Nat
      BY DEF RequestRecord
    <3>2. Answer(q.cell) \in Nat
      BY <3>1, RequestReplySystemAssumption DEF Answer
    <3>3. QED
      BY <3>2
  <2> HIDE DEF ans, i, found, s
  <2> DEFINE p == r.m_pending
             slot == [p[i] EXCEPT !.stash = {ans}]
             pp == [p EXCEPT ![i] = slot]
  <2>5. /\ i \in PendingIndex
        /\ p[i] \in ActiveSlot
        /\ p \in [PendingIndex -> PendingRequest]
    BY <1>1, <2>1, SlotFacts DEF RequestReply
  <2>6. /\ slot \in ActiveSlot
        /\ slot.correlation_id = cid
        /\ slot.stash = {ans}
        /\ slot.active = TRUE
    BY <2>1, <2>4, <2>5 DEF ActiveSlot
  <2>7. pp \in [PendingIndex -> PendingRequest]
    <3>1. slot \in PendingRequest
      BY <2>6 DEF ActiveSlot, PendingRequest
    <3> HIDE DEF slot
    <3>2. QED
      BY <2>5, <3>1
  <2>8. s = [r EXCEPT !.m_pending = pp]
    BY <1>1, <2>2, <2>5 DEF RequestReply
  <2>9. /\ pp[i] = slot
        /\ \A j \in PendingIndex : j # i => pp[j] = p[j]
    BY <2>5
  <2> HIDE DEF pp, slot
  <2>10. /\ s \in RequestReply
         /\ s.m_pending = pp
         /\ s.m_cid_gen = r.m_cid_gen
         /\ s.m_request_stash = r.m_request_stash
    BY <1>1, <2>7, <2>8 DEF RequestReply
  <2>11. ActiveRequests(s) = ActiveRequests(r)
    <3>1. i \in ActiveRequests(s) /\ i \in ActiveRequests(r)
      BY <2>1, <2>5, <2>6, <2>9, <2>10 DEF ActiveRequests
    <3>2. ASSUME NEW j \in PendingIndex, j # i
          PROVE  s.m_pending[j] = r.m_pending[j]
      BY <2>9, <2>10, <3>2
    <3>3. QED
      BY <3>1, <3>2 DEF ActiveRequests
  <2>12. ASSUME NEW j \in ActiveRequests(r)
         PROVE  /\ s.m_pending[j].correlation_id = r.m_pending[j].correlation_id
                /\ r.m_pending[j].stash # {} => s.m_pending[j] = r.m_pending[j]
                /\ \E k \in A : k.client = q.client /\ WaitsFor(s.m_pending[j], k)
    <3>1. j \in PendingIndex
      BY <1>1, SlotFacts
    <3>2. CASE j = i
      <4>1. s.m_pending[j] = slot
        BY <2>9, <2>10, <3>2
      <4>2. WaitsFor(s.m_pending[j], q)
        BY <2>6, <4>1 DEF WaitsFor, ans
      <4>3. QED
        BY <2>1, <2>3, <2>6, <3>2, <4>1, <4>2
    <3>3. CASE j # i
      <4>1. s.m_pending[j] = r.m_pending[j]
        BY <2>9, <2>10, <3>1, <3>3
      <4>2. QED
        BY <4>1 DEF GoodEngine
    <3>4. QED
      BY <3>2, <3>3
  <2>13. Keeps(r, s)
    BY <2>10, <2>11, <2>12 DEF Keeps
  <2>14. GoodEngine(q.client, s, A)
    BY <2>10, <2>11, <2>12 DEF GoodEngine
  <2>15. QED
    BY <2>13, <2>14 DEF s, ans
<1>4. QED
  BY <1>2, <1>3


\* A request arrives.
LEMMA RequestArrives ==
  ASSUME NEW A, A \subseteq RequestRecord, NEW q \in A,
         NEW n, NEW r, GoodEngine(n, r, A)
  PROVE  LET s == handle_inbound_request(r, q.client, q.correlation_id, <<q.cell>>)
         IN  GoodEngine(n, s, A) /\ Keeps(r, s)
<1> DEFINE new == [src |-> q.client, correlation_id |-> q.correlation_id,
                   payload |-> <<q.cell>>]
           st == r.m_request_stash
           s == handle_inbound_request(r, q.client, q.correlation_id, <<q.cell>>)
<1>1. r \in RequestReply
  BY DEF GoodEngine
<1>2. CASE Len(st) >= MAX_STASH_SIZE
  <2>1. s = r
    BY <1>2 DEF handle_inbound_request
  <2>2. QED
    BY <1>1, <2>1, SameSlots
<1>3. CASE ~(Len(st) >= MAX_STASH_SIZE)
  <2>1. new \in StashedRequest /\ IsStashed(new, q)
    <3>1. q.client \in Node /\ q.correlation_id \in 1 .. CID_MAX /\ q.cell \in Nat
      BY DEF RequestRecord, Client
    <3>2. <<q.cell>> \in Seq(Nat)
      BY <3>1
    <3>3. QED
      BY <3>1, <3>2 DEF StashedRequest, IsStashed
  <2>2. st \in Seq(StashedRequest)
    BY <1>1 DEF RequestReply
  <2> DEFINE tt == Append(st, new)
  <2>3. s = [r EXCEPT !.m_request_stash = tt]
    BY <1>3 DEF handle_inbound_request
  <2> HIDE DEF new, s
  <2>4. /\ tt \in Seq(StashedRequest)
        /\ DOMAIN tt = 1 .. Len(st) + 1
        /\ \A k \in 1 .. Len(st) : tt[k] = st[k]
        /\ tt[Len(st) + 1] = new
        /\ Len(st) \in Nat
        /\ DOMAIN st = 1 .. Len(st)
    BY <2>1, <2>2
  <2> HIDE DEF tt
  <2>5. /\ s \in RequestReply
        /\ s.m_pending = r.m_pending
        /\ s.m_cid_gen = r.m_cid_gen
        /\ s.m_request_stash = tt
    BY <1>1, <2>3, <2>4 DEF RequestReply
  <2>6. Keeps(r, s) /\ ActiveRequests(s) = ActiveRequests(r)
    BY <1>1, <2>5, SameSlots
  <2>7. ASSUME NEW k \in DOMAIN tt PROVE \E p \in A : IsStashed(tt[k], p)
    <3>1. CASE k = Len(st) + 1
      BY <2>1, <2>4, <3>1
    <3>2. CASE k # Len(st) + 1
      <4>1. k \in 1 .. Len(st)
        BY <2>4, <3>2
      <4>2. QED
        BY <2>4, <4>1 DEF GoodEngine
    <3>3. QED
      BY <3>1, <3>2
  <2>8. GoodEngine(n, s, A)
    BY <2>5, <2>6, <2>7 DEF GoodEngine
  <2>9. QED
    BY <2>6, <2>8 DEF s
<1>4. QED
  BY <1>2, <1>3

\* Another message arrives.
LEMMA OtherArrives ==
  ASSUME NEW A, NEW n, NEW r, GoodEngine(n, r, A), NEW env \in Envelope
  PROVE  LET s == stash_non_rr_data(r, env)
         IN  GoodEngine(n, s, A) /\ Keeps(r, s)
<1> DEFINE st == r.m_non_rr_stash
           tt == Append(st, env)
           s == stash_non_rr_data(r, env)
<1>1. r \in RequestReply
  BY DEF GoodEngine
<1>2. CASE s = r
  BY <1>1, <1>2, SameSlots
<1>3. CASE s # r
  <2>1. s = [r EXCEPT !.m_non_rr_stash = tt]
    BY <1>3 DEF stash_non_rr_data
  <2>2. st \in Seq(Envelope)
    BY <1>1 DEF RequestReply
  <2>3. tt \in Seq(Envelope)
    BY <2>2
  <2> HIDE DEF tt, s
  <2>4. /\ s \in RequestReply
        /\ s.m_pending = r.m_pending
        /\ s.m_cid_gen = r.m_cid_gen
        /\ s.m_request_stash = r.m_request_stash
    BY <1>1, <2>1, <2>3 DEF RequestReply
  <2>5. Keeps(r, s) /\ ActiveRequests(s) = ActiveRequests(r)
    BY <1>1, <2>4, SameSlots
  <2>6. GoodEngine(n, s, A)
    BY <2>4, <2>5 DEF GoodEngine
  <2>7. QED
    BY <2>5, <2>6 DEF s
<1>4. QED
  BY <1>2, <1>3

\* What the headers of the protocol say, and what remains without them.
LEMMA HeaderFacts ==
  ASSUME NEW k \in {RRKind_REQUEST, RRKind_RESPONSE}, NEW cid \in Nat \ {0},
         NEW cell \in Nat, NEW raw, raw = <<k, cid, 0, cell>>
  PROVE  /\ parse_rr_header(raw)
         /\ raw[1] = k
         /\ raw[2] = cid
         /\ AppPayload(raw) = <<cell>>
<1>1. /\ Len(raw) = 4
      /\ raw[1] = k
      /\ raw[2] = cid
      /\ raw[3] = 0
      /\ raw[4] = cell
      /\ raw \in Seq(Nat)
  BY DEF RRKind_REQUEST, RRKind_RESPONSE
<1>2. parse_rr_header(raw)
  BY <1>1 DEF parse_rr_header, RR_HEADER_SIZE
<1>3. AppPayload(raw) = SubSeq(raw, 4, 4)
  BY <1>1 DEF AppPayload, RR_HEADER_SIZE
<1>4. SubSeq(raw, 4, 4) = <<cell>>
  <2> DEFINE z == SubSeq(raw, 4, 4)
  <2>1. z \in Seq(Nat) /\ Len(z) = 1 /\ z[1] = cell
    BY <1>1
  <2> HIDE DEF z
  <2>2. DOMAIN z = {1} /\ z = [i \in DOMAIN z |-> z[i]]
    BY <2>1
  <2>3. DOMAIN <<cell>> = {1} /\ <<cell>>[1] = cell
    OBVIOUS
  <2>4. z = <<cell>>
    BY <2>1, <2>2, <2>3
  <2>5. QED
    BY <2>4 DEF z
<1>5. QED
  BY <1>1, <1>2, <1>3, <1>4

\* One envelope of a batch.
LEMMA EnvelopeArrives ==
  ASSUME NEW A, A \subseteq RequestRecord, OneRequestEach(A),
         NEW r, NEW env \in Envelope, Genuine(env, A),
         GoodEngine(env.destination_id, r, A)
  PROVE  LET s == pump_envelope(r, env)
         IN  GoodEngine(env.destination_id, s, A) /\ Keeps(r, s)
<1> DEFINE n == env.destination_id
           raw == env.payload
           d == dispatch_inbound_envelope(r, env)
           s == pump_envelope(r, env)
<1>1. r \in RequestReply
  BY DEF GoodEngine
<1>2. GoodEngine(n, d, A) /\ Keeps(r, d)
  <2>1. CASE ~parse_rr_header(raw)
    <3>1. d = stash_non_rr_data(r, env)
      BY <2>1 DEF dispatch_inbound_envelope
    <3>2. QED
      BY <3>1, OtherArrives
  <2>2. CASE parse_rr_header(raw)
    <3>1. ~(Len(raw) < RR_HEADER_SIZE)
      <4>1. Len(raw) \in Nat
        BY DEF Envelope
      <4>2. QED
        BY <2>2, <4>1 DEF parse_rr_header, RR_HEADER_SIZE
    <3>2. PICK q \in A : IsRequest(env, q) \/ IsResponse(env, q)
      BY <3>1 DEF Genuine
    <3>3. /\ q.correlation_id \in Nat \ {0}
          /\ q.cell \in Nat
          /\ Answer(q.cell) \in Nat
      BY RequestReplyAssumption, RequestReplySystemAssumption DEF RequestRecord, Answer
    <3>4. CASE IsRequest(env, q)
      <4>1. raw = <<RRKind_REQUEST, q.correlation_id, 0, q.cell>> /\ env.source_id = q.client
        BY <3>4 DEF IsRequest
      <4>2. raw[1] = RRKind_REQUEST /\ raw[2] = q.correlation_id /\ AppPayload(raw) = <<q.cell>>
        BY <3>3, <4>1, HeaderFacts
      <4>3. raw[1] # RRKind_RESPONSE
        BY <4>2 DEF RRKind_REQUEST, RRKind_RESPONSE
      <4>4. d = handle_inbound_request(r, q.client, q.correlation_id, <<q.cell>>)
        BY <2>2, <4>1, <4>2, <4>3 DEF dispatch_inbound_envelope
      <4>5. QED
        BY <4>4, RequestArrives
    <3>5. CASE IsResponse(env, q)
      <4>1. /\ raw = <<RRKind_RESPONSE, q.correlation_id, 0, Answer(q.cell)>>
            /\ n = q.client
        BY <3>5 DEF IsResponse
      <4>2. /\ raw[1] = RRKind_RESPONSE
            /\ raw[2] = q.correlation_id
            /\ AppPayload(raw) = <<Answer(q.cell)>>
        BY <3>3, <4>1, HeaderFacts
      <4>3. d = handle_inbound_response(r, q.correlation_id, <<Answer(q.cell)>>)
        BY <2>2, <4>2 DEF dispatch_inbound_envelope
      <4>4. QED
        BY <4>1, <4>3, ResponseArrives
    <3>6. QED
      BY <3>2, <3>4, <3>5
  <2>3. QED
    BY <2>1, <2>2
<1>3. Keeps(r, r)
  BY <1>1, SameSlots
<1>4. s = d \/ s = r
  BY DEF pump_envelope
<1>5. QED
  BY <1>2, <1>3, <1>4


\* The loop of pump_inbound() as the sequence of its states.  A definition by
\* recursion on 0 .. N has a solution: there is no least number for which it has none.
LEMMA PumpLoop ==
  ASSUME NEW r, NEW batch, Len(batch) \in Nat
  PROVE  \E g : /\ g[0] = r
                /\ \A k \in 1 .. Len(batch) : g[k] = pump_envelope(g[k - 1], batch[k])
                /\ pump_inbound(r, batch) = g[Len(batch)]
<1> DEFINE N == Len(batch)
           F(g, m) == [k \in 0 .. m |-> IF k = 0 THEN r
                                        ELSE pump_envelope(g[k - 1], batch[k])]
           Bad == {m \in 0 .. N : ~ \E g : g = F(g, m)}
           sol == CHOOSE g : g = F(g, N)
<1>1. pump_inbound(r, batch) = sol[N]
  BY DEF pump_inbound
<1>2. N \in Nat
  OBVIOUS
<1> HIDE DEF N
<1>3. Bad = {}
  <2> SUFFICES ASSUME Bad # {} PROVE FALSE
    OBVIOUS
  <2> DEFINE m == Min(Bad)
  <2>1. m \in Bad /\ \A x \in Bad : m <= x
    <3>1. Bad \subseteq Nat
      BY <1>2
    <3> HIDE DEF Bad
    <3>2. QED
      BY <3>1, MinIsLeast
  <2>2. m \in 0 .. N
    BY <2>1
  <2> HIDE DEF m
  <2>3. m # 0
    <3> SUFFICES ASSUME m = 0 PROVE FALSE
      OBVIOUS
    <3> DEFINE g == [k \in 0 .. 0 |-> r]
    <3>1. g = F(g, 0)
      OBVIOUS
    <3>2. QED
      BY <2>1, <3>1
  <2>4. m - 1 \in 0 .. N /\ m - 1 \notin Bad
    <3> HIDE DEF Bad
    <3>1. QED
      BY <1>2, <2>1, <2>2, <2>3
  <2>5. PICK g : g = F(g, m - 1)
    BY <2>4
  <2> DEFINE last == pump_envelope(g[m - 1], batch[m])
             gg == [k \in 0 .. m |-> IF k = m THEN last ELSE g[k]]
  <2>6. ASSUME NEW k \in 0 .. m
        PROVE  gg[k] = IF k = 0 THEN r ELSE pump_envelope(gg[k - 1], batch[k])
    <3>1. CASE k = m
      <4>1. gg[k] = last /\ k - 1 \in 0 .. m /\ k - 1 # m
        BY <1>2, <2>2, <2>3, <3>1
      <4>2. gg[k - 1] = g[m - 1]
        BY <3>1, <4>1
      <4>3. QED
        BY <2>3, <3>1, <4>1, <4>2
    <3>2. CASE k # m
      <4>1. k \in 0 .. m - 1 /\ gg[k] = g[k]
        BY <1>2, <2>2, <3>2
      <4>2. g[k] = IF k = 0 THEN r ELSE pump_envelope(g[k - 1], batch[k])
        BY <2>5, <4>1
      <4>3. k # 0 => gg[k - 1] = g[k - 1]
        BY <1>2, <2>2, <4>1
      <4>4. QED
        BY <4>1, <4>2, <4>3
    <3>3. QED
      BY <3>1, <3>2
  <2>7. gg = F(gg, m)
    BY <2>6
  <2>8. QED
    BY <2>1, <2>7
<1>4. sol = F(sol, N)
  <2>1. N \notin Bad /\ N \in 0 .. N
    BY <1>2, <1>3
  <2>2. \E g : g = F(g, N)
    BY <2>1
  <2>3. QED
    BY <2>2
<1> HIDE DEF sol
<1>5. sol[0] = r
  BY <1>2, <1>4
<1>6. ASSUME NEW k \in 1 .. N PROVE sol[k] = pump_envelope(sol[k - 1], batch[k])
  <2>1. k \in 0 .. N /\ k # 0
    BY <1>2
  <2>2. QED
    BY <1>4, <2>1
<1>7. QED
  BY <1>1, <1>5, <1>6 DEF N

\* What a node receives in one call.
Inbound(n, batch, A) ==
  /\ batch \in Seq(Envelope)
  /\ \A k \in DOMAIN batch : Genuine(batch[k], A) /\ batch[k].destination_id = n

\* The whole loop.
LEMMA PumpGood ==
  ASSUME NEW A, A \subseteq RequestRecord, OneRequestEach(A),
         NEW n, NEW r, GoodEngine(n, r, A), NEW batch, Inbound(n, batch, A)
  PROVE  LET s == pump_inbound(r, batch)
         IN  GoodEngine(n, s, A) /\ Keeps(r, s)
<1> DEFINE N == Len(batch)
<1>1. batch \in Seq(Envelope) /\ N \in Nat /\ DOMAIN batch = 1 .. N
  BY DEF Inbound
<1>2. PICK g : /\ g[0] = r
               /\ \A k \in 1 .. N : g[k] = pump_envelope(g[k - 1], batch[k])
               /\ pump_inbound(r, batch) = g[N]
  BY <1>1, PumpLoop
<1> HIDE DEF N
<1> DEFINE Ok(s) == GoodEngine(n, s, A) /\ Keeps(r, s)
           Bad == {k \in 0 .. N : ~Ok(g[k])}
<1>3. Ok(g[0])
  <2>1. r \in RequestReply
    BY DEF GoodEngine
  <2>2. QED
    BY <1>2, <2>1, SameSlots
<1>4. Bad = {}
  <2> SUFFICES ASSUME Bad # {} PROVE FALSE
    OBVIOUS
  <2> DEFINE m == Min(Bad)
  <2>1. m \in Bad /\ \A x \in Bad : m <= x
    <3>1. Bad \subseteq Nat
      BY <1>1
    <3> HIDE DEF Bad
    <3>2. QED
      BY <3>1, MinIsLeast
  <2>2. m \in 0 .. N /\ ~Ok(g[m])
    BY <2>1
  <2> HIDE DEF m
  <2>3. m # 0
    BY <1>3, <2>2
  <2>4. m - 1 \in 0 .. N /\ m - 1 \notin Bad /\ m \in 1 .. N
    BY <1>1, <2>1, <2>2, <2>3
  <2>5. GoodEngine(n, g[m - 1], A) /\ Keeps(r, g[m - 1])
    BY <2>4
  <2>6. g[m] = pump_envelope(g[m - 1], batch[m])
    BY <1>2, <2>4
  <2>7. /\ batch[m] \in Envelope
        /\ Genuine(batch[m], A)
        /\ batch[m].destination_id = n
    BY <1>1, <2>4 DEF Inbound
  <2>8. GoodEngine(n, g[m], A) /\ Keeps(g[m - 1], g[m])
    BY <2>5, <2>6, <2>7, EnvelopeArrives
  <2>9. Keeps(r, g[m])
    BY <2>5, <2>8, KeepsTwice
  <2>10. QED
    BY <2>2, <2>8, <2>9
<1>5. Ok(g[N])
  BY <1>1, <1>4
<1>6. QED
  BY <1>2, <1>5

\* More requests make no engine worse.
LEMMA MoreRequests ==
  ASSUME NEW A, NEW B, A \subseteq B
  PROVE  /\ \A n, r : GoodEngine(n, r, A) => GoodEngine(n, r, B)
         /\ \A m : Genuine(m, A) => Genuine(m, B)
BY DEF GoodEngine, Genuine


\* Slots are emptied: by the sweep, or because their response is handed over.
Freed(r, s, F) ==
  /\ s.m_cid_gen = r.m_cid_gen
  /\ ActiveRequests(s) = ActiveRequests(r) \ F
  /\ \A i \in PendingIndex \ F : s.m_pending[i] = r.m_pending[i]

LEMMA SlotsFreed ==
  ASSUME NEW n, NEW r, NEW A, GoodEngine(n, r, A), NEW F,
         NEW s, s = [r EXCEPT !.m_pending = [i \in PendingIndex |->
                       IF i \in F THEN NoRequest ELSE r.m_pending[i]]]
  PROVE  GoodEngine(n, s, A) /\ Freed(r, s, F)
<1> DEFINE pp == [i \in PendingIndex |-> IF i \in F THEN NoRequest ELSE r.m_pending[i]]
<1>1. r \in RequestReply /\ r.m_pending \in [PendingIndex -> PendingRequest]
  BY DEF GoodEngine, RequestReply
<1>2. pp \in [PendingIndex -> PendingRequest]
  BY <1>1 DEF PendingRequest
<1>3. ASSUME NEW i \in PendingIndex
      PROVE  /\ i \in F => pp[i] = NoRequest
             /\ i \notin F => pp[i] = r.m_pending[i]
  OBVIOUS
<1> HIDE DEF pp
<1>4. s = [r EXCEPT !.m_pending = pp]
  BY DEF pp
<1>5. /\ s \in RequestReply
      /\ s.m_pending = pp
      /\ s.m_cid_gen = r.m_cid_gen
      /\ s.m_request_stash = r.m_request_stash
  BY <1>1, <1>2, <1>4 DEF RequestReply
<1>6. ActiveRequests(s) = ActiveRequests(r) \ F
  <2>1. NoRequest.active = FALSE
    BY DEF NoRequest
  <2>2. ASSUME NEW i \in PendingIndex, i \in F PROVE i \notin ActiveRequests(s)
    BY <1>3, <1>5, <2>1, <2>2 DEF ActiveRequests
  <2>3. ASSUME NEW i \in PendingIndex, i \notin F
        PROVE  i \in ActiveRequests(s) <=> i \in ActiveRequests(r)
    BY <1>3, <1>5, <2>3 DEF ActiveRequests
  <2>4. ActiveRequests(s) \subseteq PendingIndex /\ ActiveRequests(r) \subseteq PendingIndex
    BY DEF ActiveRequests
  <2>5. QED
    BY <2>2, <2>3, <2>4
<1>7. Freed(r, s, F)
  BY <1>3, <1>5, <1>6 DEF Freed
<1>8. ASSUME NEW i \in ActiveRequests(s)
      PROVE  i \in ActiveRequests(r) /\ s.m_pending[i] = r.m_pending[i]
  BY <1>3, <1>5, <1>6 DEF ActiveRequests
<1>9. ASSUME NEW i \in ActiveRequests(s), NEW j \in ActiveRequests(s),
             s.m_pending[i].correlation_id = s.m_pending[j].correlation_id
      PROVE  i = j
  BY <1>8, <1>9 DEF GoodEngine
<1>10. ASSUME NEW i \in ActiveRequests(s)
       PROVE  \E q \in A : q.client = n /\ WaitsFor(s.m_pending[i], q)
  BY <1>8 DEF GoodEngine
<1>11. \A k \in DOMAIN s.m_request_stash : \E q \in A : IsStashed(s.m_request_stash[k], q)
  BY <1>5 DEF GoodEngine
<1>12. GoodEngine(n, s, A)
  BY <1>5, <1>9, <1>10, <1>11 DEF GoodEngine
<1>13. QED
  BY <1>7, <1>12

\* receive_response() hands over the response of the slot with this correlation id,
\* which is an answer to the request that was sent under it, or nothing.
HandedOver(n, r, cid, t, A) ==
  \/ t.rr = r /\ t.out = {}
  \/ \E i \in ActiveRequests(r), q \in A :
       /\ Freed(r, t.rr, {i})
       /\ r.m_pending[i].correlation_id = cid
       /\ \A j \in ActiveRequests(r) : r.m_pending[j].correlation_id = cid => j = i
       /\ t.out = r.m_pending[i].stash
       /\ q.client = n
       /\ q.correlation_id = cid
       /\ t.out = {<<Answer(q.cell)>>}

LEMMA ReceiveGood ==
  ASSUME NEW n, NEW r, NEW A, GoodEngine(n, r, A), NEW cid
  PROVE  LET t == receive_response(r, cid)
         IN  GoodEngine(n, t.rr, A) /\ HandedOver(n, r, cid, t, A)
<1> DEFINE found == find_pending(r, cid)
           i == Min(found)
           t == receive_response(r, cid)
<1>1. CASE found = {} \/ r.m_pending[i].stash = {}
  <2>1. t.rr = r /\ t.out = {}
    BY <1>1 DEF receive_response
  <2>2. QED
    BY <2>1 DEF HandedOver
<1>2. CASE ~(found = {} \/ r.m_pending[i].stash = {})
  <2>1. t.rr = [r EXCEPT !.m_pending[i] = NoRequest] /\ t.out = r.m_pending[i].stash
    BY <1>2 DEF receive_response
  <2>2. r.m_pending[i].stash # {}
    BY <1>2
  <2>3. /\ i \in ActiveRequests(r)
        /\ r.m_pending[i].correlation_id = cid
        /\ \A j \in ActiveRequests(r) : r.m_pending[j].correlation_id = cid => j = i
    BY <1>2, FoundSlot
  <2> HIDE DEF i, t, found
  <2>4. r \in RequestReply /\ r.m_pending \in [PendingIndex -> PendingRequest]
    BY DEF GoodEngine, RequestReply
  <2>5. [r.m_pending EXCEPT ![i] = NoRequest] =
          [j \in PendingIndex |-> IF j \in {i} THEN NoRequest ELSE r.m_pending[j]]
    BY <2>4
  <2>6. t.rr = [r EXCEPT !.m_pending = [j \in PendingIndex |->
                  IF j \in {i} THEN NoRequest ELSE r.m_pending[j]]]
    BY <2>1, <2>5
  <2>7. GoodEngine(n, t.rr, A) /\ Freed(r, t.rr, {i})
    BY <2>6, SlotsFreed
  <2>8. PICK q \in A : q.client = n /\ WaitsFor(r.m_pending[i], q)
    BY <2>3 DEF GoodEngine
  <2>9. q.correlation_id = cid /\ t.out = {<<Answer(q.cell)>>}
    BY <2>1, <2>2, <2>3, <2>8 DEF WaitsFor
  <2>10. HandedOver(n, r, cid, t, A)
    BY <2>1, <2>3, <2>7, <2>8, <2>9 DEF HandedOver
  <2>11. QED
    BY <2>7, <2>10 DEF t
<1>3. QED
  BY <1>1, <1>2


\* The envelope that goes out: the header is put before the application's cell.
LEMMA WireEnvelope ==
  ASSUME NEW env \in Envelope, NEW cell \in Nat, env.payload = <<cell>>,
         NEW kind \in Nat, NEW cid \in Nat, NEW class \in Reliability, NEW expiry \in Nat,
         NEW out, out = RREnvelope(env, kind, cid, class, expiry), out.payload # <<>>
  PROVE  /\ out \in Envelope
         /\ out.payload = <<kind, cid, 0, cell>>
         /\ out.source_id = env.source_id
         /\ out.destination_id = env.destination_id
         /\ out.expiry_time_us = expiry
<1> DEFINE raw == build_wire_payload(kind, cid, <<cell>>)
           mt == "DATA"
<1>1. out = [env EXCEPT !.message_type = mt, !.reliability_class = class,
                        !.expiry_time_us = expiry, !.payload = raw]
  BY DEF RREnvelope
<1>2. mt \in Type
  BY DEF Type
<1>3. raw = <<>> \/ raw = <<kind, cid, 0>> \o <<cell>>
  BY DEF build_wire_payload
<1>4. <<kind, cid, 0>> \o <<cell>> = <<kind, cid, 0, cell>>
  <2> DEFINE h == <<kind, cid, 0>>
             e == <<cell>>
             z == h \o e
             w == <<kind, cid, 0, cell>>
  <2>1. /\ h \in Seq(Nat) /\ Len(h) = 3
        /\ h[1] = kind /\ h[2] = cid /\ h[3] = 0
        /\ e \in Seq(Nat) /\ Len(e) = 1 /\ e[1] = cell
    OBVIOUS
  <2>2. /\ w \in Seq(Nat) /\ Len(w) = 4
        /\ w[1] = kind /\ w[2] = cid /\ w[3] = 0 /\ w[4] = cell
    OBVIOUS
  <2> HIDE DEF h, e, w
  <2>3. /\ z \in Seq(Nat)
        /\ Len(z) = Len(h) + Len(e)
        /\ \A i \in 1 .. Len(h) + Len(e) : z[i] = IF i <= Len(h) THEN h[i] ELSE e[i - Len(h)]
    BY <2>1, ConcatProperties
  <2> HIDE DEF z
  <2>4. z[1] = h[1] /\ z[2] = h[2] /\ z[3] = h[3] /\ z[4] = e[1] /\ Len(z) = 4
    BY <2>1, <2>3
  <2>5. z = w
    <3>1. \A i \in 1 .. 4 : i = 1 \/ i = 2 \/ i = 3 \/ i = 4
      OBVIOUS
    <3>2. \A i \in 1 .. Len(z) : z[i] = w[i]
      BY <2>1, <2>2, <2>4, <3>1
    <3>3. QED
      BY <2>2, <2>3, <2>4, <3>2, SeqEqual
  <2>6. QED
    BY <2>5 DEF z, w, h, e
<1> HIDE DEF raw, mt
<1>5. out.payload = raw
  BY <1>1 DEF Envelope
<1>6. raw = <<kind, cid, 0, cell>> /\ raw \in Seq(Nat)
  <2>1. raw = <<kind, cid, 0, cell>>
    BY <1>3, <1>4, <1>5
  <2>2. <<kind, cid, 0, cell>> \in Seq(Nat)
    OBVIOUS
  <2>3. QED
    BY <2>1, <2>2
<1>7. out \in Envelope
  BY <1>1, <1>2, <1>6 DEF Envelope
<1>8. /\ out.source_id = env.source_id
      /\ out.destination_id = env.destination_id
      /\ out.expiry_time_us = expiry
  BY <1>1 DEF Envelope
<1>9. QED
  BY <1>5, <1>6, <1>7, <1>8

\* send_request() sends nothing and leaves the slots alone, or it sends the request q
\* and a free slot waits for its response.
NothingSent(r, t) ==
  /\ t.wire = {}
  /\ t.rr.m_pending = r.m_pending
  /\ t.rr.m_cid_gen \in {r.m_cid_gen, r.m_cid_gen + 1}

RequestSent(r, t, q) ==
  /\ \E m \in Envelope : t.wire = {m} /\ IsRequest(m, q)
  /\ t.rr.m_cid_gen = r.m_cid_gen + 1
  /\ \E i \in PendingIndex \ ActiveRequests(r) :
       /\ ActiveRequests(t.rr) = ActiveRequests(r) \union {i}
       /\ t.rr.m_pending[i].correlation_id = q.correlation_id
       /\ \A j \in ActiveRequests(r) : t.rr.m_pending[j] = r.m_pending[j]

LEMMA SendGood ==
  ASSUME NEW n \in Client, NEW r, NEW A, GoodEngine(n, r, A),
         r.m_cid_gen < CID_MAX,
         \A p \in A : p.client = n => p.correlation_id < r.m_cid_gen,
         NEW cell \in Nat, NEW env \in Envelope, env.source_id = n,
         env.destination_id = Server, env.payload = <<cell>>,
         NEW timeout \in Nat, NEW now \in Nat, NEW tx
  PROVE  LET t == send_request(r, env, timeout, now, tx)
             q == [client |-> n, correlation_id |-> r.m_cid_gen, cell |-> cell]
         IN  \/ GoodEngine(n, t.rr, A) /\ NothingSent(r, t)
             \/ GoodEngine(n, t.rr, A \union {q}) /\ RequestSent(r, t, q)
<1> DEFINE cid == r.m_cid_gen
           q == [client |-> n, correlation_id |-> cid, cell |-> cell]
           free == find_free_pending(r)
           dl == Deadline(timeout, now)
           out == RREnvelope(env, RRKind_REQUEST, cid, "RELIABLE_RETRY", dl)
           gen == cid + 1
           next == [r EXCEPT !.m_cid_gen = gen]
           t == send_request(r, env, timeout, now, tx)
           t0 == [res |-> "ERR_FULL", rr |-> r, wire |-> {}]
           t1 == [res |-> "ERR_FULL", rr |-> next, wire |-> {}]
           t2 == [res |-> tx, rr |-> next, wire |-> {}]
           slot == [active |-> TRUE, correlation_id |-> cid,
                    expires_us |-> out.expiry_time_us, stash |-> {}]
           i == Min(free)
           t3 == [res |-> "OK", rr |-> [next EXCEPT !.m_pending[i] = slot], wire |-> {out}]
<1>1. r \in RequestReply /\ cid \in 1 .. CID_MAX /\ CID_MAX \in Nat
  BY RequestReplyAssumption DEF GoodEngine, RequestReply
<1>2. [r EXCEPT !.m_cid_gen = IF @ = CID_MAX THEN 1 ELSE @ + 1] = next
  BY <1>1
<1>3. \/ t = t0 \/ t = t1 \/ t = t2
      \/ t = t3 /\ free # {} /\ out.payload # <<>>
  BY <1>2 DEF send_request, NewCid
<1>4. /\ next \in RequestReply
      /\ next.m_pending = r.m_pending
      /\ next.m_cid_gen = gen
      /\ next.m_request_stash = r.m_request_stash
  <2>1. gen \in 1 .. CID_MAX
    BY <1>1
  <2> HIDE DEF gen
  <2>2. QED
    BY <1>1, <2>1 DEF RequestReply
<1>5. ActiveRequests(next) = ActiveRequests(r)
  BY <1>4 DEF ActiveRequests
<1>6. CASE t = t0 \/ t = t1 \/ t = t2
  <2>1. t.wire = {} /\ (t.rr = r \/ t.rr = next)
    BY <1>6
  <2>2. GoodEngine(n, next, A)
    BY <1>4, <1>5 DEF GoodEngine
  <2>3. NothingSent(r, t)
    BY <1>4, <2>1 DEF NothingSent
  <2>4. GoodEngine(n, t.rr, A)
    BY <2>1, <2>2
  <2>5. QED
    BY <2>3, <2>4
<1>7. CASE t = t3 /\ free # {} /\ out.payload # <<>>
  <2>1. dl \in Nat
    BY DEF Deadline
  <2>2. /\ out \in Envelope
        /\ out.payload = <<RRKind_REQUEST, cid, 0, cell>>
        /\ out.source_id = n
        /\ out.destination_id = Server
        /\ out.expiry_time_us = dl
    <3>1. "RELIABLE_RETRY" \in Reliability /\ RRKind_REQUEST \in Nat /\ cid \in Nat
      BY <1>1 DEF Reliability, RRKind_REQUEST
    <3> HIDE DEF dl
    <3>2. QED
      BY <1>7, <2>1, <3>1, WireEnvelope
  <2> HIDE DEF out, dl
  <2>3. i \in free /\ free = PendingIndex \ ActiveRequests(r)
    <3>1. free = PendingIndex \ ActiveRequests(r) /\ free \subseteq Nat
      BY <1>1, SlotFacts DEF find_free_pending
    <3> HIDE DEF free
    <3>2. QED
      BY <1>7, <3>1, MinIsLeast
  <2>4. slot \in ActiveSlot /\ slot.correlation_id = cid /\ slot.stash = {}
    BY <1>1, <2>1, <2>2 DEF ActiveSlot
  <2>5. slot.active = TRUE
    OBVIOUS
  <2> HIDE DEF slot, i, free
  <2> DEFINE p == r.m_pending
             pp == [p EXCEPT ![i] = slot]
             s == [next EXCEPT !.m_pending[i] = slot]
  <2>6. p \in [PendingIndex -> PendingRequest] /\ i \in PendingIndex
    BY <1>1, <2>3 DEF RequestReply
  <2>7. pp \in [PendingIndex -> PendingRequest]
    <3>1. slot \in PendingRequest
      BY <2>4 DEF ActiveSlot, PendingRequest
    <3>2. QED
      BY <2>6, <3>1
  <2>8. /\ pp[i] = slot
        /\ \A j \in PendingIndex : j # i => pp[j] = p[j]
    BY <2>6
  <2>9. s = [next EXCEPT !.m_pending = pp]
    BY <1>4
  <2> HIDE DEF pp, next, s
  <2>10. /\ s \in RequestReply
         /\ s.m_pending = pp
         /\ s.m_cid_gen = gen
         /\ s.m_request_stash = r.m_request_stash
    BY <1>4, <2>7, <2>9 DEF RequestReply
  <2>11. ASSUME NEW j \in ActiveRequests(r)
         PROVE  j \in PendingIndex /\ j # i /\ s.m_pending[j] = r.m_pending[j]
    <3>1. j \in PendingIndex /\ j # i
      BY <2>3 DEF ActiveRequests
    <3>2. QED
      BY <2>8, <2>10, <3>1
  <2>12. ActiveRequests(s) = ActiveRequests(r) \union {i}
    <3>1. i \in ActiveRequests(s)
      BY <2>5, <2>6, <2>8, <2>10 DEF ActiveRequests
    <3>2. ASSUME NEW j \in PendingIndex, j # i
          PROVE  s.m_pending[j] = r.m_pending[j]
      BY <2>8, <2>10, <3>2
    <3>3. ActiveRequests(r) \subseteq PendingIndex /\ ActiveRequests(s) \subseteq PendingIndex
      BY DEF ActiveRequests
    <3>4. ASSUME NEW j \in PendingIndex, j # i
          PROVE  j \in ActiveRequests(s) <=> j \in ActiveRequests(r)
      BY <3>2, <3>4 DEF ActiveRequests
    <3>5. QED
      BY <3>1, <3>3, <3>4
  <2>13. t.wire = {out} /\ t.rr = s
    BY <1>7 DEF s
  <2>14. /\ q.client = n
         /\ q.correlation_id = cid
         /\ q.cell = cell
    OBVIOUS
  <2> HIDE DEF q, t
  <2>15. RequestSent(r, t, q)
    <3>1. IsRequest(out, q)
      BY <2>2, <2>14 DEF IsRequest
    <3>2. s.m_pending[i].correlation_id = q.correlation_id
      BY <2>4, <2>8, <2>10, <2>14
    <3>3. i \in PendingIndex \ ActiveRequests(r)
      BY <2>3
    <3>4. QED
      BY <2>2, <2>10, <2>11, <2>12, <2>13, <3>1, <3>2, <3>3 DEF RequestSent
  <2>16. ASSUME NEW j \in ActiveRequests(r)
         PROVE  /\ s.m_pending[j].correlation_id # cid
                /\ \E k \in A \union {q} : k.client = n /\ WaitsFor(s.m_pending[j], k)
    <3>1. PICK k \in A : k.client = n /\ WaitsFor(r.m_pending[j], k)
      BY DEF GoodEngine
    <3>2. r.m_pending[j].correlation_id = k.correlation_id
      BY <3>1 DEF WaitsFor
    <3>3. k.correlation_id < cid
      BY <3>1
    <3>4. r.m_pending[j].correlation_id \in Nat
      <4>1. r.m_pending[j] \in ActiveSlot
        BY <1>1, SlotFacts
      <4>2. r.m_pending[j].correlation_id \in 1 .. CID_MAX
        BY <4>1 DEF ActiveSlot
      <4>3. QED
        BY <1>1, <4>2
    <3>5. r.m_pending[j].correlation_id # cid
      BY <1>1, <3>2, <3>3, <3>4
    <3>6. QED
      BY <2>11, <3>1, <3>5
  <2>17. s.m_pending[i].correlation_id = cid /\ WaitsFor(s.m_pending[i], q)
    BY <2>4, <2>8, <2>10, <2>14 DEF WaitsFor
  <2>18. ASSUME NEW j \in ActiveRequests(s), NEW k \in ActiveRequests(s),
                s.m_pending[j].correlation_id = s.m_pending[k].correlation_id
         PROVE  j = k
    <3>1. CASE j = i /\ k = i
      BY <3>1
    <3>2. CASE j \in ActiveRequests(r) /\ k = i
      BY <2>16, <2>17, <2>18, <3>2
    <3>3. CASE j = i /\ k \in ActiveRequests(r)
      BY <2>16, <2>17, <2>18, <3>3
    <3>4. CASE j \in ActiveRequests(r) /\ k \in ActiveRequests(r)
      BY <2>11, <2>18, <3>4 DEF GoodEngine
    <3>5. QED
      BY <2>12, <3>1, <3>2, <3>3, <3>4
  <2>19. ASSUME NEW j \in ActiveRequests(s)
         PROVE  \E k \in A \union {q} : k.client = n /\ WaitsFor(s.m_pending[j], k)
    BY <2>12, <2>14, <2>16, <2>17
  <2>20. \A k \in DOMAIN s.m_request_stash :
           \E p1 \in A \union {q} : IsStashed(s.m_request_stash[k], p1)
    BY <2>10 DEF GoodEngine
  <2>21. GoodEngine(n, s, A \union {q})
    BY <2>10, <2>18, <2>19, <2>20 DEF GoodEngine
  <2>22. QED
    BY <2>13, <2>15, <2>21 DEF q, t
<1>8. QED
  BY <1>3, <1>6, <1>7

-----------------------------------------------------------------------------
(* The steps of the system. *)

LEMMA InitInvariant == Init => IInv
<1> SUFFICES ASSUME Init PROVE IInv
  OBVIOUS
<1> USE DEF Init
<1>1. RRInit \in RequestReply /\ RRInit.m_cid_gen = 1 /\ DOMAIN RRInit.m_request_stash = {}
  <2> DEFINE p == [i \in PendingIndex |-> NoRequest]
  <2>1. p \in [PendingIndex -> PendingRequest]
    BY DEF PendingRequest
  <2>2. 1 \in 1 .. CID_MAX
    BY RequestReplyAssumption
  <2> HIDE DEF p
  <2>3. QED
    BY <2>1, <2>2 DEF RRInit, RequestReply, p
<1>2. ActiveRequests(RRInit) = {}
  BY DEF ActiveRequests, RRInit, NoRequest
<1>3. ASSUME NEW n \in Node PROVE rr[n] = RRInit
  OBVIOUS
<1>4. ASSUME NEW c \in Client PROVE answers[c] = <<>> /\ Range(answers[c]) = {}
  BY DEF Range
<1>5. MaxMessages \in Nat
  BY RequestReplySystemAssumption
<1>6. TypeOK
  <2>1. rr \in [Node -> RequestReply]
    BY <1>1
  <2>2. answers \in [Client -> Seq([correlation_id : 1 .. CID_MAX, payload : Seq(Nat)])]
    OBVIOUS
  <2>3. QED
    BY <1>5, <2>1, <2>2 DEF TypeOK
<1>7. \A n \in Node : GoodEngine(n, rr[n], asked)
  BY <1>1, <1>2, <1>3 DEF GoodEngine
<1>8. FreshIds
  BY <1>1, <1>3 DEF FreshIds
<1>9. ResponseMatches
  <2> SUFFICES ASSUME NEW c \in Client
               PROVE  IsInjective([i \in DOMAIN answers[c] |-> answers[c][i].correlation_id])
    BY <1>4 DEF ResponseMatches
  <2>1. DOMAIN answers[c] = {}
    BY <1>4
  <2>2. QED
    BY <2>1 DEF IsInjective
<1>10. AnsweredIsDone /\ OneRequestEach(asked)
  BY <1>4 DEF AnsweredIsDone, OneRequestEach
<1>11. QED
  BY <1>6, <1>7, <1>8, <1>9, <1>10 DEF IInv

\* What a pump receives came from the network, which loses it and gains nothing.
LEMMA BatchFacts ==
  ASSUME TypeOK, \A m \in net : Genuine(m, asked), NEW n, NEW batch \in Batches(n)
  PROVE  Inbound(n, batch, asked) /\ (Pump(batch) => net' \subseteq net)
<1>1. PICK k \in 0 .. MAX_STASH_SIZE : batch \in [1 .. k -> Deliverable(n)]
  BY DEF Batches
<1>2. k \in Nat
  BY RequestReplyAssumption
<1>3. batch \in Seq(Deliverable(n)) /\ DOMAIN batch = 1 .. k
  BY <1>1, <1>2
<1>4. Deliverable(n) \subseteq net /\ \A m \in Deliverable(n) : m.destination_id = n
  BY DEF Deliverable
<1>5. batch \in Seq(Envelope)
  BY <1>1, <1>2, <1>4 DEF TypeOK
<1>6. ASSUME NEW j \in DOMAIN batch PROVE batch[j] \in Deliverable(n)
  BY <1>1
<1>7. Inbound(n, batch, asked)
  BY <1>4, <1>5, <1>6 DEF Inbound
<1>8. Range(batch) \subseteq net
  BY <1>4, <1>6 DEF Range
<1>9. Pump(batch) => net' \subseteq net
  BY <1>8 DEF Pump
<1>10. QED
  BY <1>7, <1>9

\* The histories after a step that adds no answer and frees slots at most.
LEMMA NoNewAnswer ==
  ASSUME IInv, answers' = answers, asked \subseteq asked',
         \A c \in Client : \A i \in ActiveRequests(rr'[c]) :
           \/ \E j \in ActiveRequests(rr[c]) :
                rr[c].m_pending[j].correlation_id = rr'[c].m_pending[i].correlation_id
           \/ \A a \in Range(answers[c]) :
                a.correlation_id # rr'[c].m_pending[i].correlation_id
  PROVE  AnsweredIsDone' /\ ResponseMatches'
<1>1. AnsweredIsDone'
  BY DEF IInv, AnsweredIsDone
<1>2. ResponseMatches'
  BY DEF IInv, ResponseMatches
<1>3. QED
  BY <1>1, <1>2

\* A step that gives node n the engine s, sends and asks nothing, and keeps the
\* histories in order, keeps the invariant.
LEMMA EngineStep ==
  ASSUME IInv, NEW n \in Node, NEW s, GoodEngine(n, s, asked),
         s.m_cid_gen = rr[n].m_cid_gen,
         rr' = [rr EXCEPT ![n] = s], net' \subseteq net, asked' = asked, ids' = ids,
         clock' \in Nat,
         taken' \subseteq StashedRequest,
         \A x \in taken' : \E q \in asked : IsStashed(x, q),
         answers' \in [Client -> Seq([correlation_id : 1 .. CID_MAX, payload : Seq(Nat)])],
         AnsweredIsDone', ResponseMatches'
  PROVE  IInv'
<1>1. /\ rr \in [Node -> RequestReply]
      /\ net \subseteq Envelope
      /\ ids \in 0 .. MaxMessages
      /\ asked \subseteq RequestRecord
  BY DEF IInv, TypeOK
<1>2. s \in RequestReply
  BY DEF GoodEngine
<1>3. rr' \in [Node -> RequestReply] /\ rr'[n] = s /\ \A k \in Node : k # n => rr'[k] = rr[k]
  BY <1>1, <1>2
<1>4. TypeOK'
  BY <1>1, <1>3 DEF TypeOK
<1>5. \A k \in Node : rr'[k].m_cid_gen = rr[k].m_cid_gen
  BY <1>3
<1>6. FreshIds'
  <2>1. \A q \in asked : q.client \in Node
    BY <1>1 DEF RequestRecord, Client
  <2>2. FreshIds
    BY DEF IInv
  <2>3. QED
    BY <1>5, <2>1, <2>2 DEF FreshIds
<1>7. ASSUME NEW k \in Node PROVE GoodEngine(k, rr'[k], asked')
  <2>1. GoodEngine(k, rr[k], asked)
    BY DEF IInv
  <2>2. CASE k = n
    BY <1>3, <2>2
  <2>3. CASE k # n
    BY <1>3, <2>1, <2>3
  <2>4. QED
    BY <2>2, <2>3
<1>8. OneRequestEach(asked') /\ \A m \in net' : Genuine(m, asked')
  BY DEF IInv
<1>9. QED
  BY <1>4, <1>6, <1>7, <1>8 DEF IInv


\* The next message is an envelope.
LEMMA NextMessage ==
  ASSUME TypeOK, NEW tx, Count(tx), NEW src \in Node, NEW dst \in Node, NEW cell \in Nat
  PROVE  LET m == NewMessage(src, dst, cell)
         IN  /\ m \in Envelope
             /\ m.source_id = src
             /\ m.destination_id = dst
             /\ m.payload = <<cell>>
             /\ Len(m.payload) < RR_HEADER_SIZE
             /\ ids + 1 \in Nat
             /\ ids + 1 <= MaxMessages
             /\ ids' = ids + 1
             /\ ids' \in 0 .. MaxMessages
<1>1. /\ ids \in 0 .. MaxMessages /\ ids < MaxMessages /\ MaxMessages \in Nat
      /\ ids' = ids + 1
  BY RequestReplySystemAssumption DEF TypeOK, Count
<1>2. ids + 1 \in MessageId
  BY <1>1, SessionAssumption
<1>3. <<cell>> \in Seq(Nat) /\ Len(<<cell>>) = 1
  OBVIOUS
<1> DEFINE m == NewMessage(src, dst, cell)
           i == ids + 1
<1>4. m \in Envelope
  <2>1. "DATA" \in Type /\ "BEST_EFFORT" \in Reliability
    BY DEF Type, Reliability
  <2>2. i \in MessageId /\ m = [message_type |-> "DATA", message_id |-> i,
     source_id |-> src, destination_id |-> dst, sequence_num |-> 0,
     reliability_class |-> "BEST_EFFORT", expiry_time_us |-> 0, payload |-> <<cell>>,
     fragment_index |-> 0, fragment_count |-> 1, total_payload_length |-> 1]
    BY <1>2 DEF NewMessage
  <2> HIDE DEF i, m
  <2>3. QED
    BY <1>3, <2>1, <2>2 DEF Envelope
<1>5. m.source_id = src /\ m.destination_id = dst /\ m.payload = <<cell>>
  BY DEF NewMessage
<1>6. QED
  BY <1>1, <1>3, <1>4, <1>5 DEF RR_HEADER_SIZE

LEMMA SendRequestStep ==
  ASSUME IInv, NEW c \in Client, NEW timeout \in Timeout, NEW tx,
         SendRequest(c, timeout, tx)
  PROVE  IInv'
<1> DEFINE cell == ids + 1
           env == NewMessage(c, Server, cell)
           r == rr[c]
           t == send_request(r, env, timeout, clock, tx)
           q == [client |-> c, correlation_id |-> r.m_cid_gen, cell |-> cell]
           new == {[client |-> c, correlation_id |-> m.payload[2], cell |-> ids + 1] : m \in t.wire}
<1>1. /\ TypeOK
      /\ Count(tx)
      /\ rr' = [rr EXCEPT ![c] = t.rr]
      /\ net' = net \union t.wire
      /\ asked' = asked \union new
      /\ UNCHANGED <<clock, duplicated, taken, answers>>
  BY DEF SendRequest, IInv
<1>2. /\ c \in Node /\ Server \in Node /\ timeout \in Nat /\ clock \in Nat
      /\ ids \in Nat /\ cell \in Nat
      /\ rr \in [Node -> RequestReply]
      /\ asked \subseteq RequestRecord
      /\ r.m_cid_gen \in 1 .. CID_MAX
  BY <1>1, RequestReplySystemAssumption DEF Client, TypeOK, RequestReply
<1>3. /\ env \in Envelope
      /\ env.source_id = c
      /\ env.destination_id = Server
      /\ env.payload = <<cell>>
      /\ ids + 1 <= MaxMessages
      /\ ids' = ids + 1
      /\ ids' \in 0 .. MaxMessages
  BY <1>1, <1>2, NextMessage
<1>4. /\ GoodEngine(c, r, asked)
      /\ FreshIds
      /\ r.m_cid_gen <= ids + 1
      /\ \A p \in asked : p.client = c => p.correlation_id < r.m_cid_gen
  BY <1>2 DEF IInv, FreshIds
<1>5. /\ MaxMessages \in Nat /\ CID_MAX \in Nat /\ MaxMessages < CID_MAX
      /\ r.m_cid_gen \in Nat
  BY <1>2, RequestReplyAssumption, RequestReplySystemAssumption, SessionAssumption
<1>6. r.m_cid_gen < CID_MAX
  BY <1>2, <1>3, <1>4, <1>5
<1>7. \/ GoodEngine(c, t.rr, asked) /\ NothingSent(r, t)
      \/ GoodEngine(c, t.rr, asked \union {q}) /\ RequestSent(r, t, q)
  <2> HIDE DEF env, cell, r
  <2>1. QED
    BY <1>2, <1>3, <1>4, <1>6, SendGood
<1> HIDE DEF t, env
<1>8. ASSUME GoodEngine(c, t.rr, asked'), asked \subseteq asked', asked' \subseteq RequestRecord,
             OneRequestEach(asked'),
             t.rr.m_cid_gen \in {r.m_cid_gen, r.m_cid_gen + 1},
             \A p \in asked' : p.client = c => p.correlation_id < t.rr.m_cid_gen,
             \A p \in asked' : p.client # c => p \in asked,
             \A m \in t.wire : m \in Envelope /\ Genuine(m, asked'),
             \A i \in ActiveRequests(t.rr) :
               \/ \E j \in ActiveRequests(r) :
                    r.m_pending[j].correlation_id = t.rr.m_pending[i].correlation_id
               \/ t.rr.m_pending[i].correlation_id = r.m_cid_gen
      PROVE  IInv'
  <2>1. t.rr \in RequestReply
    BY <1>8 DEF GoodEngine
  <2>2. /\ rr' \in [Node -> RequestReply]
        /\ rr'[c] = t.rr
        /\ \A k \in Node : k # c => rr'[k] = rr[k]
    BY <1>1, <1>2, <2>1
  <2>3. TypeOK'
    <3>1. net' \subseteq Envelope
      BY <1>1, <1>8 DEF TypeOK
    <3>2. QED
      BY <1>1, <1>3, <1>8, <2>2, <3>1 DEF TypeOK
  <2>4. FreshIds'
    <3>1. ASSUME NEW k \in Node PROVE rr'[k].m_cid_gen <= ids' + 1
      <4>1. rr[k].m_cid_gen \in Nat /\ rr[k].m_cid_gen <= ids + 1
        BY <1>2, <1>4, RequestReplyAssumption DEF FreshIds, RequestReply
      <4>2. rr'[k].m_cid_gen = rr[k].m_cid_gen \/ rr'[k].m_cid_gen = rr[k].m_cid_gen + 1
        BY <1>8, <2>2
      <4>3. QED
        BY <1>2, <1>3, <4>1, <4>2
    <3>2. ASSUME NEW p \in asked' PROVE p.correlation_id < rr'[p.client].m_cid_gen
      <4>1. CASE p.client = c
        BY <1>8, <2>2, <4>1
      <4>2. CASE p.client # c
        <5>1. p \in asked /\ p.client \in Node
          BY <1>8, <4>2 DEF RequestRecord, Client
        <5>2. QED
          BY <1>4, <2>2, <4>2, <5>1 DEF FreshIds
      <4>3. QED
        BY <4>1, <4>2
    <3>3. QED
      BY <3>1, <3>2 DEF FreshIds
  <2>5. ASSUME NEW k \in Node PROVE GoodEngine(k, rr'[k], asked')
    <3>1. GoodEngine(k, rr[k], asked')
      <4>1. GoodEngine(k, rr[k], asked)
        BY DEF IInv
      <4>2. QED
        BY <1>8, <4>1, MoreRequests
    <3>2. QED
      BY <1>8, <2>2, <3>1
  <2>6. ASSUME NEW m \in net' PROVE Genuine(m, asked')
    <3>1. CASE m \in net
      <4>1. Genuine(m, asked)
        BY <3>1 DEF IInv
      <4>2. QED
        BY <1>8, <4>1, MoreRequests
    <3>2. CASE m \in t.wire
      BY <1>8, <3>2
    <3>3. QED
      BY <1>1, <3>1, <3>2
  <2>7. \A s \in taken' : \E p \in asked' : IsStashed(s, p)
    BY <1>1, <1>8 DEF IInv
  <2>8. ASSUME NEW a \in Range(answers[c]) PROVE a.correlation_id # r.m_cid_gen
    <3>1. PICK p \in asked : p.client = c /\ p.correlation_id = a.correlation_id
      BY DEF IInv, ResponseMatches
    <3>2. p.correlation_id < r.m_cid_gen /\ p.correlation_id \in 1 .. CID_MAX
      BY <1>2, <1>4, <3>1 DEF RequestRecord
    <3>3. QED
      BY <1>5, <3>1, <3>2
  <2>9. AnsweredIsDone' /\ ResponseMatches'
    <3>1. ASSUME NEW k \in Client, NEW i \in ActiveRequests(rr'[k])
          PROVE  \/ \E j \in ActiveRequests(rr[k]) :
                      rr[k].m_pending[j].correlation_id = rr'[k].m_pending[i].correlation_id
                 \/ \A a \in Range(answers[k]) :
                      a.correlation_id # rr'[k].m_pending[i].correlation_id
      <4>1. CASE k = c
        BY <1>8, <2>2, <2>8, <4>1
      <4>2. CASE k # c
        <5>1. rr'[k] = rr[k]
          BY <2>2, <4>2 DEF Client
        <5>2. QED
          BY <5>1
      <4>3. QED
        BY <4>1, <4>2
    <3>2. answers' = answers
      BY <1>1
    <3>3. QED
      BY <1>8, <3>1, <3>2, NoNewAnswer
  <2>10. QED
    BY <1>8, <2>3, <2>4, <2>5, <2>6, <2>7, <2>9 DEF IInv
<1>9. CASE GoodEngine(c, t.rr, asked) /\ NothingSent(r, t)
  <2>1. /\ t.wire = {}
        /\ t.rr.m_pending = r.m_pending
        /\ t.rr.m_cid_gen \in {r.m_cid_gen, r.m_cid_gen + 1}
    BY <1>9 DEF NothingSent
  <2>2. asked' = asked
    BY <1>1, <2>1
  <2>3. ActiveRequests(t.rr) = ActiveRequests(r)
    BY <2>1 DEF ActiveRequests
  <2>4. ASSUME NEW p \in asked, p.client = c PROVE p.correlation_id < t.rr.m_cid_gen
    <3>1. p.correlation_id \in 1 .. CID_MAX /\ p.correlation_id < r.m_cid_gen
      BY <1>2, <1>4, <2>4 DEF RequestRecord
    <3>2. QED
      BY <1>5, <2>1, <3>1
  <2>5. OneRequestEach(asked)
    BY DEF IInv
  <2> HIDE DEF r
  <2>6. QED
    BY <1>2, <1>8, <1>9, <2>1, <2>2, <2>3, <2>4, <2>5
<1>10. CASE GoodEngine(c, t.rr, asked \union {q}) /\ RequestSent(r, t, q)
  <2>1. PICK m \in Envelope : t.wire = {m} /\ IsRequest(m, q)
    BY <1>10 DEF RequestSent
  <2>2. m.payload[2] = q.correlation_id
    BY <2>1 DEF IsRequest
  <2>3. new = {q}
    BY <2>1, <2>2
  <2>4. q \in RequestRecord
    BY <1>2 DEF RequestRecord
  <2>5. q.client = c /\ q.correlation_id = r.m_cid_gen
    OBVIOUS
  <2> HIDE DEF q, new
  <2>6. asked' = asked \union {q} /\ asked' \subseteq RequestRecord
    BY <1>1, <1>2, <2>3, <2>4
  <2>7. PICK i \in PendingIndex \ ActiveRequests(r) :
          /\ ActiveRequests(t.rr) = ActiveRequests(r) \union {i}
          /\ t.rr.m_pending[i].correlation_id = q.correlation_id
          /\ \A j \in ActiveRequests(r) : t.rr.m_pending[j] = r.m_pending[j]
    BY <1>10 DEF RequestSent
  <2>8. t.rr.m_cid_gen = r.m_cid_gen + 1
    BY <1>10 DEF RequestSent
  <2>9. ASSUME NEW p \in asked, p.client = c
        PROVE  p.correlation_id < r.m_cid_gen /\ p.correlation_id \in Nat
    <3>1. p.correlation_id \in 1 .. CID_MAX
      BY <1>2 DEF RequestRecord
    <3>2. QED
      BY <1>4, <1>5, <2>9, <3>1
  <2>10. OneRequestEach(asked')
    <3> SUFFICES ASSUME NEW x \in asked', NEW y \in asked', x.client = y.client,
                        x.correlation_id = y.correlation_id
                 PROVE  x = y
      BY DEF OneRequestEach
    <3>1. CASE x \in asked /\ y \in asked
      BY <3>1 DEF IInv, OneRequestEach
    <3>2. CASE x = q /\ y \in asked
      BY <1>5, <2>5, <2>9, <3>2
    <3>3. CASE x \in asked /\ y = q
      BY <1>5, <2>5, <2>9, <3>3
    <3>4. CASE x = q /\ y = q
      BY <3>4
    <3>5. QED
      BY <2>6, <3>1, <3>2, <3>3, <3>4
  <2>11. ASSUME NEW p \in asked', p.client = c PROVE p.correlation_id < t.rr.m_cid_gen
    <3>1. CASE p = q
      BY <1>5, <2>5, <2>8, <3>1
    <3>2. CASE p \in asked
      BY <1>5, <2>8, <2>9, <2>11, <3>2
    <3>3. QED
      BY <2>6, <3>1, <3>2
  <2>12. \A p \in asked' : p.client # c => p \in asked
    BY <2>5, <2>6
  <2>13. Genuine(m, asked')
    BY <2>1, <2>6 DEF Genuine
  <2>14. ASSUME NEW j \in ActiveRequests(t.rr)
         PROVE  \/ \E k \in ActiveRequests(r) :
                     r.m_pending[k].correlation_id = t.rr.m_pending[j].correlation_id
                \/ t.rr.m_pending[j].correlation_id = r.m_cid_gen
    BY <2>5, <2>7
  <2>15. asked \subseteq asked' /\ GoodEngine(c, t.rr, asked')
    BY <1>10, <2>6
  <2> HIDE DEF r
  <2>16. QED
    BY <1>8, <2>1, <2>6, <2>8, <2>10, <2>11, <2>12, <2>13, <2>14, <2>15
<1>11. QED
  BY <1>7, <1>9, <1>10


\* A step that sends messages of requests already made, with no effect on an engine.
LEMMA WireStep ==
  ASSUME IInv, rr' = rr, clock' = clock, asked' = asked, answers' = answers,
         ids' \in 0 .. MaxMessages, ids' >= ids,
         taken' \subseteq taken,
         NEW W, net' = net \union W, \A m \in W : m \in Envelope /\ Genuine(m, asked)
  PROVE  IInv'
<1>1. TypeOK'
  BY DEF IInv, TypeOK
<1>2. FreshIds'
  <2>1. ASSUME NEW n \in Node PROVE rr'[n].m_cid_gen <= ids' + 1
    <3>1. rr[n].m_cid_gen \in 1 .. CID_MAX /\ ids \in 0 .. MaxMessages
      BY DEF IInv, TypeOK, RequestReply
    <3>2. rr[n].m_cid_gen <= ids + 1
      BY DEF IInv, FreshIds
    <3>3. QED
      BY <3>1, <3>2, RequestReplyAssumption, RequestReplySystemAssumption
  <2>2. QED
    BY <2>1 DEF IInv, FreshIds
<1>3. AnsweredIsDone' /\ ResponseMatches'
  BY NoNewAnswer
<1>4. \A n \in Node : GoodEngine(n, rr'[n], asked')
  BY DEF IInv
<1>5. QED
  BY <1>1, <1>2, <1>3, <1>4 DEF IInv

LEMMA SendOtherStep ==
  ASSUME IInv, NEW c \in Client, SendOther(c)
  PROVE  IInv'
<1> DEFINE m == NewMessage(c, Server, ids + 1)
<1>1. TypeOK /\ Count("OK") /\ net' = net \union {m}
  BY DEF SendOther, IInv
<1>2. c \in Node /\ Server \in Node /\ ids \in Nat /\ ids + 1 \in Nat
  BY <1>1, RequestReplySystemAssumption DEF Client, TypeOK
<1>3. /\ m \in Envelope
      /\ Len(m.payload) < RR_HEADER_SIZE
      /\ ids' = ids + 1
      /\ ids' \in 0 .. MaxMessages
  BY <1>1, <1>2, NextMessage
<1>4. Genuine(m, asked)
  BY <1>3 DEF Genuine
<1>5. rr' = rr /\ clock' = clock /\ asked' = asked /\ answers' = answers /\ taken' = taken
  BY DEF SendOther
<1>6. ids' >= ids
  BY <1>2, <1>3
<1> DEFINE W == {m}
<1>7. net' = net \union W /\ \A x \in W : x \in Envelope /\ Genuine(x, asked)
  BY <1>1, <1>3, <1>4
<1> HIDE DEF W
<1>8. QED
  BY <1>3, <1>5, <1>6, <1>7, WireStep

LEMMA SendResponseStep ==
  ASSUME IInv, NEW q \in taken, NEW tx, SendResponse(q, tx)
  PROVE  IInv'
<1> DEFINE cell == Answer(q.payload[1])
           env == NewMessage(Server, q.src, cell)
           t == send_response(env, q.correlation_id, clock, tx)
<1>1. /\ TypeOK
      /\ Count(tx)
      /\ net' = net \union t.wire
      /\ taken' = IF t.res = "OK" THEN taken \ {q} ELSE taken
      /\ rr' = rr /\ clock' = clock /\ asked' = asked /\ answers' = answers
  BY DEF SendResponse, IInv
<1>2. PICK p \in asked : IsStashed(q, p)
  BY DEF IInv
<1>3. /\ p.client \in Client /\ p.client \in Node
      /\ p.correlation_id \in 1 .. CID_MAX
      /\ p.cell \in Nat
  BY <1>1 DEF TypeOK, RequestRecord, Client
<1>4. /\ q.src = p.client
      /\ q.correlation_id = p.correlation_id
      /\ q.payload[1] = p.cell
  BY <1>2 DEF IsStashed
<1>5. cell \in Nat /\ cell = Answer(p.cell)
  BY <1>3, <1>4, RequestReplySystemAssumption DEF Answer
<1>6. /\ env \in Envelope
      /\ env.source_id = Server
      /\ env.destination_id = p.client
      /\ env.payload = <<cell>>
      /\ ids' = ids + 1
      /\ ids' \in 0 .. MaxMessages
  <2>1. Server \in Node
    BY RequestReplySystemAssumption
  <2> HIDE DEF cell
  <2>2. QED
    BY <1>1, <1>3, <1>4, <1>5, <2>1, NextMessage
<1>7. ids' >= ids
  BY <1>1, <1>6 DEF TypeOK
<1> DEFINE out == RREnvelope(env, RRKind_RESPONSE, q.correlation_id, "BEST_EFFORT",
                             clock + k_resp_expiry_us)
<1>8. t.wire = {} \/ (t.wire = {out} /\ out.payload # <<>>)
  BY DEF send_response
<1>9. ASSUME out.payload # <<>> PROVE out \in Envelope /\ Genuine(out, asked)
  <2>1. /\ RRKind_RESPONSE \in Nat
        /\ q.correlation_id \in Nat
        /\ "BEST_EFFORT" \in Reliability
        /\ clock + k_resp_expiry_us \in Nat
    BY <1>1, <1>3, <1>4, RequestReplyAssumption DEF TypeOK, RRKind_RESPONSE, Reliability
  <2> HIDE DEF cell, env
  <2>2. /\ out \in Envelope
        /\ out.payload = <<RRKind_RESPONSE, q.correlation_id, 0, cell>>
        /\ out.destination_id = env.destination_id
    BY <1>5, <1>6, <1>9, <2>1, WireEnvelope
  <2> HIDE DEF out
  <2>3. IsResponse(out, p)
    BY <1>4, <1>5, <1>6, <2>2 DEF IsResponse
  <2>4. QED
    BY <2>2, <2>3 DEF Genuine
<1>10. \A m \in t.wire : m \in Envelope /\ Genuine(m, asked)
  BY <1>8, <1>9
<1>11. taken' \subseteq taken
  BY <1>1
<1> HIDE DEF t
<1>12. QED
  BY <1>1, <1>6, <1>7, <1>10, <1>11, WireStep

\* The slots in use of a node after it received a batch and handed over or dropped
\* something else: no engine waits for a request that it did not wait for before.
LEMMA NoNewSlots ==
  ASSUME IInv, NEW n \in Node, NEW s, Keeps(rr[n], s), NEW u, NEW F, Freed(s, u, F),
         u \in RequestReply, rr' = [rr EXCEPT ![n] = u]
  PROVE  \A c \in Client : \A i \in ActiveRequests(rr'[c]) :
           \E j \in ActiveRequests(rr[c]) :
             rr[c].m_pending[j].correlation_id = rr'[c].m_pending[i].correlation_id
<1> SUFFICES ASSUME NEW c \in Client, NEW i \in ActiveRequests(rr'[c])
             PROVE  \E j \in ActiveRequests(rr[c]) :
               rr[c].m_pending[j].correlation_id = rr'[c].m_pending[i].correlation_id
  OBVIOUS
<1>1. rr \in [Node -> RequestReply] /\ c \in Node
  BY DEF IInv, TypeOK, Client
<1>2. CASE c = n
  <2>1. rr'[c] = u
    BY <1>1, <1>2
  <2>2. i \in ActiveRequests(s) /\ i \notin F /\ i \in PendingIndex
    BY <2>1 DEF Freed, ActiveRequests
  <2>3. u.m_pending[i] = s.m_pending[i]
    BY <2>2 DEF Freed
  <2>4. i \in ActiveRequests(rr[n])
        /\ s.m_pending[i].correlation_id = rr[n].m_pending[i].correlation_id
    BY <2>2 DEF Keeps
  <2>5. QED
    BY <1>2, <2>1, <2>3, <2>4
<1>3. CASE c # n
  BY <1>1, <1>3
<1>4. QED
  BY <1>2, <1>3

LEMMA SweepStep ==
  ASSUME IInv, NEW c \in Client, SweepTimeouts(c)
  PROVE  IInv'
<1> DEFINE r == rr[c]
           F == TimedOut(r, clock)
           u == sweep_timeouts(r, clock)
<1>1. c \in Node /\ rr \in [Node -> RequestReply] /\ GoodEngine(c, r, asked) /\ TypeOK
  BY DEF IInv, TypeOK, Client
<1>2. u = [r EXCEPT !.m_pending = [i \in PendingIndex |->
             IF i \in F THEN NoRequest ELSE r.m_pending[i]]]
  BY <1>1 DEF sweep_timeouts, RequestReply
<1> HIDE DEF F, u
<1>3. GoodEngine(c, u, asked) /\ Freed(r, u, F)
  <2> HIDE DEF r
  <2>1. QED
    BY <1>1, <1>2, SlotsFreed
<1>4. rr' = [rr EXCEPT ![c] = u]
  BY DEF SweepTimeouts, u
<1>5. /\ net' = net /\ asked' = asked /\ ids' = ids /\ clock' = clock
      /\ taken' = taken /\ answers' = answers
  BY DEF SweepTimeouts
<1>6. Keeps(r, r) /\ u \in RequestReply
  BY <1>1, <1>3, SameSlots DEF GoodEngine
<1>7. AnsweredIsDone' /\ ResponseMatches'
  BY <1>1, <1>3, <1>4, <1>5, <1>6, NoNewSlots, NoNewAnswer
<1>8. u.m_cid_gen = rr[c].m_cid_gen
  BY <1>3 DEF Freed
<1>9. /\ clock' \in Nat /\ taken' \subseteq StashedRequest
      /\ \A x \in taken' : \E q \in asked : IsStashed(x, q)
      /\ answers' \in [Client -> Seq([correlation_id : 1 .. CID_MAX, payload : Seq(Nat)])]
  BY <1>5 DEF IInv, TypeOK
<1> HIDE DEF r
<1>10. QED
  BY <1>1, <1>3, <1>4, <1>5, <1>7, <1>8, <1>9, EngineStep


\* A request leaves the stash: it is one that was sent.
LEMMA RequestTaken ==
  ASSUME NEW n, NEW r, NEW A, GoodEngine(n, r, A), A \subseteq RequestRecord
  PROVE  LET t == receive_request(r)
         IN  /\ GoodEngine(n, t.rr, A)
             /\ Freed(r, t.rr, {})
             /\ t.out \subseteq StashedRequest
             /\ \A x \in t.out : \E q \in A : IsStashed(x, q)
<1> DEFINE st == r.m_request_stash
           t == receive_request(r)
<1>1. r \in RequestReply /\ st \in Seq(StashedRequest)
  BY DEF GoodEngine, RequestReply
<1>2. CASE st = <<>>
  <2>1. t.rr = r /\ t.out = {}
    BY <1>2 DEF receive_request
  <2>2. QED
    BY <2>1 DEF Freed
<1>3. CASE st # <<>>
  <2> DEFINE tt == Tail(st)
             h == Head(st)
  <2>1. t.rr = [r EXCEPT !.m_request_stash = tt] /\ t.out = {h}
    BY <1>3 DEF receive_request
  <2>2. /\ tt \in Seq(StashedRequest)
        /\ h = st[1] /\ 1 \in DOMAIN st
        /\ h \in StashedRequest
        /\ \A k \in DOMAIN tt : k + 1 \in DOMAIN st /\ tt[k] = st[k + 1]
    BY <1>1, <1>3
  <2> HIDE DEF tt, h, t
  <2> DEFINE s == t.rr
  <2>3. /\ s \in RequestReply
        /\ s.m_pending = r.m_pending
        /\ s.m_cid_gen = r.m_cid_gen
        /\ s.m_request_stash = tt
    BY <1>1, <2>1, <2>2 DEF RequestReply
  <2>4. ActiveRequests(s) = ActiveRequests(r)
    BY <2>3 DEF ActiveRequests
  <2>5. Freed(r, s, {})
    BY <2>3, <2>4 DEF Freed
  <2>6. \A k \in DOMAIN st : \E q \in A : IsStashed(st[k], q)
    BY DEF GoodEngine
  <2>7. \A k \in DOMAIN tt : \E q \in A : IsStashed(tt[k], q)
    BY <2>2, <2>6
  <2>8. GoodEngine(n, s, A)
    BY <2>3, <2>4, <2>7 DEF GoodEngine
  <2>9. QED
    BY <2>1, <2>2, <2>5, <2>6, <2>8 DEF t
<1>4. QED
  BY <1>2, <1>3

\* Another message leaves its stash.
LEMMA OtherTaken ==
  ASSUME NEW n, NEW r, NEW A, GoodEngine(n, r, A)
  PROVE  LET u == receive_non_rr(r).rr
         IN  GoodEngine(n, u, A) /\ Freed(r, u, {})
<1> DEFINE st == r.m_non_rr_stash
           u == receive_non_rr(r).rr
<1>1. r \in RequestReply /\ st \in Seq(Envelope)
  BY DEF GoodEngine, RequestReply
<1>2. CASE st = <<>>
  <2>1. u = r
    BY <1>2 DEF receive_non_rr
  <2>2. QED
    BY <2>1 DEF Freed
<1>3. CASE st # <<>>
  <2> DEFINE tt == Tail(st)
  <2>1. u = [r EXCEPT !.m_non_rr_stash = tt]
    BY <1>3 DEF receive_non_rr
  <2>2. tt \in Seq(Envelope)
    BY <1>1, <1>3
  <2> HIDE DEF tt, u
  <2>3. /\ u \in RequestReply
        /\ u.m_pending = r.m_pending
        /\ u.m_cid_gen = r.m_cid_gen
        /\ u.m_request_stash = r.m_request_stash
    BY <1>1, <2>1, <2>2 DEF RequestReply
  <2>4. ActiveRequests(u) = ActiveRequests(r)
    BY <2>3 DEF ActiveRequests
  <2>5. Freed(r, u, {})
    BY <2>3, <2>4 DEF Freed
  <2>6. GoodEngine(n, u, A)
    BY <2>3, <2>4 DEF GoodEngine
  <2>7. QED
    BY <2>5, <2>6 DEF u
<1>4. QED
  BY <1>2, <1>3

\* A receive call at node n: the pump, then something handed over.
LEMMA ReceiveStep ==
  ASSUME IInv, NEW n \in Node, NEW s, Keeps(rr[n], s), NEW u, GoodEngine(n, u, asked),
         NEW F, Freed(s, u, F),
         rr' = [rr EXCEPT ![n] = u], net' \subseteq net, asked' = asked, ids' = ids,
         clock' = clock, taken' \subseteq StashedRequest,
         \A x \in taken' : \E q \in asked : IsStashed(x, q),
         answers' = answers
  PROVE  IInv'
<1>1. u \in RequestReply
  BY DEF GoodEngine
<1>2. AnsweredIsDone' /\ ResponseMatches'
  BY <1>1, NoNewSlots, NoNewAnswer
<1>3. u.m_cid_gen = rr[n].m_cid_gen
  BY DEF Freed, Keeps
<1>4. /\ clock' \in Nat
      /\ answers' \in [Client -> Seq([correlation_id : 1 .. CID_MAX, payload : Seq(Nat)])]
  BY DEF IInv, TypeOK
<1>5. QED
  BY <1>2, <1>3, <1>4, EngineStep

LEMMA ReceiveRequestStep ==
  ASSUME IInv, NEW batch \in Batches(Server), ReceiveRequest(batch)
  PROVE  IInv'
<1> DEFINE s == pump_inbound(rr[Server], batch)
           t == receive_request(s)
<1>1. Server \in Node
  BY RequestReplySystemAssumption
<1>2. /\ TypeOK /\ GoodEngine(Server, rr[Server], asked) /\ OneRequestEach(asked)
      /\ asked \subseteq RequestRecord
  BY <1>1 DEF IInv, TypeOK
<1>3. Inbound(Server, batch, asked) /\ net' \subseteq net
  BY <1>2, BatchFacts DEF IInv, ReceiveRequest
<1>4. GoodEngine(Server, s, asked) /\ Keeps(rr[Server], s)
  BY <1>2, <1>3, PumpGood
<1>5. /\ rr' = [rr EXCEPT ![Server] = t.rr]
      /\ taken' = taken \union t.out
      /\ asked' = asked /\ ids' = ids /\ clock' = clock /\ answers' = answers
  BY DEF ReceiveRequest
<1> HIDE DEF s
<1>6. /\ GoodEngine(Server, t.rr, asked)
      /\ Freed(s, t.rr, {})
      /\ t.out \subseteq StashedRequest
      /\ \A x \in t.out : \E q \in asked : IsStashed(x, q)
  BY <1>2, <1>4, RequestTaken
<1>7. /\ taken' \subseteq StashedRequest
      /\ \A x \in taken' : \E q \in asked : IsStashed(x, q)
  BY <1>5, <1>6 DEF IInv, TypeOK
<1> HIDE DEF t
<1>8. QED
  BY <1>1, <1>3, <1>4, <1>5, <1>6, <1>7, ReceiveStep

LEMMA ReceiveNonRRStep ==
  ASSUME IInv, NEW n \in Node, NEW batch \in Batches(n), ReceiveNonRR(n, batch)
  PROVE  IInv'
<1> DEFINE s == pump_inbound(rr[n], batch)
           u == receive_non_rr(s).rr
<1>1. /\ TypeOK /\ GoodEngine(n, rr[n], asked) /\ OneRequestEach(asked)
      /\ asked \subseteq RequestRecord
  BY DEF IInv, TypeOK
<1>2. Inbound(n, batch, asked) /\ net' \subseteq net
  BY <1>1, BatchFacts DEF IInv, ReceiveNonRR
<1>3. GoodEngine(n, s, asked) /\ Keeps(rr[n], s)
  BY <1>1, <1>2, PumpGood
<1>4. /\ rr' = [rr EXCEPT ![n] = u]
      /\ asked' = asked /\ ids' = ids /\ clock' = clock /\ answers' = answers
      /\ taken' = taken
  BY <1>1 DEF ReceiveNonRR, TypeOK
<1> HIDE DEF s
<1>5. GoodEngine(n, u, asked) /\ Freed(s, u, {})
  BY <1>3, OtherTaken
<1>6. /\ taken' \subseteq StashedRequest
      /\ \A x \in taken' : \E q \in asked : IsStashed(x, q)
  BY <1>4 DEF IInv, TypeOK
<1> HIDE DEF u
<1>7. QED
  BY <1>2, <1>3, <1>4, <1>5, <1>6, ReceiveStep


LEMMA SmallSeqs ==
  /\ SetToSeq({}) = <<>>
  /\ \A x : SetToSeq({x}) = <<x>>
<1>1. SetToSeq({}) = <<>>
  <2>1. Cardinality({}) = 0
    BY FS_EmptySet, Zenon
  <2> DEFINE P(f) == f \in [1 .. Cardinality({}) -> {}] /\ IsInjective(f)
  <2>2. \A f : f \in [1 .. 0 -> {}] => f = <<>>
    OBVIOUS
  <2>3. <<>> \in [1 .. 0 -> {}] /\ IsInjective(<<>>)
    BY DEF IsInjective
  <2>4. P(<<>>)
    BY <2>1, <2>3
  <2>5. \A f : P(f) => f = <<>>
    BY <2>1, <2>2
  <2>6. SetToSeq({}) = CHOOSE f : P(f)
    BY DEF SetToSeq
  <2> HIDE DEF P
  <2>7. QED
    BY <2>4, <2>5, <2>6
<1>2. ASSUME NEW x PROVE SetToSeq({x}) = <<x>>
  <2> DEFINE P(f) == f \in [1 .. Cardinality({x}) -> {x}] /\ IsInjective(f)
  <2>1. Cardinality({x}) = 1
    BY FS_Singleton
  <2>2. \A f : f \in [1 .. 1 -> {x}] => f = <<x>>
    <3> SUFFICES ASSUME NEW f \in [1 .. 1 -> {x}] PROVE f = <<x>>
      OBVIOUS
    <3>1. DOMAIN f = {1} /\ f[1] = x /\ f = [i \in {1} |-> f[i]]
      OBVIOUS
    <3>2. DOMAIN <<x>> = {1} /\ <<x>>[1] = x
      OBVIOUS
    <3>3. QED
      BY <3>1, <3>2
  <2>3. <<x>> \in [1 .. 1 -> {x}] /\ IsInjective(<<x>>)
    BY DEF IsInjective
  <2>4. P(<<x>>)
    BY <2>1, <2>3
  <2>5. \A f : P(f) => f = <<x>>
    BY <2>1, <2>2
  <2>6. SetToSeq({x}) = CHOOSE f : P(f)
    BY DEF SetToSeq
  <2> HIDE DEF P
  <2>7. QED
    BY <2>4, <2>5, <2>6
<1>3. QED
  BY <1>1, <1>2

AnswerRecord == [correlation_id : 1 .. CID_MAX, payload : Seq(Nat)]

\* The new answer is the one to q, and no earlier one was.
LEMMA NewAnswer ==
  ASSUME IInv, NEW c \in Client, NEW q \in asked, q.client = c,
         NEW a \in AnswerRecord, a.correlation_id = q.correlation_id,
         a.payload = <<Answer(q.cell)>>,
         \A b \in Range(answers[c]) : b.correlation_id # q.correlation_id,
         answers' = [answers EXCEPT ![c] = Append(@, a)], asked' = asked
  PROVE  /\ answers' \in [Client -> Seq(AnswerRecord)]
         /\ Range(answers'[c]) = Range(answers[c]) \union {a}
         /\ \A k \in Client : k # c => answers'[k] = answers[k]
         /\ ResponseMatches'
<1> DEFINE h == answers[c]
           hh == Append(h, a)
<1>1. answers \in [Client -> Seq(AnswerRecord)]
  BY DEF IInv, TypeOK, AnswerRecord
<1>3. h \in Seq(AnswerRecord)
  BY <1>1
<1>4. /\ hh \in Seq(AnswerRecord)
      /\ DOMAIN hh = 1 .. Len(h) + 1 /\ DOMAIN h = 1 .. Len(h) /\ Len(h) \in Nat
      /\ hh[Len(h) + 1] = a
      /\ \A i \in 1 .. Len(h) : hh[i] = h[i]
  BY <1>3
<1>5. /\ answers'[c] = hh
      /\ \A k \in Client : k # c => answers'[k] = answers[k]
      /\ answers' \in [Client -> Seq(AnswerRecord)]
  BY <1>1, <1>4
<1> HIDE DEF hh
<1>6. Range(hh) = Range(h) \union {a}
  <2>1. ASSUME NEW i \in DOMAIN hh PROVE hh[i] \in Range(h) \union {a}
    <3>1. CASE i = Len(h) + 1
      BY <1>4, <3>1
    <3>2. CASE i # Len(h) + 1
      <4>1. i \in 1 .. Len(h)
        BY <1>4, <3>2
      <4>2. QED
        BY <1>4, <4>1 DEF Range
    <3>3. QED
      BY <3>1, <3>2
  <2>2. a \in Range(hh)
    <3>1. Len(h) + 1 \in DOMAIN hh
      BY <1>4
    <3>2. QED
      BY <1>4, <3>1 DEF Range
  <2>3. ASSUME NEW i \in DOMAIN h PROVE h[i] \in Range(hh)
    <3>1. i \in DOMAIN hh /\ hh[i] = h[i]
      BY <1>4
    <3>2. QED
      BY <3>1 DEF Range
  <2>4. QED
    BY <2>1, <2>2, <2>3 DEF Range
<1>7. ASSUME NEW k \in Client
      PROVE  /\ IsInjective([i \in DOMAIN answers'[k] |-> answers'[k][i].correlation_id])
             /\ \A b \in Range(answers'[k]) :
                  \E p \in asked : /\ p.client = k
                                   /\ p.correlation_id = b.correlation_id
                                   /\ b.payload = <<Answer(p.cell)>>
  <2>1. /\ IsInjective([i \in DOMAIN answers[k] |-> answers[k][i].correlation_id])
        /\ \A b \in Range(answers[k]) :
             \E p \in asked : /\ p.client = k
                              /\ p.correlation_id = b.correlation_id
                              /\ b.payload = <<Answer(p.cell)>>
    BY DEF IInv, ResponseMatches
  <2>2. CASE k # c
    BY <1>5, <2>1, <2>2
  <2>3. CASE k = c
    <3>1. a.correlation_id = q.correlation_id /\ a.payload = <<Answer(q.cell)>>
      OBVIOUS
    <3>2. ASSUME NEW b \in Range(hh)
          PROVE  \E p \in asked : /\ p.client = k
                                  /\ p.correlation_id = b.correlation_id
                                  /\ b.payload = <<Answer(p.cell)>>
      <4>1. CASE b = a
        BY <2>3, <3>1, <4>1
      <4>2. CASE b \in Range(h)
        BY <2>1, <2>3, <4>2
      <4>3. QED
        BY <1>6, <4>1, <4>2
    <3>3. ASSUME NEW i \in DOMAIN h PROVE h[i].correlation_id # a.correlation_id
      BY <3>1 DEF Range
    <3>4. ASSUME NEW i \in DOMAIN h, NEW j \in DOMAIN h,
                 h[i].correlation_id = h[j].correlation_id
          PROVE  i = j
      <4> DEFINE f == [x \in DOMAIN h |-> h[x].correlation_id]
      <4>1. IsInjective(f)
        BY <2>1, <2>3
      <4>2. DOMAIN f = DOMAIN h /\ f[i] = f[j]
        BY <3>4
      <4> HIDE DEF f
      <4>3. QED
        BY <4>1, <4>2 DEF IsInjective
    <3>5. ASSUME NEW i \in DOMAIN hh, NEW j \in DOMAIN hh,
                 hh[i].correlation_id = hh[j].correlation_id
          PROVE  i = j
      <4>1. CASE i = Len(h) + 1 /\ j = Len(h) + 1
        BY <4>1
      <4>2. CASE i = Len(h) + 1 /\ j # Len(h) + 1
        <5>1. j \in DOMAIN h /\ hh[j] = h[j] /\ hh[i] = a
          BY <1>4, <4>2
        <5>2. QED
          BY <3>3, <3>5, <5>1
      <4>3. CASE i # Len(h) + 1 /\ j = Len(h) + 1
        <5>1. i \in DOMAIN h /\ hh[i] = h[i] /\ hh[j] = a
          BY <1>4, <4>3
        <5>2. QED
          BY <3>3, <3>5, <5>1
      <4>4. CASE i # Len(h) + 1 /\ j # Len(h) + 1
        <5>1. i \in DOMAIN h /\ hh[i] = h[i]
          BY <1>4, <4>4
        <5>2. j \in DOMAIN h /\ hh[j] = h[j]
          BY <1>4, <4>4
        <5>3. QED
          BY <3>4, <3>5, <5>1, <5>2
      <4>5. QED
        BY <4>1, <4>2, <4>3, <4>4
    <3>6. IsInjective([i \in DOMAIN hh |-> hh[i].correlation_id])
      BY <3>5 DEF IsInjective
    <3>7. QED
      BY <1>5, <2>3, <3>2, <3>6
  <2>4. QED
    BY <2>2, <2>3
<1>8. ResponseMatches'
  BY <1>7 DEF ResponseMatches
<1>9. QED
  BY <1>5, <1>6, <1>8


\* What receive_response() returned is the client's next answer.
Returned(c, cid, out) ==
  answers' = [answers EXCEPT ![c] =
    @ \o SetToSeq({[correlation_id |-> cid, payload |-> p] : p \in out})]

\* receive_response() at the client c: the engine s after the pump, and what it returns.
LEMMA ResponseCall ==
  ASSUME IInv, NEW c \in Client, NEW cid, NEW batch \in Batches(c),
         ReceiveResponse(c, cid, batch)
  PROVE  \E s, t :
           /\ Keeps(rr[c], s)
           /\ s \in RequestReply
           /\ GoodEngine(c, t.rr, asked)
           /\ HandedOver(c, s, cid, t, asked)
           /\ rr' = [rr EXCEPT ![c] = t.rr]
           /\ Returned(c, cid, t.out)
           /\ net' \subseteq net
           /\ asked' = asked /\ ids' = ids /\ clock' = clock /\ taken' = taken
<1> DEFINE s == pump_inbound(rr[c], batch)
           t == receive_response(s, cid)
<1>1. /\ TypeOK /\ GoodEngine(c, rr[c], asked) /\ OneRequestEach(asked)
      /\ asked \subseteq RequestRecord
  BY DEF IInv, TypeOK, Client
<1>2. Inbound(c, batch, asked) /\ net' \subseteq net
  BY <1>1, BatchFacts DEF IInv, ReceiveResponse
<1>3. GoodEngine(c, s, asked) /\ Keeps(rr[c], s)
  BY <1>1, <1>2, PumpGood
<1>4. /\ rr' = [rr EXCEPT ![c] = t.rr]
      /\ Returned(c, cid, t.out)
      /\ asked' = asked /\ ids' = ids /\ clock' = clock /\ taken' = taken
  BY DEF ReceiveResponse, Returned
<1> HIDE DEF s
<1>5. GoodEngine(c, t.rr, asked) /\ HandedOver(c, s, cid, t, asked)
  BY <1>3, ReceiveGood
<1>6. s \in RequestReply
  BY <1>3 DEF GoodEngine
<1> HIDE DEF t
<1>7. QED
  BY <1>2, <1>3, <1>4, <1>5, <1>6

\* The answers after receive_response() returned nothing.
LEMMA NothingReturned ==
  ASSUME TypeOK, NEW c \in Client, NEW cid, NEW out, out = {}, Returned(c, cid, out)
  PROVE  answers' = answers
<1>1. answers \in [Client -> Seq(AnswerRecord)] /\ answers[c] \in Seq(AnswerRecord)
  BY DEF TypeOK, AnswerRecord
<1>2. {[correlation_id |-> cid, payload |-> p] : p \in out} = {}
  OBVIOUS
<1>3. answers' = [answers EXCEPT ![c] = answers[c] \o <<>>]
  BY <1>2, SmallSeqs DEF Returned
<1>4. answers[c] \o <<>> = answers[c]
  BY <1>1, ConcatEmptySeq
<1>5. QED
  BY <1>1, <1>3, <1>4

\* The answers after it returned one.
LEMMA OneReturned ==
  ASSUME TypeOK, NEW c \in Client, NEW a \in AnswerRecord, NEW cid, cid = a.correlation_id,
         NEW out, out = {a.payload}, Returned(c, cid, out)
  PROVE  answers' = [answers EXCEPT ![c] = Append(@, a)]
<1>1. answers \in [Client -> Seq(AnswerRecord)] /\ answers[c] \in Seq(AnswerRecord)
  BY DEF TypeOK, AnswerRecord
<1>2. a = [correlation_id |-> cid, payload |-> a.payload]
  BY DEF AnswerRecord
<1>3. {[correlation_id |-> cid, payload |-> p] : p \in out} = {a}
  BY <1>2
<1>4. answers' = [answers EXCEPT ![c] = answers[c] \o <<a>>]
  BY <1>3, SmallSeqs DEF Returned
<1>5. Append(answers[c], a) = answers[c] \o <<a>>
  BY <1>1, AppendIsConcat
<1>6. QED
  BY <1>4, <1>5

LEMMA ReceiveResponseStep ==
  ASSUME IInv, NEW c \in Client, NEW cid, NEW batch \in Batches(c),
         ReceiveResponse(c, cid, batch)
  PROVE  IInv'
<1>1. PICK s, t :
        /\ Keeps(rr[c], s)
        /\ s \in RequestReply
        /\ GoodEngine(c, t.rr, asked)
        /\ HandedOver(c, s, cid, t, asked)
        /\ rr' = [rr EXCEPT ![c] = t.rr]
        /\ Returned(c, cid, t.out)
        /\ net' \subseteq net
        /\ asked' = asked /\ ids' = ids /\ clock' = clock /\ taken' = taken
  BY ResponseCall
<1>2. c \in Node /\ TypeOK /\ rr \in [Node -> RequestReply] /\ asked \subseteq RequestRecord
  BY DEF IInv, TypeOK, Client
<1>3. /\ taken' \subseteq StashedRequest
      /\ \A x \in taken' : \E q \in asked : IsStashed(x, q)
      /\ clock' \in Nat
  BY <1>1 DEF IInv, TypeOK
<1>4. CASE t.rr = s /\ t.out = {}
  <2>1. Freed(s, t.rr, {})
    BY <1>4 DEF Freed
  <2>2. answers' = answers
    BY <1>1, <1>2, <1>4, NothingReturned
  <2>3. QED
    BY <1>1, <1>2, <1>3, <2>1, <2>2, ReceiveStep
<1>5. ASSUME NEW i \in ActiveRequests(s), NEW q \in asked,
             Freed(s, t.rr, {i}),
             s.m_pending[i].correlation_id = cid,
             \A j \in ActiveRequests(s) : s.m_pending[j].correlation_id = cid => j = i,
             q.client = c, q.correlation_id = cid, t.out = {<<Answer(q.cell)>>}
      PROVE  IInv'
  <2> DEFINE a == [correlation_id |-> cid, payload |-> <<Answer(q.cell)>>]
  <2>1. cid \in 1 .. CID_MAX /\ <<Answer(q.cell)>> \in Seq(Nat)
    <3>1. q.cell \in Nat /\ q.correlation_id \in 1 .. CID_MAX
      BY <1>2 DEF RequestRecord
    <3>2. Answer(q.cell) \in Nat
      BY <3>1, RequestReplySystemAssumption DEF Answer
    <3>3. QED
      BY <1>5, <3>1, <3>2
  <2>2. answers' = [answers EXCEPT ![c] = Append(@, a)]
    <3>1. a \in AnswerRecord /\ a.correlation_id = cid /\ t.out = {a.payload}
      BY <1>5, <2>1 DEF AnswerRecord
    <3>2. Returned(c, cid, t.out)
      BY <1>1
    <3> HIDE DEF a
    <3>3. QED
      BY <1>2, <3>1, <3>2, OneReturned
  <2>3. i \in ActiveRequests(rr[c]) /\ rr[c].m_pending[i].correlation_id = cid
    BY <1>1, <1>5 DEF Keeps
  <2>4. \A b \in Range(answers[c]) : b.correlation_id # q.correlation_id
    BY <1>5, <2>3 DEF IInv, AnsweredIsDone
  <2>5. /\ a \in AnswerRecord
        /\ a.correlation_id = q.correlation_id
        /\ a.payload = <<Answer(q.cell)>>
        /\ a.correlation_id = cid
    BY <1>5, <2>1 DEF AnswerRecord
  <2> HIDE DEF a
  <2>6. /\ answers' \in [Client -> Seq(AnswerRecord)]
        /\ Range(answers'[c]) = Range(answers[c]) \union {a}
        /\ \A k \in Client : k # c => answers'[k] = answers[k]
        /\ ResponseMatches'
    <3>1. asked' = asked /\ q.client = c
      BY <1>1, <1>5
    <3>2. QED
      BY <2>2, <2>4, <2>5, <3>1, NewAnswer
  <2>7. t.rr \in RequestReply
    BY <1>1 DEF GoodEngine
  <2>8. AnsweredIsDone'
    <3> SUFFICES ASSUME NEW k \in Client, NEW j \in ActiveRequests(rr'[k]),
                        NEW b \in Range(answers'[k])
                 PROVE  b.correlation_id # rr'[k].m_pending[j].correlation_id
      BY DEF AnsweredIsDone
    <3>1. PICK x \in ActiveRequests(rr[k]) :
            rr[k].m_pending[x].correlation_id = rr'[k].m_pending[j].correlation_id
      BY <1>1, <1>2, <1>5, <2>7, NoNewSlots
    <3>2. CASE k # c
      BY <2>6, <3>1, <3>2 DEF IInv, AnsweredIsDone
    <3>3. CASE k = c
      <4>1. rr'[k] = t.rr
        BY <1>1, <1>2, <3>3
      <4>2. j \in ActiveRequests(s) /\ j # i /\ j \in PendingIndex
        BY <1>5, <4>1 DEF Freed, ActiveRequests
      <4>3. rr'[k].m_pending[j].correlation_id # cid
        BY <1>5, <4>1, <4>2 DEF Freed
      <4>4. CASE b = a
        BY <2>5, <4>3, <4>4
      <4>5. CASE b \in Range(answers[c])
        BY <3>1, <3>3, <4>5 DEF IInv, AnsweredIsDone
      <4>6. QED
        BY <2>6, <3>3, <4>4, <4>5
    <3>4. QED
      BY <3>2, <3>3
  <2>9. t.rr.m_cid_gen = rr[c].m_cid_gen
    BY <1>1, <1>5 DEF Freed, Keeps
  <2>10. answers' \in [Client -> Seq([correlation_id : 1 .. CID_MAX, payload : Seq(Nat)])]
    BY <2>6 DEF AnswerRecord
  <2>11. QED
    BY <1>1, <1>2, <1>3, <2>6, <2>8, <2>9, <2>10, EngineStep
<1>6. QED
  BY <1>1, <1>4, <1>5 DEF HandedOver

LEMMA IdleStep ==
  ASSUME IInv, rr' = rr, net' = net, ids' = ids, taken' = taken, asked' = asked,
         answers' = answers, clock' = clock \/ clock' = clock + 1
  PROVE  IInv'
<1>1. AnsweredIsDone' /\ ResponseMatches'
  BY NoNewAnswer
<1>2. TypeOK'
  <2>1. clock' \in Nat
    BY DEF IInv, TypeOK
  <2>2. QED
    BY <2>1 DEF IInv, TypeOK
<1>3. FreshIds'
  BY DEF IInv, FreshIds
<1>4. QED
  BY <1>1, <1>2, <1>3 DEF IInv

LEMMA StepInvariant == IInv /\ [Next]_vars => IInv'
<1> SUFFICES ASSUME IInv, [Next]_vars PROVE IInv'
  OBVIOUS
<1>1. ASSUME NEW c \in Client, NEW t \in Timeout, NEW tx \in {"OK", "ERR_IO"},
             SendRequest(c, t, tx)
      PROVE  IInv'
  BY <1>1, SendRequestStep
<1>2. ASSUME NEW c \in Client, SendOther(c) PROVE IInv'
  BY <1>2, SendOtherStep
<1>3. ASSUME NEW c \in Client, NEW q \in asked, NEW b \in Batches(c),
             ReceiveResponse(c, q.correlation_id, b)
      PROVE  IInv'
  BY <1>3, ReceiveResponseStep
<1>4. ASSUME NEW c \in Client, SweepTimeouts(c) PROVE IInv'
  BY <1>4, SweepStep
<1>5. ASSUME NEW q \in taken, NEW tx \in {"OK", "ERR_IO"}, SendResponse(q, tx) PROVE IInv'
  BY <1>5, SendResponseStep
<1>6. ASSUME NEW b \in Batches(Server), ReceiveRequest(b) PROVE IInv'
  BY <1>6, ReceiveRequestStep
<1>7. ASSUME NEW b \in Batches(Server), ReceiveNonRR(Server, b) PROVE IInv'
  BY <1>7, ReceiveNonRRStep, RequestReplySystemAssumption
<1>8. CASE Tick
  <2>1. /\ rr' = rr /\ net' = net /\ ids' = ids /\ taken' = taken /\ asked' = asked
        /\ answers' = answers /\ clock' = clock + 1
    BY <1>8 DEF Tick
  <2>2. QED
    BY <2>1, IdleStep
<1>9. CASE UNCHANGED vars
  <2>1. /\ rr' = rr /\ net' = net /\ ids' = ids /\ taken' = taken /\ asked' = asked
        /\ answers' = answers /\ clock' = clock
    BY <1>9 DEF vars
  <2>2. QED
    BY <2>1, IdleStep
<1>10. QED
  BY <1>1, <1>2, <1>3, <1>4, <1>5, <1>6, <1>7, <1>8, <1>9 DEF Next

\* The inductive invariant holds in every reachable state: correlation ids are unique
\* among a client's requests (send_request()), every slot and every message under way
\* belongs to a request that was sent, and an answered request is in no slot.
THEOREM Invariance == Spec => []IInv
<1>1. QED
  BY InitInvariant, StepInvariant, PTL DEF Spec

\* Whatever is lost, delayed, copied or timed out, receive_response() returns for a
\* correlation id the server's answer to the request sent under it, and only once.
THEOREM AnswersMatch == Spec => []ResponseMatches
<1>1. IInv => ResponseMatches
  BY DEF IInv
<1>2. QED
  BY <1>1, Invariance, PTL

\* A response that has arrived (handle_inbound_response()) stays in its slot until the
\* client gets it or its request times out; no copy and no other call disturbs it.
THEOREM ResponsesStay == Spec => ResponseKept
<1> DEFINE Kept == \A c \in Client : \A i \in ActiveRequests(rr[c]) :
       LET p == rr[c].m_pending[i]
       IN  p.stash # {} =>
             \/ rr'[c].m_pending[i] = p
             \/ \E a \in Range(answers'[c]) : /\ a.correlation_id = p.correlation_id
                                              /\ a.payload \in p.stash
             \/ p.expires_us # 0 /\ clock >= p.expires_us
<1>1. ASSUME IInv, [Next]_vars PROVE Kept
  <2> SUFFICES ASSUME NEW c \in Client, NEW i \in ActiveRequests(rr[c]),
                      rr[c].m_pending[i].stash # {}
               PROVE  \/ rr'[c].m_pending[i] = rr[c].m_pending[i]
                      \/ \E a \in Range(answers'[c]) :
                           /\ a.correlation_id = rr[c].m_pending[i].correlation_id
                           /\ a.payload \in rr[c].m_pending[i].stash
                      \/ /\ rr[c].m_pending[i].expires_us # 0
                         /\ clock >= rr[c].m_pending[i].expires_us
    OBVIOUS
  <2> DEFINE p == rr[c].m_pending[i]
             Goal == \/ rr'[c].m_pending[i] = p
                     \/ \E a \in Range(answers'[c]) : /\ a.correlation_id = p.correlation_id
                                                      /\ a.payload \in p.stash
                     \/ p.expires_us # 0 /\ clock >= p.expires_us
  <2>1. /\ rr \in [Node -> RequestReply] /\ c \in Node /\ c # Server
        /\ TypeOK /\ GoodEngine(c, rr[c], asked)
        /\ i \in PendingIndex
        /\ Client \subseteq Node
    BY <1>1 DEF IInv, TypeOK, Client, ActiveRequests
  <2>2. ASSUME NEW d \in Client, NEW t \in Timeout, NEW tx \in {"OK", "ERR_IO"},
               SendRequest(d, t, tx)
        PROVE  Goal
    <3> DEFINE r == send_request(rr[d], NewMessage(d, Server, ids + 1), t, clock, tx)
    <3>1. rr' = [rr EXCEPT ![d] = r.rr]
      BY <2>2 DEF SendRequest
    <3>2. CASE d # c
      BY <2>1, <3>1, <3>2
    <3>3. CASE d = c
      <4>1. r.rr.m_pending[i] = p
        <5> DEFINE free == find_free_pending(rr[c])
        <5>1. i \notin free
          BY DEF find_free_pending
        <5>2. free \subseteq Nat
          BY <2>1, SlotFacts DEF find_free_pending
        <5>3. free # {} => Min(free) # i
          <6> HIDE DEF free
          <6>1. QED
            BY <5>1, <5>2, MinIsLeast
        <5>4. rr[c].m_pending \in [PendingIndex -> PendingRequest]
          BY <2>1 DEF RequestReply
        <5>5. rr[c] \in RequestReply
          BY <2>1
        <5> DEFINE next == [rr[c] EXCEPT !.m_cid_gen = IF @ = CID_MAX THEN 1 ELSE @ + 1]
        <5>6. next.m_pending = rr[c].m_pending
          BY <5>5 DEF RequestReply
        <5>7. \/ r.rr.m_pending = rr[c].m_pending
              \/ free # {} /\ \E x : r.rr = [next EXCEPT !.m_pending[Min(free)] = x]
          BY <3>3, <5>6 DEF send_request
        <5>8. ASSUME NEW x, free # {}, r.rr = [next EXCEPT !.m_pending[Min(free)] = x]
              PROVE  r.rr.m_pending[i] = p
          <6> HIDE DEF free
          <6>1. next \in [m_cid_gen : {next.m_cid_gen},
                          m_pending : [PendingIndex -> PendingRequest],
                          m_request_stash : Seq(StashedRequest),
                          m_non_rr_stash : Seq(Envelope)]
            BY <5>5 DEF RequestReply
          <6> HIDE DEF next
          <6>2. r.rr.m_pending = [next.m_pending EXCEPT ![Min(free)] = x]
            BY <5>8, <6>1
          <6>3. QED
            BY <2>1, <5>3, <5>4, <5>6, <5>8, <6>2
        <5>9. QED
          BY <5>7, <5>8
      <4> HIDE DEF r, p
      <4>2. QED
        BY <2>1, <3>1, <3>3, <4>1
    <3>4. QED
      BY <3>2, <3>3
  <2>3. ASSUME NEW d \in Client, NEW q \in asked, NEW b \in Batches(d),
               ReceiveResponse(d, q.correlation_id, b)
        PROVE  Goal
    <3>1. PICK s, t :
            /\ Keeps(rr[d], s)
            /\ s \in RequestReply
            /\ HandedOver(d, s, q.correlation_id, t, asked)
            /\ rr' = [rr EXCEPT ![d] = t.rr]
            /\ Returned(d, q.correlation_id, t.out)
      BY <1>1, <2>3, ResponseCall
    <3>2. CASE d # c
      BY <2>1, <3>1, <3>2
    <3>3. CASE d = c
      <4>1. rr'[c] = t.rr
        BY <2>1, <3>1, <3>3
      <4>2. s.m_pending[i] = p
        BY <3>1, <3>3 DEF Keeps
      <4>3. CASE t.rr = s
        BY <4>1, <4>2, <4>3
      <4>4. ASSUME NEW j \in ActiveRequests(s), NEW k \in asked, Freed(s, t.rr, {j}),
                   s.m_pending[j].correlation_id = q.correlation_id,
                   t.out = s.m_pending[j].stash, t.out = {<<Answer(k.cell)>>}
            PROVE  Goal
        <5>1. CASE j # i
          BY <2>1, <4>1, <4>2, <4>4, <5>1 DEF Freed
        <5>2. CASE j = i
          <6> DEFINE x == <<Answer(k.cell)>>
                     a == [correlation_id |-> q.correlation_id, payload |-> x]
          <6>1. x \in p.stash /\ p.correlation_id = q.correlation_id
            BY <4>2, <4>4, <5>2
          <6>2. q.correlation_id \in 1 .. CID_MAX /\ x \in Seq(Nat)
            <7>1. k.cell \in Nat /\ q.correlation_id \in 1 .. CID_MAX
              BY <2>1 DEF TypeOK, RequestRecord
            <7>2. Answer(k.cell) \in Nat
              BY <7>1, RequestReplySystemAssumption DEF Answer
            <7>3. QED
              BY <7>1, <7>2
          <6>3. answers' = [answers EXCEPT ![c] = Append(@, a)]
            <7>1. /\ a \in AnswerRecord
                  /\ a.correlation_id = q.correlation_id
                  /\ t.out = {a.payload}
              BY <4>4, <6>2 DEF AnswerRecord
            <7>2. Returned(c, q.correlation_id, t.out)
              BY <3>1, <3>3
            <7> HIDE DEF a
            <7>3. QED
              BY <2>1, <7>1, <7>2, OneReturned
          <6>4. answers \in [Client -> Seq(AnswerRecord)] /\ a \in AnswerRecord
            BY <2>1, <6>2 DEF TypeOK, AnswerRecord
          <6>5. a.correlation_id = p.correlation_id /\ a.payload \in p.stash
            BY <6>1
          <6> HIDE DEF a, x, p
          <6>6. answers'[c] = Append(answers[c], a) /\ answers[c] \in Seq(AnswerRecord)
            BY <6>3, <6>4
          <6>7. Len(answers[c]) + 1 \in DOMAIN answers'[c]
                /\ answers'[c][Len(answers[c]) + 1] = a
            BY <6>4, <6>6
          <6>8. a \in Range(answers'[c])
            BY <6>7 DEF Range
          <6>9. QED
            BY <6>5, <6>8
        <5>3. QED
          BY <5>1, <5>2
      <4>5. QED
        BY <3>1, <3>3, <4>3, <4>4 DEF HandedOver
    <3>4. QED
      BY <3>2, <3>3
  <2>4. ASSUME NEW d \in Client, SweepTimeouts(d) PROVE Goal
    <3>1. rr' = [rr EXCEPT ![d] = sweep_timeouts(rr[d], clock)]
      BY <2>4 DEF SweepTimeouts
    <3>2. CASE d # c
      BY <2>1, <3>1, <3>2
    <3>3. CASE d = c
      <4>1. CASE i \in TimedOut(rr[c], clock)
        BY <4>1 DEF TimedOut
      <4>2. CASE i \notin TimedOut(rr[c], clock)
        <5>1. sweep_timeouts(rr[c], clock).m_pending[i] = p
          BY <2>1, <4>2 DEF sweep_timeouts, RequestReply
        <5>2. QED
          BY <2>1, <3>1, <3>3, <5>1
      <4>3. QED
        BY <4>1, <4>2
    <3>4. QED
      BY <3>2, <3>3
  <2>5. ASSUME NEW b \in Batches(Server), ReceiveRequest(b) \/ ReceiveNonRR(Server, b)
        PROVE  Goal
    <3>1. \E u : rr' = [rr EXCEPT ![Server] = u]
      BY <2>5 DEF ReceiveRequest, ReceiveNonRR
    <3>2. rr'[c] = rr[c]
      BY <2>1, <3>1
    <3>3. QED
      BY <3>2
  <2>6. ASSUME rr' = rr PROVE Goal
    BY <2>6
  <2>7. ASSUME NEW d \in Client, SendOther(d) PROVE Goal
    BY <2>6, <2>7 DEF SendOther
  <2>8. ASSUME NEW q \in taken, NEW tx \in {"OK", "ERR_IO"}, SendResponse(q, tx) PROVE Goal
    BY <2>6, <2>8 DEF SendResponse
  <2>9. Tick \/ UNCHANGED vars => Goal
    BY <2>6 DEF Tick, vars
  <2> HIDE DEF Goal
  <2>10. Goal
    BY <1>1, <2>2, <2>3, <2>4, <2>5, <2>7, <2>8, <2>9 DEF Next
  <2>11. QED
    BY <2>10 DEF Goal
<1>2. IInv /\ [Next]_vars => [Kept]_vars
  BY <1>1
<1>3. QED
  BY <1>2, Invariance, PTL DEF Spec, ResponseKept
===============================================================================
