--------------------------- MODULE DeliveryProofs ---------------------------
(***************************************************************************)
(* Proofs about DeliverySystem: for every number of nodes and messages,    *)
(* every size of the tables, every workload and every bound on the faults. *)
(*                                                                         *)
(* The components are instances (AT, RM, DF, OB, RB), so what is known of  *)
(* them is stated again here, as far as the system needs it, in terms of   *)
(* the sets of messages that their tables hold.                            *)
(***************************************************************************)
EXTENDS DeliverySystem, FiniteSetTheorems, SequenceTheorems,
        WellFoundedInduction, TLAPS

\* A non-empty set of naturals has a least element: the order of the naturals is
\* well-founded.
LEMMA MinIsLeast ==
  ASSUME NEW S, S \subseteq Nat, S # {}
  PROVE  Min(S) \in S /\ \A y \in S : Min(S) <= y
<1> DEFINE R == OpToRel(<, Nat)
<1>1. IsWellFoundedOn(R, Nat)
  BY NatLessThanWellFounded, Zenon
<1>2. \A x, y \in Nat : y < x => <<y, x>> \in R
  BY DEF OpToRel
<1> HIDE DEF R
<1>3. PICK x \in S : \A y \in S : ~ (<<y, x>> \in R)
  BY <1>1, WFMin
<1>4. ASSUME NEW y \in S PROVE x <= y
  <2>1. x \in Nat /\ y \in Nat /\ ~ (<<y, x>> \in R)
    BY <1>3
  <2>2. ~ (y < x)
    BY <1>2, <2>1, Zenon
  <2>3. QED
    BY <2>1, <2>2
<1>5. QED
  BY <1>4 DEF Min

(***************************************************************************)
(* The shape of an engine: its type, with counters that may have any value *)
(* (they decide nothing, and that they are right is proved of each         *)
(* component on its own).                                                  *)
(***************************************************************************)
TrackerShape == [m_slots         : [AT!AckIndex -> AT!AckSlot],
                 m_count         : Nat,
                 m_last_sweep_us : Nat,
                 acks_received   : Nat,
                 timeouts        : Nat]

ManagerShape == [m_slots           : [RM!RetryIndex -> RM!RetrySlot],
                 m_count           : Int,
                 m_last_collect_us : Nat,
                 retries_sent      : Nat,
                 acks_received     : Nat,
                 slots_expired     : Nat,
                 slots_exhausted   : Nat]

OpenShape == [active         : {TRUE},
              buf            : [RB!ByteIndex -> Nat],
              received_mask  : SUBSET Nat,
              received_bytes : Nat,
              open_time_us   : Nat,
              header         : {x \in Envelope :
                                  x.total_payload_length <= RB!MSG_MAX_PAYLOAD_BYTES}]

SlotShape == {RB!NoSlot} \union OpenShape

EngineShape == [m_ack_tracker   : TrackerShape,
                m_retry_manager : ManagerShape,
                m_dedup         : DF!Filter,
                m_ordering      : OB!Buffer,
                m_reassembly    : [RB!SlotIndex -> SlotShape],
                m_held_pending  : SUBSET Envelope,
                m_seq_state     : SeqState,
                m_last_now_us   : Nat]

Shape ==
  /\ eng \in [Node -> EngineShape]
  /\ connecting \subseteq Node \ {Server}
  /\ hello \in [Node -> SUBSET Node]
  /\ net \subseteq Envelope
  /\ clock \in Nat
  /\ sent \subseteq Envelope
  /\ stale \subseteq sent
  /\ delivered \in [Node -> Seq(Envelope)]

-----------------------------------------------------------------------------
(* What the tables of an engine hold. *)

Pending(t) == {t.m_slots[i].env : i \in AT!InState(t, "PENDING")}
Acked(t)   == {t.m_slots[i].env : i \in AT!InState(t, "ACKED")}
Retried(r) == {r.m_slots[i].env : i \in RM!Active(r)}
Holding(o) == {o.m_hold[h].env : h \in OB!Held(o)}
Headers(b) == {b[i].header : i \in RB!Open(b)}

\* A message has one entry in the retry table.
RetriedOnce(r) ==
  \A i, j \in RM!Active(r) :
    r.m_slots[i].env.message_id = r.m_slots[j].env.message_id => i = j

\* A source has one peer slot at most, and a held message has a peer slot.
PeersOK(o) ==
  /\ \A i, j \in OB!PeerIndex :
       /\ o.m_peers[i].active
       /\ o.m_peers[j].active
       /\ o.m_peers[i].src = o.m_peers[j].src
       => i = j
  /\ \A x \in Holding(o) : OB!find_peer(o, x.source_id) # {}

(***************************************************************************)
(* Where things come from.  A copy of a message agrees with it in all that *)
(* identifies it; frames and reassembled messages are copies.              *)
(***************************************************************************)
Ids(S) == {s.message_id : s \in S}

\* All but the sequence number, which send() gives.
Alike(x, s) == /\ x.message_id        = s.message_id
               /\ x.source_id         = s.source_id
               /\ x.destination_id    = s.destination_id
               /\ x.reliability_class = s.reliability_class
               /\ x.message_type      = s.message_type
               /\ x.expiry_time_us    = s.expiry_time_us

Copy(x, s) == Alike(x, s) /\ x.sequence_num = s.sequence_num

Genuine(x, S) == \E s \in S : Copy(x, s)

MadeAck(x, S) == /\ x.message_type = "ACK"
                 /\ x.fragment_count = 0
                 /\ x.message_id \in Ids(S)

\* No message of a client's earlier session to the server (or to everyone).
Fresh(x, old) ==
  x.source_id # Server /\ x.destination_id \in {Server, NODE_ID_INVALID} =>
    x.message_id \notin Ids(old)

(***************************************************************************)
(* The inductive invariant.                                                *)
(***************************************************************************)
HistoryOK ==
  /\ \A s, t \in sent : s.message_id = t.message_id => s = t
  /\ failed \intersect Ids(sent) = {}
  /\ \A s \in sent : \E m \in Workload : Alike(s, m)

EngineOK(e, n, S) ==
  /\ \A m \in Pending(e.m_ack_tracker) \union Acked(e.m_ack_tracker)
                \union Retried(e.m_retry_manager) : m \in S /\ m.source_id = n
  /\ RetriedOnce(e.m_retry_manager)
  /\ \A a \in Acked(e.m_ack_tracker), b \in Retried(e.m_retry_manager) :
       a.message_id # b.message_id
  /\ PeersOK(e.m_ordering)
  /\ \A x \in e.m_held_pending \union Holding(e.m_ordering) :
       Genuine(x, S) /\ x.destination_id \in {n, NODE_ID_INVALID}
  /\ \A x \in Headers(e.m_reassembly) : Genuine(x, S)

\* Clients whose reconnection the server has not acted upon yet.
Unreset == hello[Server] \union connecting

\* The server's part of what it keeps for a client, D being Unreset.
ServerStale(e, old, D) ==
  /\ \A m \in Pending(e.m_ack_tracker) \union Retried(e.m_retry_manager) :
       m \in old => m.destination_id \in D
  /\ \A x \in e.m_held_pending \union Holding(e.m_ordering) :
       x.message_id \in Ids(old) => x.source_id \in D

\* A client's part: what it retransmits is of its own session.
ClientStale(e, old) == \A m \in Retried(e.m_retry_manager) : Fresh(m, old)

StaleOK ==
  /\ ServerStale(eng[Server], stale, Unreset)
  /\ \A n \in Node \ {Server} : ClientStale(eng[n], stale)

TrafficOK ==
  /\ \A x \in net : \/ Genuine(x, sent) /\ Fresh(x, stale)
                    \/ MadeAck(x, sent)
  /\ \A n \in Node : \A i \in DOMAIN delivered[n] : Genuine(delivered[n][i], sent)

IInv == /\ Shape
        /\ HistoryOK
        /\ \A n \in Node : EngineOK(eng[n], n, sent)
        /\ StaleOK
        /\ TrafficOK

(***************************************************************************)
(* The part of the invariant about duplicates, which holds as long as the  *)
(* window of the filter is as large as the set of RELIABLE_RETRY messages. *)
(***************************************************************************)
InRetryClass(x) == x.reliability_class = "RELIABLE_RETRY"

RetryPairs == {<<m.source_id, m.message_id>> : m \in {w \in Workload : InRetryClass(w)}}

WindowSuffices == /\ IsFiniteSet(RetryPairs)
                  /\ Cardinality(RetryPairs) <= DEDUP_WINDOW_SIZE

\* The window fills from the start and holds no pair twice.
WindowOK(f) ==
  /\ DF!Valid(f) = 0 .. f.m_count - 1
  /\ f.m_count < DEDUP_WINDOW_SIZE => f.m_next = f.m_count
  /\ \A i \in DF!Valid(f) : <<f.m_window[i].src, f.m_window[i].msg_id>> \in RetryPairs
  /\ \A i, j \in DF!Valid(f) :
       /\ f.m_window[i].src = f.m_window[j].src
       /\ f.m_window[i].msg_id = f.m_window[j].msg_id
       => i = j

Recorded(f, x) == InRetryClass(x) => DF!is_duplicate(f, x.source_id, x.message_id)

Twice(x, y) == InRetryClass(x) /\ SameMessage(x, y)

\* The engine keeps no message twice, and keeps none that the application, which
\* has been given those of the sequence d, has.
OnceOK(e, d) ==
  /\ WindowOK(e.m_dedup)
  /\ \A x \in e.m_held_pending \union Holding(e.m_ordering) : Recorded(e.m_dedup, x)
  /\ \A i \in DOMAIN d : Recorded(e.m_dedup, d[i])
  /\ \A i, j \in DOMAIN d : Twice(d[i], d[j]) => i = j
  /\ \A x \in e.m_held_pending \union Holding(e.m_ordering) :
       \A i \in DOMAIN d : ~Twice(x, d[i])
  /\ \A x \in e.m_held_pending, y \in Holding(e.m_ordering) : ~Twice(x, y)
  /\ \A g, h \in OB!Held(e.m_ordering) :
       Twice(e.m_ordering.m_hold[g].env, e.m_ordering.m_hold[h].env) => g = h

OnceInv == IInv /\ \A n \in Node : OnceOK(eng[n], delivered[n])


-----------------------------------------------------------------------------
(* The instances share the names of the modules they extend. *)

LEMMA SameEnvelope ==
  /\ AT!Envelope = Envelope /\ RM!Envelope = Envelope /\ OB!Envelope = Envelope
  /\ RB!Envelope = Envelope
BY DEF Envelope, Type, Reliability, AT!Envelope, AT!Type, AT!Reliability,
       RM!Envelope, RM!Type, RM!Reliability, OB!Envelope, OB!Type, OB!Reliability,
       RB!Envelope, RB!Type, RB!Reliability

LEMMA SameCardinality ==
  ASSUME NEW S
  PROVE  /\ AT!Cardinality(S) = Cardinality(S) /\ RM!Cardinality(S) = Cardinality(S)
         /\ OB!Cardinality(S) = Cardinality(S)
<1>1. AT!Cardinality(S) = Cardinality(S)
  BY DEF AT!Cardinality, Cardinality
<1>2. RM!Cardinality(S) = Cardinality(S)
  BY DEF RM!Cardinality, Cardinality
<1>3. OB!Cardinality(S) = Cardinality(S)
  BY DEF OB!Cardinality, Cardinality
<1>4. QED
  BY <1>1, <1>2, <1>3

\* The first index of a table that satisfies a condition is one that does.
LEMMA FirstIsOne ==
  ASSUME NEW S, S \subseteq Nat, S # {}
  PROVE  /\ AT!Min(S) \in S /\ RM!Min(S) \in S /\ DF!Min(S) \in S
         /\ OB!Min(S) \in S /\ RB!Min(S) \in S
<1>1. AT!Min(S) = Min(S) /\ RM!Min(S) = Min(S)
  BY DEF AT!Min, RM!Min, Min
<1>2. DF!Min(S) = Min(S) /\ OB!Min(S) = Min(S) /\ RB!Min(S) = Min(S)
  BY DEF DF!Min, OB!Min, RB!Min, Min
<1>3. Min(S) \in S
  BY MinIsLeast
<1>4. QED
  BY <1>1, <1>2, <1>3

-----------------------------------------------------------------------------
(* The AckTracker. *)

LEMMA AckIndexFacts ==
  /\ AT!AckIndex \subseteq Nat
  /\ \A S \in SUBSET AT!AckIndex : Cardinality(S) \in Nat
<1>1. ACK_TRACKER_CAPACITY \in Nat
  BY CapacityAssumption
<1>2. AT!AckIndex \subseteq Nat /\ IsFiniteSet(AT!AckIndex)
  BY <1>1, FS_Interval DEF AT!AckIndex
<1>3. QED
  BY <1>2, FS_Subset, FS_CardinalityType

\* A slot is free, or holds a message that waits for its ACK or has got it.
LEMMA AckSlotFacts ==
  ASSUME NEW t \in TrackerShape, NEW i \in AT!AckIndex
  PROVE  /\ t.m_slots[i] \in AT!AckSlot
         /\ t.m_slots[i].state \in {"FREE", "PENDING", "ACKED"}
         /\ t.m_slots[i].state # "FREE" =>
              t.m_slots[i] \in [state : {"PENDING", "ACKED"}, env : Envelope,
                                deadline_us : Nat]
BY SameEnvelope DEF TrackerShape, AT!AckSlot, AT!FreeSlot

LEMMA FreeSlotFacts ==
  AT!FreeSlot \in AT!AckSlot /\ AT!FreeSlot.state = "FREE"
BY DEF AT!FreeSlot, AT!AckSlot

LEMMA AckInit ==
  /\ AT!init \in TrackerShape
  /\ Pending(AT!init) = {} /\ Acked(AT!init) = {}
<1>1. AT!init \in TrackerShape
  BY FreeSlotFacts DEF AT!init, TrackerShape
<1>2. \A i \in AT!AckIndex : AT!init.m_slots[i].state = "FREE"
  BY FreeSlotFacts DEF AT!init
<1>3. AT!InState(AT!init, "PENDING") = {} /\ AT!InState(AT!init, "ACKED") = {}
  BY <1>2 DEF AT!InState
<1>4. QED
  BY <1>1, <1>3 DEF Pending, Acked

LEMMA AckTrack ==
  ASSUME NEW t \in TrackerShape, NEW env \in Envelope, NEW d \in Nat,
         AT!track(t, env, d).res = "OK"
  PROVE  LET u == AT!track(t, env, d).tracker
         IN  /\ u \in TrackerShape
             /\ Pending(u) \subseteq Pending(t) \union {env}
             /\ Acked(u) \subseteq Acked(t)
             /\ (\A m \in Pending(t) : m.message_id # env.message_id) =>
                  \A src : \A i, j \in AT!PendingFor(u, src, env.message_id) : i = j
<1> DEFINE u == AT!track(t, env, d).tracker
           k == AT!Min(AT!InState(t, "FREE"))
           slot == [state |-> "PENDING", env |-> env, deadline_us |-> d]
<1>1. AT!InState(t, "FREE") # {}
  BY DEF AT!track
<1>2. k \in AT!InState(t, "FREE") /\ k \in AT!AckIndex
  BY <1>1, AckIndexFacts, FirstIsOne DEF AT!InState
<1> HIDE DEF k
<1>3. u = [t EXCEPT !.m_slots[k] = slot, !.m_count = @ + 1]
  BY <1>1 DEF AT!track, k
<1>4. /\ u.m_slots = [t.m_slots EXCEPT ![k] = slot]
      /\ u.m_count = t.m_count + 1
      /\ u.m_last_sweep_us = t.m_last_sweep_us
      /\ u.acks_received = t.acks_received /\ u.timeouts = t.timeouts
  BY <1>3 DEF TrackerShape
<1>5. slot \in AT!AckSlot
  BY SameEnvelope DEF AT!AckSlot
<1>6. u \in TrackerShape
  <2> HIDE DEF slot, u
  <2>1. u.m_slots \in [AT!AckIndex -> AT!AckSlot]
    BY <1>2, <1>4, <1>5 DEF TrackerShape
  <2>2. u = [t EXCEPT !.m_slots = u.m_slots, !.m_count = u.m_count]
    BY <1>3, <1>4
  <2>3. u.m_count \in Nat
    BY <1>4 DEF TrackerShape
  <2>4. QED
    BY <2>1, <2>2, <2>3 DEF TrackerShape
<1>7. \A i \in AT!AckIndex : u.m_slots[i] = IF i = k THEN slot ELSE t.m_slots[i]
  BY <1>2, <1>4 DEF TrackerShape
<1> HIDE DEF u
<1>8. /\ AT!InState(u, "PENDING") \subseteq AT!InState(t, "PENDING") \union {k}
      /\ AT!InState(u, "ACKED") \subseteq AT!InState(t, "ACKED")
      /\ \A i \in AT!InState(u, "ACKED") : u.m_slots[i] = t.m_slots[i]
  BY <1>7 DEF AT!InState
<1>9. Pending(u) \subseteq Pending(t) \union {env} /\ Acked(u) \subseteq Acked(t)
  BY <1>2, <1>7, <1>8 DEF Pending, Acked, AT!InState
<1>10. ASSUME \A m \in Pending(t) : m.message_id # env.message_id, NEW src,
              NEW i \in AT!PendingFor(u, src, env.message_id)
       PROVE  i = k
  <2>1. i \in AT!InState(u, "PENDING") /\ u.m_slots[i].env.message_id = env.message_id
    BY DEF AT!PendingFor
  <2>2. ASSUME i # k PROVE FALSE
    <3>1. i \in AT!InState(t, "PENDING") /\ u.m_slots[i] = t.m_slots[i]
      BY <1>7, <1>8, <2>1, <2>2 DEF AT!InState
    <3>2. t.m_slots[i].env \in Pending(t)
      BY <3>1 DEF Pending
    <3>3. QED
      BY <1>10, <2>1, <3>1, <3>2
  <2>3. QED
    BY <2>2
<1>11. QED
  BY <1>6, <1>9, <1>10 DEF u

LEMMA AckRelease ==
  ASSUME NEW t \in TrackerShape, NEW S \in SUBSET AT!AckIndex
  PROVE  LET u == AT!Release(t, S)
         IN  /\ u \in TrackerShape
             /\ AT!InState(u, "PENDING") = AT!InState(t, "PENDING") \ S
             /\ AT!InState(u, "ACKED") = AT!InState(t, "ACKED") \ S
             /\ \A i \in AT!AckIndex \ S : u.m_slots[i] = t.m_slots[i]
             /\ Pending(u) \subseteq Pending(t) /\ Acked(u) \subseteq Acked(t)
<1> DEFINE u == AT!Release(t, S)
           f == [i \in AT!AckIndex |-> IF i \in S THEN AT!FreeSlot ELSE t.m_slots[i]]
<1>1. u = [t EXCEPT !.m_slots = f, !.m_count = AT!CountWithout(t, S)]
  BY DEF AT!Release
<1>2. AT!CountWithout(t, S) \in Nat
  BY AckIndexFacts, SameCardinality DEF AT!CountWithout, TrackerShape
<1>3. f \in [AT!AckIndex -> AT!AckSlot]
  BY FreeSlotFacts, AckSlotFacts
<1>4. u \in TrackerShape /\ u.m_slots = f
  <2> HIDE DEF f
  <2> QED
    BY <1>1, <1>2, <1>3 DEF TrackerShape
<1>5. \A i \in AT!AckIndex : /\ i \in S => u.m_slots[i].state = "FREE"
                             /\ i \notin S => u.m_slots[i] = t.m_slots[i]
  BY <1>4, FreeSlotFacts
<1> HIDE DEF u, f
<1>6. /\ AT!InState(u, "PENDING") = AT!InState(t, "PENDING") \ S
      /\ AT!InState(u, "ACKED") = AT!InState(t, "ACKED") \ S
  BY <1>5 DEF AT!InState
<1>7. Pending(u) \subseteq Pending(t) /\ Acked(u) \subseteq Acked(t)
  BY <1>5, <1>6 DEF Pending, Acked, AT!InState
<1>8. QED
  BY <1>4, <1>5, <1>6, <1>7 DEF u

LEMMA AckCancel ==
  ASSUME NEW t \in TrackerShape, NEW src, NEW id
  PROVE  LET u == AT!cancel(t, src, id).tracker
         IN  /\ u \in TrackerShape
             /\ Pending(u) \subseteq Pending(t) /\ Acked(u) \subseteq Acked(t)
             /\ (\A i, j \in AT!PendingFor(t, src, id) : i = j) =>
                  \A m \in Pending(u) : ~(m.source_id = src /\ m.message_id = id)
<1> DEFINE u == AT!cancel(t, src, id).tracker
           P == AT!PendingFor(t, src, id)
           k == AT!Min(P)
<1>1. P \subseteq AT!InState(t, "PENDING") /\ P \subseteq AT!AckIndex
  BY DEF AT!PendingFor, AT!InState
<1>2. CASE P = {}
  <2>1. u = t
    BY <1>2 DEF AT!cancel
  <2>2. ASSUME NEW m \in Pending(t), m.source_id = src, m.message_id = id PROVE FALSE
    BY <1>2, <2>2 DEF Pending, AT!PendingFor
  <2>3. QED
    BY <2>1, <2>2
<1>3. CASE P # {}
  <2>1. k \in P
    BY <1>1, <1>3, AckIndexFacts, FirstIsOne
  <2>2. u = AT!Release(t, {k})
    BY <1>3 DEF AT!cancel
  <2>3. /\ u \in TrackerShape
        /\ AT!InState(u, "PENDING") = AT!InState(t, "PENDING") \ {k}
        /\ \A i \in AT!AckIndex \ {k} : u.m_slots[i] = t.m_slots[i]
        /\ Pending(u) \subseteq Pending(t) /\ Acked(u) \subseteq Acked(t)
    BY <1>1, <2>1, <2>2, AckRelease
  <2> HIDE DEF u, k
  <2>4. ASSUME \A i, j \in P : i = j, NEW m \in Pending(u),
               m.source_id = src, m.message_id = id
        PROVE  FALSE
    <3>1. PICK i \in AT!InState(u, "PENDING") : m = u.m_slots[i].env
      BY <2>4 DEF Pending
    <3>2. i # k /\ i \in AT!InState(t, "PENDING") /\ m = t.m_slots[i].env
      BY <2>3, <3>1 DEF AT!InState
    <3>3. i \in P
      BY <2>4, <3>2 DEF AT!PendingFor
    <3>4. QED
      BY <2>1, <2>4, <3>2, <3>3
  <2>5. QED
    BY <2>3, <2>4 DEF u
<1>4. QED
  BY <1>2, <1>3

LEMMA AckOnAck ==
  ASSUME NEW t \in TrackerShape, NEW src, NEW id
  PROVE  LET u == AT!on_ack(t, src, id).tracker
         IN  /\ u \in TrackerShape
             /\ Pending(u) \subseteq Pending(t)
             /\ \A a \in Acked(u) : \/ a \in Acked(t)
                                    \/ /\ a \in Pending(t)
                                       /\ a.source_id = src /\ a.message_id = id
<1> DEFINE u == AT!on_ack(t, src, id).tracker
           P == AT!PendingFor(t, src, id)
           k == AT!Min(P)
           slot == [t.m_slots[k] EXCEPT !.state = "ACKED"]
<1>1. P \subseteq AT!InState(t, "PENDING") /\ P \subseteq AT!AckIndex
  BY DEF AT!PendingFor, AT!InState
<1>2. CASE P = {}
  <2>1. u = t
    BY <1>2 DEF AT!on_ack
  <2>2. QED
    BY <2>1
<1>3. CASE P # {}
  <2>1. k \in P
    BY <1>1, <1>3, AckIndexFacts, FirstIsOne
  <2>2. u = [t EXCEPT !.m_slots = [@ EXCEPT ![k] = slot], !.acks_received = @ + 1]
    BY <1>3 DEF AT!on_ack
  <2>3. /\ k \in AT!AckIndex /\ k \in AT!InState(t, "PENDING")
        /\ t.m_slots[k].state = "PENDING"
        /\ t.m_slots[k].env.source_id = src /\ t.m_slots[k].env.message_id = id
    BY <2>1 DEF AT!PendingFor, AT!InState
  <2>4. t.m_slots[k] \in [state : {"PENDING", "ACKED"}, env : Envelope, deadline_us : Nat]
    BY <2>3, AckSlotFacts
  <2>5. slot \in AT!AckSlot /\ slot.state = "ACKED" /\ slot.env = t.m_slots[k].env
    BY <2>4, SameEnvelope DEF AT!AckSlot
  <2> HIDE DEF k, slot
  <2>6. /\ u \in TrackerShape
        /\ u.m_slots = [t.m_slots EXCEPT ![k] = slot]
    <3> DEFINE f == [t.m_slots EXCEPT ![k] = slot]
               c == t.acks_received + 1
    <3>1. f \in [AT!AckIndex -> AT!AckSlot] /\ c \in Nat
      BY <2>3, <2>5 DEF TrackerShape
    <3>2. u = [t EXCEPT !.m_slots = f, !.acks_received = c]
      BY <2>2
    <3> HIDE DEF f, c, u
    <3>3. u \in TrackerShape /\ u.m_slots = f
      BY <3>1, <3>2 DEF TrackerShape
    <3>4. QED
      BY <3>3 DEF f
  <2> HIDE DEF u
  <2>7. \A i \in AT!AckIndex : u.m_slots[i] = IF i = k THEN slot ELSE t.m_slots[i]
    BY <2>3, <2>6 DEF TrackerShape
  <2>8. /\ AT!InState(u, "PENDING") \subseteq AT!InState(t, "PENDING")
        /\ AT!InState(u, "ACKED") \subseteq AT!InState(t, "ACKED") \union {k}
        /\ k \notin AT!InState(u, "PENDING")
    BY <2>5, <2>7 DEF AT!InState
  <2>9. Pending(u) \subseteq Pending(t)
    BY <2>7, <2>8 DEF Pending, AT!InState
  <2>10. ASSUME NEW a \in Acked(u)
         PROVE  a \in Acked(t) \/ a = t.m_slots[k].env
    <3>1. PICK i \in AT!InState(u, "ACKED") : a = u.m_slots[i].env
      BY DEF Acked
    <3>2. CASE i = k
      BY <2>3, <2>5, <2>7, <3>1, <3>2
    <3>3. CASE i # k
      BY <2>7, <2>8, <3>1, <3>3 DEF Acked, AT!InState
    <3>4. QED
      BY <3>2, <3>3
  <2>11. t.m_slots[k].env \in Pending(t)
    BY <2>3 DEF Pending
  <2>12. QED
    BY <2>3, <2>6, <2>9, <2>10, <2>11 DEF u
<1>4. QED
  BY <1>2, <1>3

LEMMA AckCancelPeer ==
  ASSUME NEW t \in TrackerShape, NEW dst
  PROVE  LET u == AT!cancel_peer(t, dst).tracker
         IN  /\ u \in TrackerShape
             /\ Acked(u) \subseteq Acked(t)
             /\ \A m \in Pending(u) : m \in Pending(t) /\ m.destination_id # dst
<1> DEFINE S == AT!PendingTo(t, dst)
           u == AT!Release(t, S)
<1>1. AT!cancel_peer(t, dst).tracker = u
  BY DEF AT!cancel_peer
<1>2. S \in SUBSET AT!AckIndex
  BY DEF AT!PendingTo, AT!InState
<1>3. /\ u \in TrackerShape
      /\ AT!InState(u, "PENDING") = AT!InState(t, "PENDING") \ S
      /\ \A i \in AT!AckIndex \ S : u.m_slots[i] = t.m_slots[i]
      /\ Pending(u) \subseteq Pending(t) /\ Acked(u) \subseteq Acked(t)
  BY <1>2, AckRelease
<1> HIDE DEF u
<1>4. ASSUME NEW m \in Pending(u) PROVE m.destination_id # dst
  <2>1. PICK i \in AT!InState(u, "PENDING") : m = u.m_slots[i].env
    BY DEF Pending
  <2>2. i \in AT!InState(t, "PENDING") /\ i \notin S /\ m = t.m_slots[i].env
    BY <1>3, <2>1 DEF AT!InState
  <2>3. QED
    BY <2>2 DEF AT!PendingTo
<1>5. QED
  BY <1>1, <1>3, <1>4

LEMMA AckSweep ==
  ASSUME NEW t \in TrackerShape, NEW now \in Nat, NEW cap
  PROVE  LET u == AT!sweep_expired(t, now, cap).tracker
         IN  /\ u \in TrackerShape
             /\ Pending(u) \subseteq Pending(t) /\ Acked(u) \subseteq Acked(t)
<1> DEFINE w == AT!SweepTime(t, now)
           S == AT!Overdue(t, w)
           r == AT!Release(t, S \union AT!InState(t, "ACKED"))
           u == [r EXCEPT !.m_last_sweep_us = w, !.timeouts = @ + AT!Cardinality(S)]
<1>1. AT!sweep_expired(t, now, cap).tracker = u
  BY DEF AT!sweep_expired
<1>2. S \in SUBSET AT!AckIndex /\ AT!InState(t, "ACKED") \in SUBSET AT!AckIndex
  BY DEF AT!Overdue, AT!InState
<1>3. r \in TrackerShape /\ Pending(r) \subseteq Pending(t) /\ Acked(r) \subseteq Acked(t)
  BY <1>2, AckRelease
<1>4. w \in Nat /\ AT!Cardinality(S) \in Nat
  BY <1>2, AckIndexFacts, SameCardinality DEF AT!SweepTime, TrackerShape
<1> HIDE DEF r, w, S
<1>5. u \in TrackerShape /\ u.m_slots = r.m_slots
  <2> DEFINE c == r.timeouts + AT!Cardinality(S)
  <2>1. c \in Nat
    BY <1>3, <1>4 DEF TrackerShape
  <2>2. u = [r EXCEPT !.m_last_sweep_us = w, !.timeouts = c]
    OBVIOUS
  <2> HIDE DEF c, u
  <2>3. QED
    BY <1>3, <1>4, <2>1, <2>2 DEF TrackerShape
<1>6. Pending(u) = Pending(r) /\ Acked(u) = Acked(r)
  BY <1>5 DEF Pending, Acked, AT!InState
<1>7. QED
  BY <1>1, <1>3, <1>5, <1>6

-----------------------------------------------------------------------------
(* The RetryManager. *)

LEMMA RetryIndexFacts ==
  /\ RM!RetryIndex \subseteq Nat
  /\ \A S \in SUBSET RM!RetryIndex : Cardinality(S) \in Nat
<1>1. ACK_TRACKER_CAPACITY \in Nat
  BY CapacityAssumption
<1>2. RM!RetryIndex \subseteq Nat /\ IsFiniteSet(RM!RetryIndex)
  BY <1>1, FS_Interval DEF RM!RetryIndex
<1>3. QED
  BY <1>2, FS_Subset, FS_CardinalityType

LEMMA RetrySlotFacts ==
  ASSUME NEW r \in ManagerShape, NEW i \in RM!RetryIndex
  PROVE  /\ r.m_slots[i] \in RM!RetrySlot
         /\ i \in RM!Active(r) =>
              /\ r.m_slots[i] \in [active : {TRUE}, env : Envelope, next_retry_us : Nat,
                                   expiry_us : Nat, retry_count : Nat, max_retries : Nat,
                                   backoff_ms : Nat]
              /\ r.m_slots[i].env \in Envelope
<1>1. r.m_slots[i] \in RM!RetrySlot
  BY DEF ManagerShape
<1>2. CASE r.m_slots[i] = RM!IdleSlot
  <2>1. r.m_slots[i].active = FALSE
    BY <1>2 DEF RM!IdleSlot
  <2>2. i \notin RM!Active(r)
    BY <2>1 DEF RM!Active
  <2>3. QED
    BY <1>1, <2>2
<1>3. CASE r.m_slots[i] # RM!IdleSlot
  BY <1>1, <1>3, SameEnvelope DEF RM!RetrySlot
<1>4. QED
  BY <1>2, <1>3

LEMMA IdleSlotFacts == RM!IdleSlot \in RM!RetrySlot /\ RM!IdleSlot.active = FALSE
BY DEF RM!IdleSlot, RM!RetrySlot

LEMMA RetryInit ==
  RM!init \in ManagerShape /\ Retried(RM!init) = {} /\ RetriedOnce(RM!init)
<1>1. RM!init \in ManagerShape
  BY IdleSlotFacts DEF RM!init, ManagerShape
<1>2. \A i \in RM!RetryIndex : RM!init.m_slots[i].active = FALSE
  BY IdleSlotFacts DEF RM!init
<1>3. RM!Active(RM!init) = {}
  BY <1>2 DEF RM!Active
<1>4. QED
  BY <1>1, <1>3 DEF Retried, RetriedOnce

\* Releasing entries of the table, or changing what does not concern it.
LEMMA RetryShrinks ==
  ASSUME NEW r, NEW u, RM!Active(u) \subseteq RM!Active(r),
         \A i \in RM!Active(u) : u.m_slots[i].env = r.m_slots[i].env
  PROVE  /\ Retried(u) \subseteq Retried(r)
         /\ RetriedOnce(r) => RetriedOnce(u)
BY DEF Retried, RetriedOnce

LEMMA RetryDeactivate ==
  ASSUME NEW r \in ManagerShape, NEW S \in SUBSET RM!RetryIndex
  PROVE  LET u == RM!Deactivate(r, S)
         IN  /\ u \in ManagerShape
             /\ RM!Active(u) = RM!Active(r) \ S
             /\ \A i \in RM!RetryIndex \ S : u.m_slots[i] = r.m_slots[i]
             /\ Retried(u) \subseteq Retried(r)
             /\ RetriedOnce(r) => RetriedOnce(u)
<1> DEFINE u == RM!Deactivate(r, S)
           f == [i \in RM!RetryIndex |-> IF i \in S THEN RM!IdleSlot ELSE r.m_slots[i]]
           c == r.m_count - RM!Cardinality(S)
<1>1. u = [r EXCEPT !.m_slots = f, !.m_count = c]
  BY DEF RM!Deactivate
<1>2. c \in Int
  BY RetryIndexFacts, SameCardinality DEF ManagerShape
<1>3. f \in [RM!RetryIndex -> RM!RetrySlot]
  BY IdleSlotFacts, RetrySlotFacts
<1>4. u \in ManagerShape /\ u.m_slots = f
  <2> HIDE DEF f, c, u
  <2> QED
    BY <1>1, <1>2, <1>3 DEF ManagerShape
<1>5. \A i \in RM!RetryIndex : /\ i \in S => u.m_slots[i].active = FALSE
                               /\ i \notin S => u.m_slots[i] = r.m_slots[i]
  BY <1>4, IdleSlotFacts
<1> HIDE DEF u, f, c
<1>6. RM!Active(u) = RM!Active(r) \ S
  BY <1>5 DEF RM!Active
<1>7. \A i \in RM!Active(u) : u.m_slots[i].env = r.m_slots[i].env
  BY <1>5, <1>6 DEF RM!Active
<1>8. QED
  BY <1>4, <1>5, <1>6, <1>7, RetryShrinks DEF u

LEMMA RetrySchedule ==
  ASSUME NEW r \in ManagerShape, NEW env \in Envelope, NEW max \in Nat, NEW back \in Nat,
         NEW now \in Nat, RM!schedule(r, env, max, back, now).res = "OK"
  PROVE  LET u == RM!schedule(r, env, max, back, now).manager
         IN  /\ u \in ManagerShape
             /\ Retried(u) \subseteq Retried(r) \union {env}
             /\ /\ RetriedOnce(r)
                /\ \A m \in Retried(r) : m.message_id # env.message_id
                => RetriedOnce(u)
<1> DEFINE u == RM!schedule(r, env, max, back, now).manager
           k == RM!Min(RM!RetryIndex \ RM!Active(r))
           slot == [active |-> TRUE, env |-> env, next_retry_us |-> now,
                    expiry_us |-> env.expiry_time_us, retry_count |-> 0,
                    max_retries |-> max, backoff_ms |-> back]
<1>1. RM!RetryIndex \ RM!Active(r) # {}
  BY DEF RM!schedule, RM!Active
<1>2. k \in RM!RetryIndex \ RM!Active(r)
  BY <1>1, RetryIndexFacts, FirstIsOne
<1>3. u = [r EXCEPT !.m_slots = [@ EXCEPT ![k] = slot], !.m_count = @ + 1]
  BY <1>1 DEF RM!schedule
<1>4. slot \in RM!RetrySlot /\ slot.env = env /\ slot.active = TRUE
  BY SameEnvelope DEF RM!RetrySlot, Envelope
<1> HIDE DEF k, slot
<1>5. u \in ManagerShape /\ u.m_slots = [r.m_slots EXCEPT ![k] = slot]
  <2> DEFINE f == [r.m_slots EXCEPT ![k] = slot]
             c == r.m_count + 1
  <2>1. f \in [RM!RetryIndex -> RM!RetrySlot] /\ c \in Int
    BY <1>2, <1>4 DEF ManagerShape
  <2>2. u = [r EXCEPT !.m_slots = f, !.m_count = c]
    BY <1>3
  <2> HIDE DEF f, c, u
  <2>3. u \in ManagerShape /\ u.m_slots = f
    BY <2>1, <2>2 DEF ManagerShape
  <2>4. QED
    BY <2>3 DEF f
<1> HIDE DEF u
<1>6. \A i \in RM!RetryIndex : u.m_slots[i] = IF i = k THEN slot ELSE r.m_slots[i]
  BY <1>2, <1>5 DEF ManagerShape
<1>7. RM!Active(u) \subseteq RM!Active(r) \union {k}
  BY <1>6 DEF RM!Active
<1>8. \A i \in RM!Active(u) : u.m_slots[i].env = IF i = k THEN env ELSE r.m_slots[i].env
  BY <1>4, <1>6 DEF RM!Active
<1>9. Retried(u) \subseteq Retried(r) \union {env}
  BY <1>7, <1>8 DEF Retried
<1>10. ASSUME RetriedOnce(r), \A m \in Retried(r) : m.message_id # env.message_id
       PROVE  RetriedOnce(u)
  <2>1. \A i \in RM!Active(u) \ {k} : /\ i \in RM!Active(r)
                                      /\ r.m_slots[i].env \in Retried(r)
    BY <1>7 DEF Retried
  <2>2. QED
    BY <1>8, <1>10, <2>1 DEF RetriedOnce
<1>11. QED
  BY <1>5, <1>9, <1>10 DEF u

LEMMA RetryCancel ==
  ASSUME NEW r \in ManagerShape, RetriedOnce(r), NEW src, NEW id
  PROVE  LET u == RM!cancel(r, src, id).manager
         IN  /\ u \in ManagerShape /\ RetriedOnce(u)
             /\ \A m \in Retried(u) : /\ m \in Retried(r)
                                      /\ ~(m.source_id = src /\ m.message_id = id)
<1> DEFINE u == RM!cancel(r, src, id).manager
           P == RM!ActiveFor(r, src, id)
           k == RM!Min(P)
<1>1. P \subseteq RM!Active(r) /\ P \subseteq RM!RetryIndex
  BY DEF RM!ActiveFor, RM!Active
<1>2. CASE P = {}
  <2>1. u = r
    BY <1>2 DEF RM!cancel
  <2>2. ASSUME NEW m \in Retried(r), m.source_id = src, m.message_id = id PROVE FALSE
    BY <1>2, <2>2 DEF Retried, RM!ActiveFor
  <2>3. QED
    BY <2>1, <2>2
<1>3. CASE P # {}
  <2>1. k \in P
    BY <1>1, <1>3, RetryIndexFacts, FirstIsOne
  <2>2. u = RM!Deactivate(r, {k})
    BY <1>3 DEF RM!cancel
  <2>3. /\ u \in ManagerShape
        /\ RM!Active(u) = RM!Active(r) \ {k}
        /\ \A i \in RM!RetryIndex \ {k} : u.m_slots[i] = r.m_slots[i]
        /\ Retried(u) \subseteq Retried(r) /\ RetriedOnce(u)
    BY <1>1, <2>1, <2>2, RetryDeactivate
  <2> HIDE DEF u, k
  <2>4. ASSUME NEW m \in Retried(u), m.source_id = src, m.message_id = id
        PROVE  FALSE
    <3>1. PICK i \in RM!Active(u) : m = u.m_slots[i].env
      BY DEF Retried
    <3>2. i # k /\ i \in RM!Active(r) /\ m = r.m_slots[i].env
      BY <2>3, <3>1 DEF RM!Active
    <3>3. i \in P
      BY <2>4, <3>2 DEF RM!ActiveFor
    <3>4. r.m_slots[k].env.message_id = id /\ k \in RM!Active(r)
      BY <2>1 DEF RM!ActiveFor
    <3>5. QED
      BY <2>4, <3>2, <3>4 DEF RetriedOnce
  <2>5. QED
    BY <2>3, <2>4 DEF u
<1>4. QED
  BY <1>2, <1>3

LEMMA RetryOnAck ==
  ASSUME NEW r \in ManagerShape, RetriedOnce(r), NEW src, NEW id
  PROVE  LET u == RM!on_ack(r, src, id).manager
         IN  /\ u \in ManagerShape /\ RetriedOnce(u)
             /\ \A m \in Retried(u) : /\ m \in Retried(r)
                                      /\ ~(m.source_id = src /\ m.message_id = id)
<1> DEFINE c == RM!cancel(r, src, id)
           v == c.manager
           u == RM!on_ack(r, src, id).manager
<1>1. /\ v \in ManagerShape /\ RetriedOnce(v)
      /\ \A m \in Retried(v) : /\ m \in Retried(r)
                               /\ ~(m.source_id = src /\ m.message_id = id)
  BY RetryCancel
<1>2. c = [res |-> c.res, manager |-> c.manager]
  BY DEF RM!cancel
<1>3. u = v \/ u = [v EXCEPT !.acks_received = @ + 1]
  <2> HIDE DEF c
  <2> QED
    BY <1>2 DEF RM!on_ack, c
<1>4. u \in ManagerShape /\ u.m_slots = v.m_slots
  <2> DEFINE a == v.acks_received + 1
  <2>1. a \in Nat
    BY <1>1 DEF ManagerShape
  <2>2. u = v \/ u = [v EXCEPT !.acks_received = a]
    BY <1>3
  <2> HIDE DEF a, u, v
  <2>3. QED
    BY <1>1, <2>1, <2>2 DEF ManagerShape
<1>5. RM!Active(u) = RM!Active(v)
  BY <1>4 DEF RM!Active
<1>6. Retried(u) = Retried(v) /\ RetriedOnce(u)
  BY <1>1, <1>4, <1>5 DEF Retried, RetriedOnce
<1>7. QED
  BY <1>1, <1>4, <1>6

LEMMA RetryCancelPeer ==
  ASSUME NEW r \in ManagerShape, RetriedOnce(r), NEW dst
  PROVE  LET u == RM!cancel_peer(r, dst).manager
         IN  /\ u \in ManagerShape /\ RetriedOnce(u)
             /\ \A m \in Retried(u) : m \in Retried(r) /\ m.destination_id # dst
<1> DEFINE S == RM!ActiveTo(r, dst)
           u == RM!Deactivate(r, S)
<1>1. RM!cancel_peer(r, dst).manager = u
  BY DEF RM!cancel_peer
<1>2. S \in SUBSET RM!RetryIndex
  BY DEF RM!ActiveTo, RM!Active
<1>3. /\ u \in ManagerShape
      /\ RM!Active(u) = RM!Active(r) \ S
      /\ \A i \in RM!RetryIndex \ S : u.m_slots[i] = r.m_slots[i]
      /\ Retried(u) \subseteq Retried(r) /\ RetriedOnce(u)
  BY <1>2, RetryDeactivate
<1> HIDE DEF u
<1>4. ASSUME NEW m \in Retried(u) PROVE m.destination_id # dst
  <2>1. PICK i \in RM!Active(u) : m = u.m_slots[i].env
    BY DEF Retried
  <2>2. i \in RM!Active(r) /\ i \notin S /\ m = r.m_slots[i].env
    BY <1>3, <2>1 DEF RM!Active
  <2>3. QED
    BY <2>2 DEF RM!ActiveTo
<1>5. QED
  BY <1>1, <1>3, <1>4

\* An entry after a retransmission is an entry for the same message.
LEMMA RetriedSlot ==
  ASSUME NEW r \in ManagerShape, NEW i \in RM!Active(r), NEW now \in Nat
  PROVE  LET s == RM!Retried(r.m_slots[i], now)
         IN  s \in RM!RetrySlot /\ s.active = TRUE /\ s.env = r.m_slots[i].env
<1> DEFINE old == r.m_slots[i]
           b == RM!advance_backoff(old.backoff_ms)
           s == RM!Retried(old, now)
<1>1. old \in [active : {TRUE}, env : Envelope, next_retry_us : Nat, expiry_us : Nat,
               retry_count : Nat, max_retries : Nat, backoff_ms : Nat]
  BY RetrySlotFacts DEF RM!Active
<1>2. b \in Nat
  <2>1. BACKOFF_CAP \in Nat /\ BACKOFF_CAP \div 2 \in Nat
    BY CapacityAssumption
  <2>2. old.backoff_ms \in Nat
    BY <1>1
  <2> HIDE DEF old
  <2>3. QED
    BY <2>1, <2>2 DEF RM!advance_backoff
<1> DEFINE c == old.retry_count + 1
           t == now + b
<1>3. c \in Nat /\ t \in Nat
  <2>1. old.retry_count \in Nat
    BY <1>1
  <2> HIDE DEF old, b
  <2>2. QED
    BY <1>2, <2>1
<1>4. s = [old EXCEPT !.retry_count = c, !.backoff_ms = b, !.next_retry_us = t]
  BY DEF RM!Retried
<1> HIDE DEF old, b, c, t, s
<1>5. /\ s \in [active : {TRUE}, env : Envelope, next_retry_us : Nat, expiry_us : Nat,
                retry_count : Nat, max_retries : Nat, backoff_ms : Nat]
      /\ s.env = old.env
  BY <1>1, <1>2, <1>3, <1>4
<1>6. QED
  BY <1>5, SameEnvelope DEF RM!RetrySlot, old, s

LEMMA RetryCollect ==
  ASSUME NEW r \in ManagerShape, RetriedOnce(r), NEW now_us \in Nat, NEW cap
  PROVE  LET c == RM!collect_due(r, now_us, cap)
         IN  /\ c.manager \in ManagerShape /\ RetriedOnce(c.manager)
             /\ Retried(c.manager) \subseteq Retried(r)
             /\ c.due \subseteq Retried(r)
<1> DEFINE now == RM!CollectTime(r, now_us)
           X == RM!Expired(r, now)
           Y == RM!Exhausted(r) \ X
           v == RM!Deactivate(r, X \union Y)
           p == RM!reap_terminated_slots(r, now)
           D == RM!FirstN(RM!Due(p, now), cap)
           c == RM!collect_due(r, now_us, cap)
           u == c.manager
           f == [i \in RM!RetryIndex |-> IF i \in D THEN RM!Retried(p.m_slots[i], now)
                                                    ELSE p.m_slots[i]]
<1>1. now \in Nat
  BY DEF RM!CollectTime, ManagerShape
<1>2. X \subseteq RM!RetryIndex /\ Y \subseteq RM!RetryIndex
  BY DEF RM!Expired, RM!Exhausted, RM!Active
<1>3. /\ v \in ManagerShape
      /\ Retried(v) \subseteq Retried(r) /\ RetriedOnce(v)
  BY <1>2, RetryDeactivate
<1> HIDE DEF now, X, Y, v
<1>4. p \in ManagerShape /\ p.m_slots = v.m_slots
  <2> DEFINE a == v.slots_expired + RM!Cardinality(X)
             b == v.slots_exhausted + RM!Cardinality(Y)
  <2>1. a \in Nat /\ b \in Nat
    BY <1>2, <1>3, RetryIndexFacts, SameCardinality DEF ManagerShape
  <2>2. p = [v EXCEPT !.slots_expired = a, !.slots_exhausted = b]
    BY DEF RM!reap_terminated_slots, v, X, Y
  <2> HIDE DEF a, b, p
  <2>3. QED
    BY <1>3, <2>1, <2>2 DEF ManagerShape
<1>5. RM!Active(p) = RM!Active(v)
  BY <1>4 DEF RM!Active
<1>6. Retried(p) = Retried(v) /\ RetriedOnce(p)
  BY <1>3, <1>4, <1>5 DEF Retried, RetriedOnce
<1>7. D \subseteq RM!Active(p) /\ D \subseteq RM!RetryIndex
  BY DEF RM!FirstN, RM!Due, RM!Active
<1>8. c.due = {p.m_slots[i].env : i \in D}
  BY DEF RM!collect_due, now
<1>9. c.due \subseteq Retried(r)
  BY <1>3, <1>6, <1>7, <1>8 DEF Retried
<1> HIDE DEF p, D
<1>10. \A i \in RM!RetryIndex : /\ f[i] \in RM!RetrySlot
                                /\ f[i].active = p.m_slots[i].active
                                /\ i \in RM!Active(p) => f[i].env = p.m_slots[i].env
  <2> SUFFICES ASSUME NEW i \in RM!RetryIndex
               PROVE  /\ f[i] \in RM!RetrySlot
                      /\ f[i].active = p.m_slots[i].active
                      /\ i \in RM!Active(p) => f[i].env = p.m_slots[i].env
    BY Zenon
  <2>1. CASE i \in D
    <3>1. i \in RM!Active(p) /\ f[i] = RM!Retried(p.m_slots[i], now)
      BY <1>7, <2>1
    <3>2. f[i] \in RM!RetrySlot /\ f[i].active = TRUE /\ f[i].env = p.m_slots[i].env
      BY <1>1, <1>4, <3>1, RetriedSlot
    <3>3. p.m_slots[i].active = TRUE
      BY <1>4, <3>1, RetrySlotFacts
    <3>4. QED
      BY <3>2, <3>3
  <2>2. CASE i \notin D
    BY <1>4, <2>2, RetrySlotFacts
  <2>3. QED
    BY <2>1, <2>2
<1>11. u \in ManagerShape /\ u.m_slots = f
  <2> DEFINE a == p.retries_sent + RM!Cardinality(D)
  <2>1. a \in Nat
    BY <1>4, <1>7, RetryIndexFacts, SameCardinality DEF ManagerShape
  <2>2. u = [p EXCEPT !.m_slots = f, !.m_last_collect_us = now, !.retries_sent = a]
    BY DEF RM!collect_due, p, D, now
  <2>3. f \in [RM!RetryIndex -> RM!RetrySlot]
    BY <1>10
  <2> HIDE DEF a, f, u
  <2>4. QED
    BY <1>1, <1>4, <2>1, <2>2, <2>3 DEF ManagerShape
<1> HIDE DEF u, f
<1>12. RM!Active(u) = RM!Active(p) /\ \A i \in RM!Active(u) : u.m_slots[i].env = p.m_slots[i].env
  BY <1>10, <1>11 DEF RM!Active
<1>13. Retried(u) \subseteq Retried(p) /\ RetriedOnce(u)
  BY <1>6, <1>12, RetryShrinks
<1>14. QED
  BY <1>3, <1>6, <1>9, <1>11, <1>13 DEF u


-----------------------------------------------------------------------------
(* The OrderingBuffer. *)

LEMMA TableIndices ==
  /\ OB!HoldIndex \subseteq Nat /\ OB!PeerIndex \subseteq Nat
  /\ IsFiniteSet(OB!HoldIndex) /\ IsFiniteSet(OB!PeerIndex)
  /\ Cardinality(OB!HoldIndex) < Cardinality(OB!PeerIndex)
<1>1. /\ ORDERING_HOLD_COUNT \in Nat /\ ORDERING_PEER_COUNT \in Nat
      /\ ORDERING_HOLD_COUNT >= 1 /\ ORDERING_PEER_COUNT >= 1
      /\ ORDERING_HOLD_COUNT < ORDERING_PEER_COUNT
  BY CapacityAssumption
<1>2. /\ IsFiniteSet(OB!HoldIndex) /\ IsFiniteSet(OB!PeerIndex)
      /\ Cardinality(OB!HoldIndex) = ORDERING_HOLD_COUNT
      /\ Cardinality(OB!PeerIndex) = ORDERING_PEER_COUNT
  BY <1>1, FS_Interval DEF OB!HoldIndex, OB!PeerIndex
<1>3. OB!HoldIndex \subseteq Nat /\ OB!PeerIndex \subseteq Nat
  BY <1>1 DEF OB!HoldIndex, OB!PeerIndex
<1>4. QED
  BY <1>1, <1>2, <1>3

\* What a slot of either table is.
LEMMA SlotFacts ==
  ASSUME NEW o \in OB!Buffer
  PROVE  /\ \A h \in OB!HoldIndex : /\ o.m_hold[h] \in OB!HoldSlot
                                    /\ o.m_hold[h].active \in BOOLEAN
                                    /\ ~o.m_hold[h].active => o.m_hold[h] = OB!NoHold
                                    /\ o.m_hold[h].active => o.m_hold[h].env \in Envelope
         /\ \A i \in OB!PeerIndex : /\ o.m_peers[i] \in OB!PeerState
                                    /\ o.m_peers[i].active \in BOOLEAN
                                    /\ o.m_peers[i].active =>
                                         /\ o.m_peers[i].src \in Node
                                         /\ o.m_peers[i].next_expected_seq \in 1 .. SEQ_MAX
<1>1. ASSUME NEW s \in OB!HoldSlot
      PROVE  /\ s.active \in BOOLEAN
             /\ ~s.active => s = OB!NoHold
             /\ s.active => s.env \in Envelope
  <2>1. CASE s = OB!NoHold
    <3>1. s.active = FALSE
      BY <2>1 DEF OB!NoHold
    <3>2. QED
      BY <2>1, <3>1
  <2>2. CASE s \in [active : {TRUE}, env : Envelope]
    <3>1. s.active = TRUE /\ s.env \in Envelope
      BY <2>2
    <3>2. QED
      BY <3>1
  <2>3. QED
    BY <2>1, <2>2, SameEnvelope DEF OB!HoldSlot
<1>2. ASSUME NEW s \in OB!PeerState
      PROVE  /\ s.active \in BOOLEAN
             /\ s.active => s.src \in Node /\ s.next_expected_seq \in 1 .. SEQ_MAX
  <2>1. CASE s = OB!NoPeer
    <3>1. s.active = FALSE
      BY <2>1 DEF OB!NoPeer
    <3>2. QED
      BY <3>1
  <2>2. CASE s \in [active : {TRUE}, src : Node, next_expected_seq : 1 .. SEQ_MAX]
    <3>1. /\ s.active = TRUE /\ s.src \in Node
          /\ s.next_expected_seq \in 1 .. SEQ_MAX
      BY <2>2
    <3>2. QED
      BY <3>1
  <2>3. QED
    BY <2>1, <2>2 DEF OB!PeerState
<1>3. o.m_hold \in [OB!HoldIndex -> OB!HoldSlot] /\ o.m_peers \in [OB!PeerIndex -> OB!PeerState]
  BY DEF OB!Buffer
<1>4. QED
  BY <1>1, <1>2, <1>3

\* Slots of the types the tables have.
LEMMA NewSlots ==
  /\ OB!NoHold \in OB!HoldSlot /\ OB!NoHold.active = FALSE
  /\ \A e \in Envelope : /\ [active |-> TRUE, env |-> e] \in OB!HoldSlot
                         /\ [active |-> TRUE, env |-> e].active = TRUE
                         /\ [active |-> TRUE, env |-> e].env = e
  /\ \A n \in Node : \A s \in 1 .. SEQ_MAX :
       [active |-> TRUE, src |-> n, next_expected_seq |-> s] \in OB!PeerState
BY SameEnvelope DEF OB!HoldSlot, OB!NoHold, OB!PeerState

\* The successors of a sequence number.
LEMMA NextNumbers ==
  /\ \A s \in 1 .. SEQ_MAX : OB!advance_next_expected(s) \in 1 .. SEQ_MAX
  /\ \A s \in Nat : OB!seq_next_guarded(s) \in 1 .. SEQ_MAX
BY CapacityAssumption DEF OB!advance_next_expected, OB!seq_next_guarded

LEMMA OrderingInit ==
  OB!init \in OB!Buffer /\ PeersOK(OB!init) /\ OB!Held(OB!init) = {} /\ Holding(OB!init) = {}
<1>1. OB!init \in OB!Buffer
  BY DEF OB!init, OB!Buffer, OB!HoldSlot, OB!PeerState
<1>2. /\ \A h \in OB!HoldIndex : OB!init.m_hold[h].active = FALSE
      /\ \A i \in OB!PeerIndex : OB!init.m_peers[i].active = FALSE
  BY DEF OB!init, OB!NoHold, OB!NoPeer
<1>3. OB!Held(OB!init) = {} /\ Holding(OB!init) = {}
  BY <1>2 DEF OB!Held, Holding
<1>4. QED
  BY <1>1, <1>2, <1>3 DEF PeersOK

\* A source has one slot, with a gate.
LEMMA GateFacts ==
  ASSUME NEW o \in OB!Buffer, PeersOK(o), NEW n
  PROVE  /\ \A i \in OB!find_peer(o, n) : /\ OB!find_peer(o, n) = {i}
                                          /\ o.m_peers[i].next_expected_seq \in 1 .. SEQ_MAX
         /\ OB!find_peer(o, n) # {} => OB!Min(OB!find_peer(o, n)) \in OB!find_peer(o, n)
<1>1. ASSUME NEW i \in OB!find_peer(o, n)
      PROVE  OB!find_peer(o, n) = {i}
  BY <1>1 DEF OB!find_peer, PeersOK
<1>2. \A i \in OB!find_peer(o, n) : o.m_peers[i].next_expected_seq \in 1 .. SEQ_MAX
  BY SlotFacts DEF OB!find_peer
<1>3. OB!find_peer(o, n) # {} => OB!Min(OB!find_peer(o, n)) \in OB!find_peer(o, n)
  BY TableIndices, FirstIsOne DEF OB!find_peer
<1>4. QED
  BY <1>1, <1>2, <1>3

(***************************************************************************)
(* Most operations release held messages and move gates: the messages held *)
(* afterwards are some of those held before, and the peer slots belong to  *)
(* the same sources.                                                       *)
(***************************************************************************)
Shrunk(o, p) ==
  /\ p \in OB!Buffer
  /\ \A h \in OB!HoldIndex : p.m_hold[h] = o.m_hold[h] \/ p.m_hold[h] = OB!NoHold
  /\ \A i \in OB!PeerIndex : /\ p.m_peers[i].active <=> o.m_peers[i].active
                             /\ p.m_peers[i].active =>
                                  p.m_peers[i].src = o.m_peers[i].src

LEMMA ShrunkFacts ==
  ASSUME NEW o \in OB!Buffer, NEW p, Shrunk(o, p)
  PROVE  /\ p \in OB!Buffer
         /\ \A n : OB!find_peer(p, n) = OB!find_peer(o, n)
         /\ OB!Held(p) \subseteq OB!Held(o)
         /\ \A h \in OB!Held(p) : p.m_hold[h] = o.m_hold[h]
         /\ Holding(p) \subseteq Holding(o)
         /\ PeersOK(o) => PeersOK(p)
<1>1. \A h \in OB!HoldIndex : p.m_hold[h].active => p.m_hold[h] = o.m_hold[h]
  BY NewSlots DEF Shrunk
<1>2. /\ OB!Held(p) \subseteq OB!Held(o)
      /\ \A h \in OB!Held(p) : p.m_hold[h] = o.m_hold[h]
  BY <1>1 DEF OB!Held
<1>3. Holding(p) \subseteq Holding(o)
  BY <1>2 DEF Holding
<1>4. \A n : OB!find_peer(p, n) = OB!find_peer(o, n)
  BY DEF Shrunk, OB!find_peer
<1>5. ASSUME PeersOK(o) PROVE PeersOK(p)
  BY <1>3, <1>4, <1>5 DEF Shrunk, PeersOK
<1>6. QED
  BY <1>2, <1>3, <1>4, <1>5 DEF Shrunk

\* Two such steps in a row are one, and none is one.
LEMMA ShrunkTwice ==
  /\ \A o, p, q : Shrunk(o, p) /\ Shrunk(p, q) => Shrunk(o, q)
  /\ \A o \in OB!Buffer : Shrunk(o, o)
BY DEF Shrunk

\* A gate is moved.
LEMMA MoveGate ==
  ASSUME NEW o \in OB!Buffer, NEW n, NEW i \in OB!find_peer(o, n), NEW v \in 1 .. SEQ_MAX
  PROVE  LET p == [o EXCEPT !.m_peers[i].next_expected_seq = v]
         IN  Shrunk(o, p) /\ p.m_hold = o.m_hold
<1> DEFINE p == [o EXCEPT !.m_peers[i].next_expected_seq = v]
           s == o.m_peers[i]
           t == [s EXCEPT !.next_expected_seq = v]
<1>1. i \in OB!PeerIndex /\ s.active /\ s.src = n
  BY DEF OB!find_peer
<1>2. s \in [active : {TRUE}, src : Node, next_expected_seq : 1 .. SEQ_MAX]
  <2>1. s \in OB!PeerState
    BY <1>1, SlotFacts
  <2>2. s # OB!NoPeer
    BY <1>1 DEF OB!NoPeer
  <2>3. QED
    BY <2>1, <2>2 DEF OB!PeerState
<1>3. t \in OB!PeerState /\ t.active = s.active /\ t.src = s.src
  BY <1>2 DEF OB!PeerState
<1>4. /\ p.m_hold = o.m_hold /\ p.m_peers = [o.m_peers EXCEPT ![i] = t]
      /\ p = [m_hold |-> o.m_hold, m_peers |-> [o.m_peers EXCEPT ![i] = t]]
  BY DEF OB!Buffer
<1> HIDE DEF t
<1>5. p.m_peers[i] = t /\ \A j \in OB!PeerIndex \ {i} : p.m_peers[j] = o.m_peers[j]
  BY <1>1, <1>4 DEF OB!Buffer
<1>6. p \in OB!Buffer
  BY <1>1, <1>3, <1>4 DEF OB!Buffer
<1> HIDE DEF p, s
<1>7. Shrunk(o, p)
  BY <1>3, <1>4, <1>5, <1>6 DEF Shrunk, s
<1>8. QED
  BY <1>4, <1>7 DEF p

\* Messages are released.
LEMMA UnholdShrinks ==
  ASSUME NEW o \in OB!Buffer, NEW S
  PROVE  /\ Shrunk(o, OB!Unhold(o, S))
         /\ OB!Unhold(o, S).m_peers = o.m_peers
         /\ \A h \in OB!HoldIndex : OB!Unhold(o, S).m_hold[h] =
                                   IF h \in S THEN OB!NoHold ELSE o.m_hold[h]
<1> DEFINE u == OB!Unhold(o, S)
           H == [h \in OB!HoldIndex |-> IF h \in S THEN OB!NoHold ELSE o.m_hold[h]]
<1>1. H \in [OB!HoldIndex -> OB!HoldSlot]
  BY SlotFacts, NewSlots
<1>2. u = [m_hold |-> H, m_peers |-> o.m_peers]
  BY DEF OB!Unhold, OB!Buffer
<1>3. u \in OB!Buffer /\ u.m_peers = o.m_peers /\ u.m_hold = H
  BY <1>1, <1>2 DEF OB!Buffer
<1> HIDE DEF u
<1>4. \A h \in OB!HoldIndex : u.m_hold[h] = IF h \in S THEN OB!NoHold ELSE o.m_hold[h]
  BY <1>3
<1>5. Shrunk(o, u)
  BY <1>3, <1>4 DEF Shrunk
<1>6. QED
  BY <1>3, <1>4, <1>5 DEF u

\* A full peer table always has a peer to evict: there are more peers than
\* held messages, so some peer holds none.
LEMMA EvictionPossible ==
  ASSUME NEW o \in OB!Buffer, PeersOK(o), \A i \in OB!PeerIndex : o.m_peers[i].active
  PROVE  OB!PeersWithoutHolds(o) # {}
<1> SUFFICES ASSUME OB!PeersWithoutHolds(o) = {} PROVE FALSE
  OBVIOUS
<1>1. \A i \in OB!PeerIndex : OB!HeldFrom(o, o.m_peers[i].src) # {}
  BY DEF OB!PeersWithoutHolds
<1> DEFINE f == [i \in OB!PeerIndex |-> CHOOSE h \in OB!HeldFrom(o, o.m_peers[i].src) : TRUE]
<1>2. ASSUME NEW i \in OB!PeerIndex
      PROVE  f[i] \in OB!HoldIndex /\ o.m_hold[f[i]].env.source_id = o.m_peers[i].src
  <2>1. f[i] \in OB!HeldFrom(o, o.m_peers[i].src)
    BY <1>1
  <2>2. QED
    BY <2>1 DEF OB!HeldFrom, OB!Held
<1>3. f \in [OB!PeerIndex -> OB!HoldIndex]
  BY <1>2
<1> HIDE DEF f
<1>4. PICK i, j \in OB!PeerIndex : i # j /\ f[i] = f[j]
  BY <1>3, TableIndices, FS_PigeonHole
<1>5. o.m_peers[i].src = o.m_peers[j].src
  BY <1>2, <1>4
<1>6. QED
  BY <1>4, <1>5 DEF PeersOK

\* get_or_create_peer() gives the source a slot and takes none from a source that
\* holds something.
LEMMA CreatePeer ==
  ASSUME NEW o \in OB!Buffer, PeersOK(o), NEW n \in Node
  PROVE  LET p == OB!get_or_create_peer(o, n)
         IN  /\ p \in OB!Buffer /\ PeersOK(p)
             /\ p.m_hold = o.m_hold
             /\ OB!PeerSlotFor(o, n) \in OB!find_peer(p, n)
<1> DEFINE p == OB!get_or_create_peer(o, n)
           i == OB!PeerSlotFor(o, n)
           unused == {j \in OB!PeerIndex : ~o.m_peers[j].active}
           s == [active |-> TRUE, src |-> n, next_expected_seq |-> 1]
<1>1. CASE OB!find_peer(o, n) # {}
  <2>1. p = o
    BY <1>1 DEF OB!get_or_create_peer
  <2>2. i = OB!Min(OB!find_peer(o, n))
    BY <1>1 DEF OB!PeerSlotFor
  <2>3. i \in OB!find_peer(o, n)
    BY <1>1, <2>2, GateFacts
  <2>4. QED
    BY <2>1, <2>3
<1>2. CASE OB!find_peer(o, n) = {}
  <2>1. i \in OB!PeerIndex /\ (o.m_peers[i].active => OB!HeldFrom(o, o.m_peers[i].src) = {})
    <3>1. CASE unused # {}
      <4>1. i = OB!Min(unused)
        BY <1>2, <3>1 DEF OB!PeerSlotFor
      <4>2. i \in unused
        <5>1. unused \subseteq Nat
          BY TableIndices
        <5> HIDE DEF unused, i
        <5>2. QED
          BY <3>1, <4>1, <5>1, FirstIsOne
      <4>3. QED
        BY <4>2
    <3>2. CASE unused = {}
      <4>1. i = OB!Min(OB!PeersWithoutHolds(o))
        BY <1>2, <3>2 DEF OB!PeerSlotFor
      <4>2. OB!PeersWithoutHolds(o) # {} /\ OB!PeersWithoutHolds(o) \subseteq Nat
        BY <3>2, EvictionPossible, TableIndices DEF OB!PeersWithoutHolds
      <4>3. i \in OB!PeersWithoutHolds(o)
        BY <4>1, <4>2, FirstIsOne
      <4>4. QED
        BY <4>3 DEF OB!PeersWithoutHolds
    <3>3. QED
      BY <3>1, <3>2
  <2>2. p = [o EXCEPT !.m_peers[i] = s]
    BY <1>2 DEF OB!get_or_create_peer
  <2> HIDE DEF i
  <2>3. s \in OB!PeerState /\ s.active = TRUE /\ s.src = n
    <3>1. 1 \in 1 .. SEQ_MAX
      BY CapacityAssumption
    <3>2. QED
      BY <3>1, NewSlots
  <2> HIDE DEF s
  <2>4. /\ p = [m_hold |-> o.m_hold, m_peers |-> [o.m_peers EXCEPT ![i] = s]]
        /\ p.m_hold = o.m_hold /\ p.m_peers = [o.m_peers EXCEPT ![i] = s]
    BY <2>2 DEF OB!Buffer
  <2>5. p.m_peers[i] = s /\ \A j \in OB!PeerIndex \ {i} : p.m_peers[j] = o.m_peers[j]
    BY <2>1, <2>4 DEF OB!Buffer
  <2>6. p \in OB!Buffer
    BY <2>1, <2>3, <2>4 DEF OB!Buffer
  <2> HIDE DEF p
  <2>7. \A j \in OB!PeerIndex : o.m_peers[j].active => o.m_peers[j].src # n
    BY <1>2 DEF OB!find_peer
  <2>8. \A j, k \in OB!PeerIndex : /\ p.m_peers[j].active
                                   /\ p.m_peers[k].active
                                   /\ p.m_peers[j].src = p.m_peers[k].src
                                   => j = k
    BY <2>3, <2>5, <2>7 DEF PeersOK
  <2>9. i \in OB!find_peer(p, n)
    BY <2>1, <2>3, <2>5 DEF OB!find_peer
  <2>10. OB!Held(p) = OB!Held(o)
    BY <2>4 DEF OB!Held
  <2>11. ASSUME NEW x \in Holding(p)
         PROVE  OB!find_peer(p, x.source_id) # {}
    <3>1. PICK h \in OB!Held(o) : x = o.m_hold[h].env
      BY <2>4, <2>10 DEF Holding
    <3>2. h \in OB!HeldFrom(o, x.source_id) /\ x \in Holding(o)
      BY <3>1 DEF OB!HeldFrom, Holding
    <3>3. PICK j \in OB!find_peer(o, x.source_id) : TRUE
      BY <3>2 DEF PeersOK
    <3>4. j # i
      BY <2>1, <3>2, <3>3 DEF OB!find_peer
    <3>5. j \in OB!find_peer(p, x.source_id)
      BY <2>5, <3>3, <3>4 DEF OB!find_peer
    <3>6. QED
      BY <3>5
  <2>12. PeersOK(p)
    BY <2>8, <2>11 DEF PeersOK
  <2>13. QED
    BY <2>4, <2>6, <2>9, <2>12 DEF p, i
<1>3. QED
  BY <1>1, <1>2

(***************************************************************************)
(* What a call that may hold msg leaves in the pool: what was there, and   *)
(* msg in one slot that was free, unless msg is handed out.                *)
(***************************************************************************)
Kept(o, msg, p, res) ==
  /\ p \in OB!Buffer /\ PeersOK(p)
  /\ \E k : /\ k \notin OB!Held(o)
            /\ \A h \in OB!Held(p) :
                 \/ h \in OB!Held(o) /\ p.m_hold[h] = o.m_hold[h]
                 \/ h = k /\ p.m_hold[h].env = msg /\ res # "OK"

LEMMA HoldKeeps ==
  ASSUME NEW p \in OB!Buffer, PeersOK(p), NEW msg \in Envelope,
         OB!find_peer(p, msg.source_id) # {}
  PROVE  Kept(p, msg, OB!hold(p, msg).buffer, OB!hold(p, msg).res) /\ OB!hold(p, msg).res # "OK"
<1> DEFINE r == OB!hold(p, msg)
           n == msg.source_id
           dup == OB!HeldAs(p, n, msg.sequence_num) # {}
           full == \/ OB!Cardinality(OB!HeldFrom(p, n)) >= OB!k_hold_per_peer_max
                   \/ OB!Held(p) = OB!HoldIndex
           h == OB!Min(OB!HoldIndex \ OB!Held(p))
           slot == [active |-> TRUE, env |-> msg]
           q == [p EXCEPT !.m_hold[h] = slot]
<1>0. \E k : k \notin OB!Held(p)
  <2>1. 0 \notin OB!HoldIndex
    BY CapacityAssumption DEF OB!HoldIndex
  <2>2. QED
    BY <2>1 DEF OB!Held
<1>1. CASE dup
  <2>1. r.buffer = p /\ r.res = "ERR_AGAIN"
    BY <1>1 DEF OB!hold
  <2>2. QED
    BY <1>0, <2>1 DEF Kept
<1>2. CASE ~dup /\ full
  <2>1. r.buffer = p /\ r.res = "ERR_FULL"
    BY <1>2 DEF OB!hold
  <2>2. QED
    BY <1>0, <2>1 DEF Kept
<1>3. CASE ~dup /\ ~full
  <2>1. r.buffer = q /\ r.res = "ERR_AGAIN"
    BY <1>3 DEF OB!hold
  <2>2. h \in OB!HoldIndex /\ h \notin OB!Held(p)
    <3>1. OB!HoldIndex \ OB!Held(p) # {} /\ OB!HoldIndex \ OB!Held(p) \subseteq Nat
      BY <1>3, TableIndices DEF OB!Held
    <3>2. QED
      BY <3>1, FirstIsOne
  <2>3. slot \in OB!HoldSlot /\ slot.active = TRUE /\ slot.env = msg
    BY NewSlots
  <2> HIDE DEF h, slot
  <2>4. /\ q = [m_hold |-> [p.m_hold EXCEPT ![h] = slot], m_peers |-> p.m_peers]
        /\ q.m_peers = p.m_peers /\ q.m_hold = [p.m_hold EXCEPT ![h] = slot]
    BY DEF OB!Buffer
  <2>5. q.m_hold[h] = slot /\ \A g \in OB!HoldIndex \ {h} : q.m_hold[g] = p.m_hold[g]
    BY <2>2, <2>4 DEF OB!Buffer
  <2>6. q \in OB!Buffer
    BY <2>2, <2>3, <2>4 DEF OB!Buffer
  <2> HIDE DEF q
  <2>7. \A m : OB!find_peer(q, m) = OB!find_peer(p, m)
    BY <2>4 DEF OB!find_peer
  <2>8. \A g \in OB!Held(q) : \/ g \in OB!Held(p) /\ q.m_hold[g] = p.m_hold[g]
                              \/ g = h /\ q.m_hold[g].env = msg
    BY <2>2, <2>3, <2>5 DEF OB!Held
  <2>9. \A x \in Holding(q) : x \in Holding(p) \/ x = msg
    BY <2>8 DEF Holding
  <2>10. PeersOK(q)
    BY <2>4, <2>7, <2>9 DEF PeersOK
  <2>11. QED
    BY <2>1, <2>2, <2>6, <2>8, <2>10 DEF Kept
<1>4. QED
  BY <1>1, <1>2, <1>3

\* ingest(), after which the source of a message that was held has a gate.
LEMMA IngestKeeps ==
  ASSUME NEW o \in OB!Buffer, PeersOK(o), NEW msg \in Envelope
  PROVE  Kept(o, msg, OB!ingest(o, msg).buffer, OB!ingest(o, msg).res)
<1> DEFINE r == OB!ingest(o, msg)
           n == msg.source_id
           i == OB!PeerSlotFor(o, n)
           p == OB!get_or_create_peer(o, n)
           e == p.m_peers[i].next_expected_seq
           q == [p EXCEPT !.m_peers[i].next_expected_seq = OB!advance_next_expected(@)]
<1>0. \E k : k \notin OB!Held(o)
  <2>1. 0 \notin OB!HoldIndex
    BY CapacityAssumption DEF OB!HoldIndex
  <2>2. QED
    BY <2>1 DEF OB!Held
<1>1. CASE ~OB!Ordered(msg)
  <2>1. r.buffer = o
    BY <1>1 DEF OB!ingest
  <2>2. QED
    BY <1>0, <2>1 DEF Kept
<1>2. CASE OB!Ordered(msg)
  <2>1. n \in Node /\ msg.sequence_num \in Nat
    BY DEF Envelope
  <2>2. p \in OB!Buffer /\ PeersOK(p) /\ p.m_hold = o.m_hold /\ i \in OB!find_peer(p, n)
    BY <2>1, CreatePeer
  <2>3. r = CASE msg.sequence_num < e -> [res |-> "ERR_AGAIN", buffer |-> p]
              [] msg.sequence_num = e -> [res |-> "OK", buffer |-> q]
              [] msg.sequence_num > e -> OB!hold(p, msg)
    BY <1>2 DEF OB!ingest
  <2>4. q = [p EXCEPT !.m_peers[i].next_expected_seq = OB!advance_next_expected(e)]
    OBVIOUS
  <2> HIDE DEF r, p, i, q
  <2>5. e \in 1 .. SEQ_MAX
    BY <2>2, GateFacts
  <2> HIDE DEF e
  <2>6. OB!Held(p) = OB!Held(o)
    BY <2>2 DEF OB!Held
  <2>7. CASE msg.sequence_num < e
    <3>1. r = [res |-> "ERR_AGAIN", buffer |-> p]
      BY <2>1, <2>3, <2>5, <2>7
    <3>2. QED
      BY <1>0, <2>2, <2>6, <3>1 DEF r, Kept
  <2>8. CASE msg.sequence_num = e
    <3>1. r = [res |-> "OK", buffer |-> q]
      BY <2>1, <2>3, <2>5, <2>8
    <3>2. OB!advance_next_expected(e) \in 1 .. SEQ_MAX
      BY <2>5, NextNumbers
    <3>3. Shrunk(p, q)
      BY <2>2, <2>4, <3>2, MoveGate
    <3>4. /\ q \in OB!Buffer /\ PeersOK(q)
          /\ \A h \in OB!Held(q) : h \in OB!Held(p) /\ q.m_hold[h] = p.m_hold[h]
      BY <2>2, <3>3, ShrunkFacts
    <3>5. QED
      BY <1>0, <2>2, <2>6, <3>1, <3>4 DEF r, Kept
  <2>9. CASE msg.sequence_num > e
    <3>1. r = OB!hold(p, msg)
      BY <2>1, <2>3, <2>5, <2>9
    <3>2. Kept(p, msg, r.buffer, r.res)
      BY <2>2, <3>1, HoldKeeps
    <3>3. QED
      BY <2>2, <2>6, <3>2 DEF r, Kept
  <2>10. QED
    BY <2>1, <2>5, <2>7, <2>8, <2>9
<1>3. QED
  BY <1>1, <1>2

\* try_release_next() hands out a held message of the source, and no longer
\* holds it.
LEMMA ReleaseShrinks ==
  ASSUME NEW o \in OB!Buffer, PeersOK(o), NEW n
  PROVE  LET r == OB!try_release_next(o, n)
         IN  /\ Shrunk(o, r.buffer)
             /\ \/ r.res # "OK" /\ r.buffer = o
                \/ /\ r.res = "OK"
                   /\ \E h \in OB!Held(o) : /\ r.out = {o.m_hold[h].env}
                                            /\ h \notin OB!Held(r.buffer)
                                            /\ o.m_hold[h].env.source_id = n
<1> DEFINE r == OB!try_release_next(o, n)
           h == OB!Min(OB!ReleasableFrom(o, n))
           i == OB!Min(OB!find_peer(o, n))
           v == OB!advance_next_expected(o.m_peers[i].next_expected_seq)
           u == OB!Unhold(o, {h})
           q == [u EXCEPT !.m_peers[i].next_expected_seq = OB!advance_next_expected(@)]
<1>1. CASE OB!ReleasableFrom(o, n) = {}
  <2>1. r = [res |-> "ERR_AGAIN", out |-> {}, buffer |-> o]
    BY <1>1 DEF OB!try_release_next
  <2>2. QED
    BY <2>1, ShrunkTwice
<1>2. CASE OB!ReleasableFrom(o, n) # {}
  <2>1. r = [res |-> "OK", out |-> {o.m_hold[h].env}, buffer |-> q]
    BY <1>2 DEF OB!try_release_next
  <2>2. h \in OB!ReleasableFrom(o, n)
    <3>1. OB!ReleasableFrom(o, n) \subseteq Nat
      BY TableIndices DEF OB!ReleasableFrom, OB!HeldAs, OB!HeldFrom, OB!Held
    <3>2. QED
      BY <1>2, <3>1, FirstIsOne
  <2>3. i \in OB!find_peer(o, n) /\ o.m_peers[i].next_expected_seq \in 1 .. SEQ_MAX
    <3>1. OB!find_peer(o, n) # {}
      BY <1>2 DEF OB!ReleasableFrom
    <3>2. QED
      BY <3>1, GateFacts
  <2> HIDE DEF h, i
  <2>4. h \in OB!HoldIndex /\ h \in OB!Held(o) /\ o.m_hold[h].env.source_id = n
    BY <2>2 DEF OB!ReleasableFrom, OB!HeldAs, OB!HeldFrom, OB!Held
  <2>5. v \in 1 .. SEQ_MAX
    BY <2>3, NextNumbers
  <2>6. /\ Shrunk(o, u) /\ u.m_peers = o.m_peers
        /\ u.m_hold[h] = OB!NoHold
    BY <2>4, UnholdShrinks
  <2>7. u \in OB!Buffer /\ i \in OB!find_peer(u, n)
    BY <2>3, <2>6 DEF Shrunk, OB!find_peer
  <2>8. q = [u EXCEPT !.m_peers[i].next_expected_seq = v]
    BY <2>6
  <2> HIDE DEF u, q, v
  <2>9. Shrunk(u, q) /\ q.m_hold = u.m_hold
    BY <2>5, <2>7, <2>8, MoveGate
  <2>10. Shrunk(o, q)
    BY <2>6, <2>9, ShrunkTwice
  <2>11. h \notin OB!Held(q)
    BY <2>6, <2>9, NewSlots DEF OB!Held
  <2>12. QED
    BY <2>1, <2>4, <2>10, <2>11
<1>3. QED
  BY <1>1, <1>2

\* reset_peer(): nothing of the source is held any more.
LEMMA ResetShrinks ==
  ASSUME NEW o \in OB!Buffer, PeersOK(o), NEW n
  PROVE  LET p == OB!reset_peer(o, n)
         IN  Shrunk(o, p) /\ \A x \in Holding(p) : x.source_id # n
<1> DEFINE p == OB!reset_peer(o, n)
           u == OB!Unhold(o, OB!HeldFrom(o, n))
           i == OB!Min(OB!find_peer(o, n))
<1>1. CASE OB!find_peer(o, n) = {}
  <2>1. p = o
    BY <1>1 DEF OB!reset_peer
  <2>2. QED
    BY <1>1, <2>1, ShrunkTwice DEF PeersOK
<1>2. CASE OB!find_peer(o, n) # {}
  <2>1. p = [u EXCEPT !.m_peers[i].next_expected_seq = 1]
    BY <1>2 DEF OB!reset_peer
  <2>2. i \in OB!find_peer(o, n)
    BY <1>2, GateFacts
  <2>3. /\ Shrunk(o, u) /\ u.m_peers = o.m_peers
        /\ \A h \in OB!HoldIndex : u.m_hold[h] = IF h \in OB!HeldFrom(o, n) THEN OB!NoHold
                                                 ELSE o.m_hold[h]
    BY UnholdShrinks
  <2> HIDE DEF u, i, p
  <2>4. u \in OB!Buffer /\ i \in OB!find_peer(u, n)
    BY <2>2, <2>3 DEF Shrunk, OB!find_peer
  <2>5. 1 \in 1 .. SEQ_MAX
    BY CapacityAssumption
  <2>6. Shrunk(u, p) /\ p.m_hold = u.m_hold
    BY <2>1, <2>4, <2>5, MoveGate
  <2>7. ASSUME NEW x \in Holding(p), x.source_id = n PROVE FALSE
    <3>1. PICK h \in OB!Held(p) : x = p.m_hold[h].env
      BY DEF Holding
    <3>2. h \in OB!HoldIndex /\ u.m_hold[h].active /\ u.m_hold[h].env.source_id = n
      BY <2>6, <2>7, <3>1 DEF OB!Held
    <3>3. h \notin OB!HeldFrom(o, n)
      BY <2>3, <3>2, NewSlots
    <3>4. QED
      BY <2>3, <3>2, <3>3 DEF OB!HeldFrom, OB!Held
  <2>8. QED
    BY <2>3, <2>6, <2>7, ShrunkTwice DEF p
<1>3. QED
  BY <1>1, <1>2

LEMMA AdvanceShrinks ==
  ASSUME NEW o \in OB!Buffer, PeersOK(o), NEW n, NEW v \in 1 .. SEQ_MAX
  PROVE  Shrunk(o, OB!advance_sequence(o, n, v))
<1> DEFINE p == OB!advance_sequence(o, n, v)
           i == OB!Min(OB!find_peer(o, n))
           old == {h \in OB!HeldFrom(o, n) : o.m_hold[h].env.sequence_num < v}
           u == OB!Unhold(o, old)
<1>1. CASE OB!find_peer(o, n) = {} \/ ~(v > o.m_peers[i].next_expected_seq)
  <2>1. p = o
    BY <1>1 DEF OB!advance_sequence
  <2>2. QED
    BY <2>1, ShrunkTwice
<1>2. CASE OB!find_peer(o, n) # {} /\ v > o.m_peers[i].next_expected_seq
  <2>1. p = [u EXCEPT !.m_peers[i].next_expected_seq = v]
    BY <1>2 DEF OB!advance_sequence
  <2>2. i \in OB!find_peer(o, n)
    BY <1>2, GateFacts
  <2>3. Shrunk(o, u) /\ u.m_peers = o.m_peers
    BY UnholdShrinks
  <2> HIDE DEF u, i, p
  <2>4. u \in OB!Buffer /\ i \in OB!find_peer(u, n)
    BY <2>2, <2>3 DEF Shrunk, OB!find_peer
  <2>5. Shrunk(u, p)
    BY <2>1, <2>4, MoveGate
  <2>6. QED
    BY <2>3, <2>5, ShrunkTwice DEF p
<1>3. QED
  BY <1>1, <1>2

\* One iteration of sweep_expired_holds().
LEMMA SweepStep ==
  ASSUME NEW o \in OB!Buffer, PeersOK(o), NEW s, Shrunk(o, s.buffer), NEW k \in OB!HoldIndex,
         NEW now, NEW cap
  PROVE  Shrunk(o, OB!SweepHold(s, k, now, cap).buffer)
<1> DEFINE b == s.buffer
           env == b.m_hold[k].env
           v == OB!seq_next_guarded(env.sequence_num)
           a == OB!advance_sequence(b, env.source_id, v)
           c == OB!Unhold(a, {k})
           t == OB!SweepHold(s, k, now, cap)
<1>1. CASE k \notin OB!ExpiredHolds(b, now)
  BY <1>1 DEF OB!SweepHold
<1>2. CASE k \in OB!ExpiredHolds(b, now)
  <2>1. b \in OB!Buffer /\ PeersOK(b)
    BY ShrunkFacts
  <2>2. env.sequence_num \in Nat
    BY <1>2, <2>1, SlotFacts DEF OB!ExpiredHolds, OB!Held, Envelope
  <2>3. t.buffer = c
    BY <1>2 DEF OB!SweepHold
  <2>4. v \in 1 .. SEQ_MAX
    BY <2>2, NextNumbers
  <2> HIDE DEF v, b, env
  <2>5. Shrunk(b, a)
    BY <2>1, <2>4, AdvanceShrinks
  <2>6. a \in OB!Buffer
    BY <2>1, <2>5, ShrunkFacts
  <2> HIDE DEF a
  <2>7. Shrunk(a, c)
    BY <2>6, UnholdShrinks
  <2>8. Shrunk(o, c)
    BY <2>5, <2>7, ShrunkTwice DEF b
  <2>9. QED
    BY <2>3, <2>8
<1>3. QED
  BY <1>1, <1>2

\* The loop of sweep_expired_holds() as the sequence of its states: a recursive
\* definition on 0 .. N has a solution, by induction on N in the form of the
\* least number for which there is none.
LEMMA SweepLoop ==
  ASSUME NEW o, NEW now, NEW cap
  PROVE  \E g : /\ g[0] = [freed |-> <<>>, buffer |-> o]
                /\ \A k \in OB!HoldIndex : g[k] = OB!SweepHold(g[k - 1], k, now, cap)
                /\ OB!sweep_expired_holds(o, now, cap) = g[ORDERING_HOLD_COUNT]
<1> DEFINE N == ORDERING_HOLD_COUNT
           base == [freed |-> <<>>, buffer |-> o]
           F(g, m) == [k \in 0 .. m |-> IF k = 0 THEN base
                                        ELSE OB!SweepHold(g[k - 1], k, now, cap)]
           Bad == {m \in 0 .. N : ~ \E g : g = F(g, m)}
<1>0. N \in Nat /\ N > 0
  BY CapacityAssumption
<1>1. Bad = {}
  <2> SUFFICES ASSUME Bad # {} PROVE FALSE
    OBVIOUS
  <2> DEFINE m == Min(Bad)
  <2>1. m \in Bad /\ \A x \in Bad : m <= x
    <3>1. Bad \subseteq Nat
      BY <1>0
    <3> HIDE DEF Bad
    <3>2. QED
      BY <3>1, MinIsLeast
  <2>2. m \in 0 .. N
    BY <2>1
  <2> HIDE DEF m
  <2>3. m # 0
    <3> SUFFICES ASSUME m = 0 PROVE FALSE
      OBVIOUS
    <3> DEFINE g == [k \in 0 .. 0 |-> base]
    <3>1. g = F(g, 0)
      OBVIOUS
    <3>2. QED
      BY <2>1, <3>1
  <2>4. m - 1 \in 0 .. N /\ m - 1 \notin Bad
    BY <1>0, <2>1, <2>2, <2>3
  <2>5. PICK g : g = F(g, m - 1)
    BY <2>4
  <2> DEFINE last == OB!SweepHold(g[m - 1], m, now, cap)
             gg == [k \in 0 .. m |-> IF k = m THEN last ELSE g[k]]
  <2>6. ASSUME NEW k \in 0 .. m
        PROVE  gg[k] = IF k = 0 THEN base ELSE OB!SweepHold(gg[k - 1], k, now, cap)
    <3>1. CASE k = m
      <4>1. gg[k] = last /\ k - 1 \in 0 .. m /\ k - 1 # m
        BY <2>2, <2>3, <3>1
      <4>2. gg[k - 1] = g[m - 1]
        BY <3>1, <4>1
      <4>3. QED
        BY <2>3, <3>1, <4>1, <4>2
    <3>2. CASE k # m
      <4>1. k \in 0 .. m - 1 /\ gg[k] = g[k]
        BY <2>2, <3>2
      <4>2. g[k] = IF k = 0 THEN base ELSE OB!SweepHold(g[k - 1], k, now, cap)
        BY <2>5, <4>1
      <4>3. k # 0 => gg[k - 1] = g[k - 1]
        BY <2>2, <4>1
      <4>4. QED
        BY <4>1, <4>2, <4>3
    <3>3. QED
      BY <3>1, <3>2
  <2>7. gg = F(gg, m)
    BY <2>6
  <2>8. QED
    BY <2>1, <2>7
<1> DEFINE sw == CHOOSE g : g = F(g, N)
<1>2. sw = F(sw, N)
  <2>1. N \notin Bad /\ N \in 0 .. N
    BY <1>0, <1>1
  <2>2. \E g : g = F(g, N)
    BY <2>1
  <2>3. QED
    BY <2>2
<1>3. OB!sweep_expired_holds(o, now, cap) = sw[N]
  BY DEF OB!sweep_expired_holds
<1> HIDE DEF sw
<1>4. sw[0] = base
  BY <1>0, <1>2
<1>5. ASSUME NEW k \in OB!HoldIndex PROVE sw[k] = OB!SweepHold(sw[k - 1], k, now, cap)
  <2>1. k \in 0 .. N /\ k # 0
    BY <1>0 DEF OB!HoldIndex
  <2>2. QED
    BY <1>2, <2>1
<1>6. QED
  BY <1>3, <1>4, <1>5

LEMMA SweepShrinks ==
  ASSUME NEW o \in OB!Buffer, PeersOK(o), NEW now, NEW cap
  PROVE  Shrunk(o, OB!sweep_expired_holds(o, now, cap).buffer)
<1> DEFINE N == ORDERING_HOLD_COUNT
<1>0. N \in Nat /\ N > 0
  BY CapacityAssumption
<1>1. PICK g : /\ g[0] = [freed |-> <<>>, buffer |-> o]
               /\ \A k \in OB!HoldIndex : g[k] = OB!SweepHold(g[k - 1], k, now, cap)
               /\ OB!sweep_expired_holds(o, now, cap) = g[N]
  BY SweepLoop
<1> DEFINE Bad == {k \in 0 .. N : ~Shrunk(o, g[k].buffer)}
<1>2. Shrunk(o, g[0].buffer)
  BY <1>1, ShrunkTwice
<1>3. Bad = {}
  <2> SUFFICES ASSUME Bad # {} PROVE FALSE
    OBVIOUS
  <2> DEFINE m == Min(Bad)
  <2>1. m \in Bad /\ \A x \in Bad : m <= x
    <3>1. Bad \subseteq Nat
      BY <1>0
    <3> HIDE DEF Bad
    <3>2. QED
      BY <3>1, MinIsLeast
  <2>2. m \in 0 .. N /\ ~Shrunk(o, g[m].buffer)
    BY <2>1
  <2> HIDE DEF m
  <2>3. m # 0
    BY <1>2, <2>2
  <2>4. m - 1 \in 0 .. N /\ m - 1 \notin Bad /\ m \in OB!HoldIndex
    BY <1>0, <2>1, <2>2, <2>3 DEF OB!HoldIndex
  <2>5. Shrunk(o, g[m - 1].buffer)
    BY <2>4
  <2>6. g[m] = OB!SweepHold(g[m - 1], m, now, cap)
    BY <1>1, <2>4
  <2>7. QED
    BY <2>2, <2>4, <2>5, <2>6, SweepStep
<1>4. Shrunk(o, g[N].buffer)
  BY <1>0, <1>3
<1>5. QED
  BY <1>1, <1>4


-----------------------------------------------------------------------------
(* Fragmentation and the ReassemblyBuffer. *)

LEMMA ReassemblyNumbers ==
  /\ FRAG_MAX_PAYLOAD_BYTES \in Nat \ {0} /\ FRAG_MAX_COUNT \in Nat \ {0}
  /\ RB!MSG_MAX_PAYLOAD_BYTES \in Nat
  /\ RB!SlotIndex \subseteq Nat
<1>1. /\ FRAG_MAX_PAYLOAD_BYTES \in Nat \ {0} /\ FRAG_MAX_COUNT \in Nat \ {0}
      /\ REASSEMBLY_SLOT_COUNT \in Nat
  BY CapacityAssumption
<1>2. RB!MSG_MAX_PAYLOAD_BYTES \in Nat
  BY <1>1 DEF RB!MSG_MAX_PAYLOAD_BYTES
<1>3. RB!SlotIndex \subseteq Nat
  BY <1>1 DEF RB!SlotIndex
<1>4. QED
  BY <1>1, <1>2, <1>3

LEMMA ReassemblySlotFacts ==
  ASSUME NEW b \in [RB!SlotIndex -> SlotShape]
  PROVE  /\ \A i \in RB!SlotIndex : i \in RB!Open(b) <=> b[i] \in OpenShape
         /\ RB!NoSlot \in SlotShape /\ RB!NoSlot.active = FALSE
<1>1. RB!NoSlot \in SlotShape /\ RB!NoSlot.active = FALSE
  BY DEF SlotShape, RB!NoSlot
<1>2. \A s \in OpenShape : s.active = TRUE
  BY DEF OpenShape
<1>3. QED
  BY <1>1, <1>2 DEF SlotShape, RB!Open

LEMMA ReassemblyInit ==
  RB!init \in [RB!SlotIndex -> SlotShape] /\ Headers(RB!init) = {}
<1>1. RB!init \in [RB!SlotIndex -> SlotShape]
  BY DEF RB!init, SlotShape
<1>2. \A i \in RB!SlotIndex : RB!init[i].active = FALSE
  BY DEF RB!init, RB!NoSlot
<1>3. RB!Open(RB!init) = {}
  BY <1>2 DEF RB!Open
<1>4. QED
  BY <1>1, <1>3 DEF Headers

\* A table some of whose slots have changed.
LEMMA HeadersOf ==
  ASSUME NEW b, NEW u, NEW H,
         \A i \in RB!SlotIndex : u[i] = b[i] \/ ~u[i].active \/ u[i].header \in H
  PROVE  Headers(u) \subseteq Headers(b) \union H
BY DEF Headers, RB!Open

LEMMA FreeShrinks ==
  ASSUME NEW b \in [RB!SlotIndex -> SlotShape], NEW S
  PROVE  RB!Free(b, S) \in [RB!SlotIndex -> SlotShape] /\ Headers(RB!Free(b, S)) \subseteq Headers(b)
<1> DEFINE u == RB!Free(b, S)
<1>1. u \in [RB!SlotIndex -> SlotShape]
  BY ReassemblySlotFacts DEF RB!Free
<1>2. \A i \in RB!SlotIndex : u[i] = b[i] \/ ~u[i].active
  BY ReassemblySlotFacts DEF RB!Free
<1>3. Headers(u) \subseteq Headers(b) \union {}
  BY <1>2, HeadersOf
<1>4. QED
  BY <1>1, <1>3

LEMMA OpenSlotShape ==
  ASSUME NEW frag \in Envelope, frag.total_payload_length <= RB!MSG_MAX_PAYLOAD_BYTES,
         NEW now \in Nat
  PROVE  RB!open_slot(frag, now) \in OpenShape /\ RB!open_slot(frag, now).header = frag
BY DEF RB!open_slot, OpenShape

LEMMA RecordShape ==
  ASSUME NEW slot \in OpenShape, NEW frag \in Envelope
  PROVE  /\ RB!record_fragment(slot, frag) \in OpenShape
         /\ RB!record_fragment(slot, frag).header = slot.header
<1> DEFINE offset == frag.fragment_index * FRAG_MAX_PAYLOAD_BYTES
           len == Len(frag.payload)
           buf == [k \in RB!ByteIndex |-> IF k \in offset + 1 .. offset + len
                                            THEN frag.payload[k - offset] ELSE slot.buf[k]]
           bytes == slot.received_bytes + len
           mask == slot.received_mask \union {frag.fragment_index}
           new == RB!record_fragment(slot, frag)
<1>1. frag.fragment_index \in Nat /\ frag.payload \in Seq(Nat) /\ len \in Nat
  BY DEF Envelope
<1>2. offset \in Nat
  BY <1>1, ReassemblyNumbers
<1>3. bytes \in Nat /\ mask \in SUBSET Nat
  BY <1>1 DEF OpenShape
<1>4. buf \in [RB!ByteIndex -> Nat]
  <2> SUFFICES ASSUME NEW k \in RB!ByteIndex PROVE buf[k] \in Nat
    OBVIOUS
  <2>1. k \in Nat /\ slot.buf[k] \in Nat
    BY ReassemblyNumbers DEF RB!ByteIndex, OpenShape
  <2> HIDE DEF offset
  <2>2. CASE k \in offset + 1 .. offset + len
    <3>1. k - offset \in 1 .. len
      BY <1>1, <1>2, <2>1, <2>2
    <3>2. frag.payload[k - offset] \in Nat
      BY <1>1, <3>1
    <3>3. QED
      BY <2>2, <3>2
  <2>3. QED
    BY <2>1, <2>2
<1>5. new = [slot EXCEPT !.buf = buf, !.received_bytes = bytes, !.received_mask = mask]
  BY DEF RB!record_fragment
<1> HIDE DEF buf, bytes, mask, new
<1>6. QED
  BY <1>3, <1>4, <1>5 DEF OpenShape, new

\* The reassembled message is a copy of the frame that opened the slot.
LEMMA AssembledCopy ==
  ASSUME NEW slot \in OpenShape
  PROVE  RB!Assembled(slot) \in Envelope /\ Copy(RB!Assembled(slot), slot.header)
<1> DEFINE h == slot.header
           p == [k \in 1 .. h.total_payload_length |-> slot.buf[k]]
           y == RB!Assembled(slot)
<1>1. h \in Envelope /\ h.total_payload_length <= RB!MSG_MAX_PAYLOAD_BYTES
  BY DEF OpenShape
<1>2. h.total_payload_length \in Nat
  BY <1>1 DEF Envelope
<1>3. p \in Seq(Nat)
  <2>1. 1 .. h.total_payload_length \subseteq RB!ByteIndex
    BY <1>1, <1>2, ReassemblyNumbers DEF RB!ByteIndex
  <2>2. slot.buf \in [RB!ByteIndex -> Nat]
    BY DEF OpenShape
  <2>3. \A k \in 1 .. h.total_payload_length : slot.buf[k] \in Nat
    BY <2>1, <2>2
  <2> HIDE DEF h
  <2>4. QED
    BY <1>2, <2>3, IsASeq
<1>4. y = [h EXCEPT !.payload = p, !.fragment_index = 0, !.fragment_count = 1]
  BY DEF RB!Assembled
<1> HIDE DEF h, p, y
<1>5. y \in Envelope
  BY <1>1, <1>3, <1>4 DEF Envelope
<1>6. Copy(y, h)
  BY <1>1, <1>4 DEF Copy, Alike, Envelope
<1>7. QED
  BY <1>5, <1>6 DEF y, h


\* The table and the slot that find_or_open_slot() returns.
LEMMA FindOrOpen ==
  ASSUME NEW b \in [RB!SlotIndex -> SlotShape], NEW frag \in Envelope,
         frag.total_payload_length <= RB!MSG_MAX_PAYLOAD_BYTES, NEW now \in Nat,
         RB!find_or_open_slot(b, frag, now).res = "OK"
  PROVE  LET f == RB!find_or_open_slot(b, frag, now)
         IN  /\ f.idx \in RB!SlotIndex
             /\ f.slots \in [RB!SlotIndex -> SlotShape]
             /\ \A i \in RB!SlotIndex : f.slots[i] = b[i] \/ f.slots[i].header = frag
             /\ f.slots[f.idx] \in OpenShape
             /\ f.slots[f.idx].header \in Headers(b) \union {frag}
             /\ f.slots[f.idx].header.message_id = frag.message_id
             /\ f.slots[f.idx].header.source_id = frag.source_id
<1> DEFINE f == RB!find_or_open_slot(b, frag, now)
           found == RB!find_slot(b, frag.source_id, frag.message_id)
           full == \/ RB!Cardinality(RB!OpenFrom(b, frag.source_id))
                        >= RB!k_reasm_per_src_max
                   \/ RB!Open(b) = RB!SlotIndex
           j == RB!Min(found)
           i == RB!Min(RB!SlotIndex \ RB!Open(b))
           new == RB!open_slot(frag, now)
<1>0. /\ found \subseteq RB!Open(b) /\ RB!Open(b) \subseteq RB!SlotIndex
      /\ \A k \in found : /\ b[k].header.source_id = frag.source_id
                          /\ b[k].header.message_id = frag.message_id
  BY DEF RB!find_slot, RB!OpenFrom, RB!Open
<1>1. CASE found # {}
  <2>1. j \in found
    BY <1>0, <1>1, ReassemblyNumbers, FirstIsOne
  <2>2. f.idx = j /\ f.slots = b
    BY <1>1 DEF RB!find_or_open_slot
  <2> HIDE DEF j, f, found
  <2>3. b[j] \in OpenShape /\ b[j].header \in Headers(b)
    BY <1>0, <2>1, ReassemblySlotFacts DEF Headers
  <2>4. QED
    BY <1>0, <2>1, <2>2, <2>3 DEF f
<1>2. CASE found = {}
  <2>1. ~full /\ f.idx = i /\ f.slots = [b EXCEPT ![i] = new]
    BY <1>2 DEF RB!find_or_open_slot
  <2>2. i \in RB!SlotIndex \ RB!Open(b)
    <3>1. RB!SlotIndex \ RB!Open(b) # {} /\ RB!SlotIndex \ RB!Open(b) \subseteq Nat
      BY <1>0, <2>1, ReassemblyNumbers
    <3>2. QED
      BY <3>1, FirstIsOne
  <2>3. new \in OpenShape /\ new \in SlotShape /\ new.header = frag
    BY OpenSlotShape DEF SlotShape
  <2> HIDE DEF new, i, f
  <2>4. QED
    BY <2>1, <2>2, <2>3 DEF f
<1>3. QED
  BY <1>1, <1>2

\* What ingest() leaves in the table and hands out.
LEMMA FragmentIngest ==
  ASSUME NEW b \in [RB!SlotIndex -> SlotShape], NEW frag \in Envelope, NEW now \in Nat
  PROVE  LET r == RB!ingest(b, frag, now)
         IN  /\ r.slots \in [RB!SlotIndex -> SlotShape]
             /\ Headers(r.slots) \subseteq Headers(b) \union {frag}
             /\ frag.fragment_count = 0 => r.slots = b
             /\ r.res = "OK" =>
                  \E y \in Envelope :
                    /\ r.out = {y}
                    /\ \/ y = frag
                       \/ /\ frag.fragment_count # 0
                          /\ \E h \in Headers(b) \union {frag} :
                               /\ Copy(y, h)
                               /\ h.message_id = frag.message_id
                               /\ h.source_id = frag.source_id
<1> DEFINE r == RB!ingest(b, frag, now)
           f == RB!find_or_open_slot(b, frag, now)
           slot == f.slots[f.idx]
           new == RB!record_fragment(slot, frag)
           freed == [f.slots EXCEPT ![f.idx] = RB!NoSlot]
           kept == [f.slots EXCEPT ![f.idx] = new]
<1>1. CASE ~RB!validate_metadata(frag)
  <2>1. r.res = "ERR_INVALID" /\ r.slots = b
    BY <1>1 DEF RB!ingest
  <2>2. QED
    BY <2>1
<1>2. CASE RB!validate_metadata(frag) /\ frag.fragment_count <= 1
  <2>1. r.out = {frag} /\ r.slots = b
    BY <1>2 DEF RB!ingest
  <2>2. QED
    BY <2>1
<1>3. CASE RB!validate_metadata(frag) /\ ~(frag.fragment_count <= 1)
  <2>1. r = RB!ingest_multifrag(b, frag, now)
    BY <1>3 DEF RB!ingest
  <2>2. frag.fragment_count # 0 /\ frag.total_payload_length <= RB!MSG_MAX_PAYLOAD_BYTES
    BY <1>3 DEF RB!validate_metadata
  <2>3. CASE f.res # "OK"
    <3>1. r = [res |-> f.res, out |-> {}, slots |-> b]
      BY <2>1, <2>3 DEF RB!ingest_multifrag
    <3>2. QED
      BY <2>2, <2>3, <3>1
  <2>4. CASE f.res = "OK"
    <3>1. /\ f.idx \in RB!SlotIndex
          /\ f.slots \in [RB!SlotIndex -> SlotShape]
          /\ \A i \in RB!SlotIndex : f.slots[i] = b[i] \/ f.slots[i].header = frag
          /\ slot \in OpenShape
          /\ slot.header \in Headers(b) \union {frag}
          /\ slot.header.message_id = frag.message_id
          /\ slot.header.source_id = frag.source_id
      BY <2>2, <2>4, FindOrOpen
    <3>2. new \in OpenShape /\ new.header = slot.header
      BY <3>1, RecordShape
    <3>3. RB!Assembled(new) \in Envelope /\ Copy(RB!Assembled(new), new.header)
      BY <3>2, AssembledCopy
    <3>4. \/ r.res # "OK" /\ r.slots \in {f.slots, freed, kept}
          \/ r.out = {RB!Assembled(new)} /\ r.slots = freed
      BY <2>1, <2>4 DEF RB!ingest_multifrag
    <3> HIDE DEF r, f, new, slot
    <3>5. /\ {f.slots, freed, kept} \subseteq [RB!SlotIndex -> SlotShape]
          /\ \A u \in {f.slots, freed, kept} : \A i \in RB!SlotIndex :
               \/ u[i] = b[i] \/ ~u[i].active \/ u[i].header \in {frag, slot.header}
      BY <3>1, <3>2, ReassemblySlotFacts DEF SlotShape
    <3> HIDE DEF freed, kept
    <3>6. r.slots \in {f.slots, freed, kept}
      BY <3>4
    <3>7. Headers(r.slots) \subseteq Headers(b) \union {frag, slot.header}
      BY <3>5, <3>6, HeadersOf
    <3>8. QED
      BY <2>2, <3>1, <3>2, <3>3, <3>4, <3>5, <3>6, <3>7 DEF r
  <2>5. QED
    BY <2>3, <2>4
<1>4. QED
  BY <1>1, <1>2, <1>3


LEMMA ProductGrows ==
  ASSUME NEW a \in Nat, NEW b \in Nat, NEW c \in Nat, a <= b
  PROVE  a * c <= b * c
<1> DEFINE d == b - a
<1>1. d \in Nat /\ b = a + d
  OBVIOUS
<1> HIDE DEF d
<1>2. (a + d) * c = a * c + d * c /\ a * c \in Nat /\ d * c \in Nat
  BY <1>1
<1>3. QED
  BY <1>1, <1>2

\* The frames of a message are copies of it.
LEMMA FramesAreCopies ==
  ASSUME NEW m \in Envelope
  PROVE  LET frames == RB!fragment_message(m)
         IN  /\ Len(frames) \in Nat
             /\ frames # <<>> => Len(frames) >= 1
             /\ \A k \in 1 .. Len(frames) : frames[k] \in Envelope /\ Copy(frames[k], m)
<1> DEFINE F == FRAG_MAX_PAYLOAD_BYTES
           frames == RB!fragment_message(m)
           total == Len(m.payload)
           count == IF total = 0 THEN 1 ELSE (total + F - 1) \div F
           last(k) == IF k = count THEN total ELSE k * F
           cut(k) == SubSeq(m.payload, (k - 1) * F + 1, last(k))
           frame(k) == [m EXCEPT !.fragment_index = k - 1, !.fragment_count = count,
                                 !.total_payload_length = total, !.payload = cut(k)]
<1>1. m.payload \in Seq(Nat) /\ total \in Nat /\ F \in Nat \ {0}
  BY ReassemblyNumbers DEF Envelope
<1>2. CASE total > RB!MSG_MAX_PAYLOAD_BYTES
  <2>1. frames = <<>>
    BY <1>2 DEF RB!fragment_message
  <2>2. QED
    BY <2>1
<1>3. CASE ~(total > RB!MSG_MAX_PAYLOAD_BYTES)
  <2>1. frames = [k \in 1 .. count |-> frame(k)]
    BY <1>3 DEF RB!fragment_message
  <2>2. count \in Nat /\ (count - 1) * F <= total
    <3>1. CASE total = 0
      BY <1>1, <3>1
    <3>2. CASE total # 0
      <4> DEFINE a == total + F - 1
                 q == a \div F
      <4>1. a \in Nat /\ q \in Nat /\ q * F <= a
        <5>1. a \in Nat
          BY <1>1
        <5> HIDE DEF a
        <5>2. q \in Nat /\ F * q <= a
          BY <1>1, <5>1
        <5>3. QED
          BY <1>1, <5>1, <5>2
      <4>2. count = q
        BY <3>2
      <4> HIDE DEF q, count, total, F
      <4>3. (q - 1) * F = q * F - F
        BY <1>1, <4>1
      <4>4. (q - 1) * F <= total
        BY <1>1, <4>1, <4>3 DEF a
      <4>5. QED
        BY <4>1, <4>2, <4>4
    <3>3. QED
      BY <3>1, <3>2
  <2> HIDE DEF count, total, F
  <2>3. ASSUME NEW k \in 1 .. count
        PROVE  frame(k) \in Envelope /\ Copy(frame(k), m)
    <3> DEFINE a == (k - 1) * F + 1
    <3>1. k \in Nat /\ k >= 1 /\ k - 1 \in Nat
      BY <2>2
    <3>2. (k - 1) * F \in Nat /\ k * F \in Nat
      BY <1>1, <3>1
    <3>3. a \in Int /\ a >= 1
      BY <3>2
    <3>4. last(k) \in Nat /\ last(k) <= total
      <4>1. CASE k = count
        BY <1>1, <4>1
      <4>2. CASE k # count
        <5>1. k <= count - 1 /\ count - 1 \in Nat
          BY <2>2, <4>2
        <5>2. k * F <= (count - 1) * F
          BY <1>1, <3>1, <5>1, ProductGrows
        <5>3. (count - 1) * F \in Nat
          BY <1>1, <5>1
        <5>4. QED
          BY <1>1, <2>2, <3>2, <4>2, <5>2, <5>3
      <4>3. QED
        BY <4>1, <4>2
    <3>5. cut(k) \in Seq(Nat)
      <4> DEFINE z == last(k)
      <4> HIDE DEF a, z
      <4>1. \A i \in a .. z : m.payload[i] \in Nat
        BY <1>1, <3>3, <3>4 DEF total, z
      <4>2. SubSeq(m.payload, a, z) \in Seq(Nat)
        BY <3>3, <3>4, <4>1, SubSeqProperties DEF z
      <4>3. QED
        BY <4>2 DEF a, z
    <3> DEFINE c == cut(k)
               i == k - 1
               y == [m EXCEPT !.fragment_index = i, !.fragment_count = count,
                              !.total_payload_length = total, !.payload = c]
    <3>6. frame(k) = y
      OBVIOUS
    <3> HIDE DEF c, i
    <3>7. c \in Seq(Nat) /\ i \in Nat
      BY <3>1, <3>5 DEF c, i
    <3>8. y \in Envelope /\ Copy(y, m)
      BY <1>1, <2>2, <3>7 DEF Envelope, Copy, Alike
    <3> HIDE DEF y, frame
    <3>9. QED
      BY <3>6, <3>8
  <2> HIDE DEF frame, frames
  <2>4. Len(frames) = count
    BY <2>1, <2>2
  <2>5. count >= 1 \/ frames = <<>>
    BY <2>1, <2>2
  <2>6. \A k \in 1 .. count : frames[k] = frame(k)
    BY <2>1
  <2>7. QED
    BY <2>2, <2>3, <2>4, <2>5, <2>6 DEF frames
<1>4. QED
  BY <1>2, <1>3

\* What send_fragments() puts on the wire: copies of the message, at least one
\* when it succeeds or fails halfway.
LEMMA SendFragments ==
  ASSUME NEW m \in Envelope, NEW now, NEW accepted \in Nat
  PROVE  LET out == send_fragments(m, now, accepted)
         IN  /\ \A y \in out.wire : y \in Envelope /\ Copy(y, m)
             /\ out.res \in {"OK", "ERR_IO_PARTIAL"} => out.wire # {}
<1> DEFINE out == send_fragments(m, now, accepted)
           frames == RB!fragment_message(m)
           n == IF timestamp_expired(m.expiry_time_us, now) THEN 0
                  ELSE Min({accepted, Len(frames)})
<1>1. CASE ~RB!needs_fragmentation(m)
  <2>1. out = send_via_transport(m, now, IF accepted = 0 THEN "ERR_IO" ELSE "OK")
    BY <1>1 DEF send_fragments
  <2>2. /\ out.wire \subseteq {m}
        /\ out.res \in {"ERR_EXPIRED", "ERR_IO"} \/ out.wire = {m}
    BY <2>1 DEF send_via_transport
  <2>3. QED
    BY <2>2 DEF Copy, Alike
<1>2. CASE RB!needs_fragmentation(m) /\ frames = <<>>
  <2>1. out = [res |-> "ERR_INVALID", wire |-> {}]
    BY <1>2 DEF send_fragments
  <2>2. QED
    BY <2>1
<1>3. CASE RB!needs_fragmentation(m) /\ frames # <<>>
  <2>1. /\ Len(frames) \in Nat /\ Len(frames) >= 1
        /\ \A k \in 1 .. Len(frames) : frames[k] \in Envelope /\ Copy(frames[k], m)
    BY <1>3, FramesAreCopies
  <2>2. n \in 0 .. Len(frames)
    <3> DEFINE S == {accepted, Len(frames)}
    <3>1. S \subseteq Nat /\ S # {}
      BY <2>1
    <3>2. Min(S) \in S /\ \A y \in S : Min(S) <= y
      <4> HIDE DEF S
      <4> QED
        BY <3>1, MinIsLeast
    <3>3. Min(S) \in 0 .. Len(frames)
      BY <2>1, <3>1, <3>2
    <3>4. QED
      BY <2>1, <3>3
  <2>3. out = [res  |-> CASE n = Len(frames) -> "OK"
                          [] n = 0 -> "ERR_IO"
                          [] OTHER -> "ERR_IO_PARTIAL",
               wire |-> {frames[k] : k \in 1 .. n}]
    BY <1>3 DEF send_fragments
  <2> HIDE DEF n, frames
  <2>4. \A y \in out.wire : y \in Envelope /\ Copy(y, m)
    BY <2>1, <2>2, <2>3
  <2>5. ASSUME out.wire = {} PROVE out.res = "ERR_IO"
    <3>1. \A k \in 1 .. n : frames[k] \in out.wire
      BY <2>3
    <3>2. n \in Nat /\ 1 \notin 1 .. n
      BY <2>1, <2>2, <2>5, <3>1
    <3>3. n = 0
      BY <3>2
    <3>4. QED
      BY <2>1, <2>3, <3>3
  <2>6. QED
    BY <2>4, <2>5
<1>4. QED
  BY <1>1, <1>2, <1>3


-----------------------------------------------------------------------------
(* The DuplicateFilter. *)

LEMMA DedupInit == DF!init \in DF!Filter /\ WindowOK(DF!init)
<1>1. DF!init \in DF!Filter
  BY CapacityAssumption DEF DF!init, DF!Filter, DF!Entry, DF!WindowIndex
<1>2. DF!Valid(DF!init) = {} /\ DF!init.m_count = 0 /\ DF!init.m_next = 0
  BY DEF DF!init, DF!Valid, DF!NoEntry
<1>3. QED
  BY <1>1, <1>2 DEF WindowOK

\* record() overwrites one entry, at the write position until the window is full.
LEMMA DedupRecord ==
  ASSUME NEW f \in DF!Filter, NEW src \in Node, NEW id \in MessageId, NEW now \in Nat
  PROVE  LET g == DF!record(f, src, id, now)
         IN  /\ g \in DF!Filter
             /\ f.m_count < DEDUP_WINDOW_SIZE =>
                  /\ g.m_count = f.m_count + 1
                  /\ g.m_next = (f.m_next + 1) % DEDUP_WINDOW_SIZE
                  /\ g.m_window[f.m_next] = [valid |-> TRUE, src |-> src, msg_id |-> id,
                                             recorded_us |-> now]
                  /\ \A j \in DF!WindowIndex \ {f.m_next} :
                       g.m_window[j] = f.m_window[j]
<1> DEFINE g == DF!record(f, src, id, now)
           N == DEDUP_WINDOW_SIZE
           i == IF f.m_count >= N THEN DF!find_evict_idx(f) ELSE f.m_next
           e == [valid |-> TRUE, src |-> src, msg_id |-> id, recorded_us |-> now]
<1>1. /\ g.m_window = [f.m_window EXCEPT ![i] = e]
      /\ g.m_next = (f.m_next + 1) % N
      /\ g.m_count = IF f.m_count < N THEN f.m_count + 1 ELSE f.m_count
      /\ g = [m_window |-> g.m_window, m_next |-> g.m_next, m_count |-> g.m_count]
  BY DEF DF!record, DF!NextIndex
<1>2. /\ f.m_window \in [DF!WindowIndex -> DF!Entry]
      /\ f.m_next \in DF!WindowIndex
      /\ f.m_count \in 0 .. N
      /\ N \in Nat /\ N > 0
  BY CapacityAssumption DEF DF!Filter
<1>3. e \in DF!Entry
  BY DEF DF!Entry
<1>4. g.m_next \in DF!WindowIndex /\ g.m_count \in 0 .. N
  BY <1>1, <1>2 DEF DF!WindowIndex
<1>5. g.m_window \in [DF!WindowIndex -> DF!Entry]
  <2> HIDE DEF i, e, g
  <2> QED
    BY <1>1, <1>2, <1>3
<1>6. g \in DF!Filter
  <2> HIDE DEF g
  <2> QED
    BY <1>1, <1>4, <1>5 DEF DF!Filter
<1>7. ASSUME f.m_count < N
      PROVE  /\ g.m_count = f.m_count + 1
             /\ g.m_window[f.m_next] = e
             /\ \A j \in DF!WindowIndex \ {f.m_next} : g.m_window[j] = f.m_window[j]
  <2>1. i = f.m_next
    BY <1>2, <1>7
  <2> HIDE DEF i, e, g
  <2>2. QED
    BY <1>1, <1>2, <1>7, <2>1
<1>8. QED
  BY <1>1, <1>6, <1>7

LEMMA DedupShape ==
  ASSUME NEW f \in DF!Filter, NEW src \in Node, NEW id \in MessageId, NEW now \in Nat
  PROVE  DF!check_and_record(f, src, id, now).filter \in DF!Filter
BY DedupRecord DEF DF!check_and_record

\* A window that suffices is not full when a new pair comes, so that no pair is
\* ever forgotten.
LEMMA DedupOnce ==
  ASSUME WindowSuffices, NEW f \in DF!Filter, WindowOK(f),
         NEW src \in Node, NEW id \in MessageId, NEW now \in Nat,
         <<src, id>> \in RetryPairs, ~DF!is_duplicate(f, src, id)
  PROVE  LET g == DF!record(f, src, id, now)
         IN  /\ WindowOK(g)
             /\ DF!is_duplicate(g, src, id)
             /\ \A a, b : DF!is_duplicate(f, a, b) => DF!is_duplicate(g, a, b)
<1> DEFINE g == DF!record(f, src, id, now)
           N == DEDUP_WINDOW_SIZE
           W == DF!WindowIndex
           n == f.m_count
<1>1. N \in Nat /\ N > 0 /\ n \in 0 .. N /\ f.m_next \in W
  BY CapacityAssumption DEF DF!Filter
<1>2. n < N
  <2> SUFFICES ASSUME n = N PROVE FALSE
    BY <1>1
  <2>1. DF!Valid(f) = W
    BY <1>1 DEF WindowOK, DF!WindowIndex
  <2> DEFINE P == RetryPairs \ {<<src, id>>}
             p == [i \in W |-> <<f.m_window[i].src, f.m_window[i].msg_id>>]
  <2>2. p \in [W -> P]
    BY <2>1 DEF WindowOK, DF!is_duplicate
  <2>3. IsFiniteSet(W) /\ Cardinality(W) = N
    BY <1>1, FS_Interval DEF DF!WindowIndex
  <2>4. IsFiniteSet(P) /\ Cardinality(P) < N
    <3>1. IsFiniteSet(RetryPairs) /\ Cardinality(RetryPairs) <= N
      BY DEF WindowSuffices
    <3>2. Cardinality(RetryPairs) \in Nat
      BY <3>1, FS_CardinalityType
    <3>3. IsFiniteSet(P) /\ Cardinality(P) = Cardinality(RetryPairs) - 1
      BY <3>1, FS_RemoveElement
    <3>4. QED
      BY <1>1, <3>1, <3>2, <3>3
  <2> HIDE DEF P, W
  <2>5. PICK i, j \in W : i # j /\ p[i] = p[j]
    <3> HIDE DEF p
    <3> QED
      BY <2>2, <2>3, <2>4, FS_PigeonHole
  <2>6. f.m_window[i].src = f.m_window[j].src /\ f.m_window[i].msg_id = f.m_window[j].msg_id
    BY <2>5
  <2>7. QED
    BY <2>1, <2>5, <2>6 DEF WindowOK
<1>3. /\ g \in DF!Filter
      /\ g.m_count = n + 1 /\ g.m_next = (f.m_next + 1) % N
      /\ g.m_window[f.m_next].valid = TRUE
      /\ g.m_window[f.m_next].src = src /\ g.m_window[f.m_next].msg_id = id
      /\ \A j \in W \ {f.m_next} : g.m_window[j] = f.m_window[j]
  <2> DEFINE e == [valid |-> TRUE, src |-> src, msg_id |-> id, recorded_us |-> now]
  <2>1. /\ g \in DF!Filter
        /\ g.m_count = n + 1 /\ g.m_next = (f.m_next + 1) % N
        /\ g.m_window[f.m_next] = e
        /\ \A j \in W \ {f.m_next} : g.m_window[j] = f.m_window[j]
    BY <1>2, DedupRecord
  <2>2. e.valid = TRUE /\ e.src = src /\ e.msg_id = id
    OBVIOUS
  <2> HIDE DEF e, g
  <2>3. QED
    BY <2>1, <2>2
<1>4. f.m_next = n
  BY <1>2 DEF WindowOK
<1> HIDE DEF g
<1>5. DF!Valid(g) = DF!Valid(f) \union {n}
  BY <1>1, <1>3, <1>4 DEF DF!Valid
<1>6. DF!Valid(f) = 0 .. n - 1
  BY DEF WindowOK
<1>7. DF!Valid(g) = 0 .. g.m_count - 1
  BY <1>1, <1>3, <1>5, <1>6
<1>8. g.m_count < N => g.m_next = g.m_count
  BY <1>1, <1>3, <1>4
<1>9. \A j \in DF!Valid(f) : j \in W \ {n} /\ g.m_window[j] = f.m_window[j]
  BY <1>1, <1>3, <1>4, <1>6 DEF DF!Valid
<1>10. \A i \in DF!Valid(g) : <<g.m_window[i].src, g.m_window[i].msg_id>> \in RetryPairs
  BY <1>3, <1>4, <1>5, <1>9 DEF WindowOK
<1>11. \A i, j \in DF!Valid(g) : /\ g.m_window[i].src = g.m_window[j].src
                                 /\ g.m_window[i].msg_id = g.m_window[j].msg_id
                                 => i = j
  BY <1>3, <1>4, <1>5, <1>9 DEF WindowOK, DF!is_duplicate
<1>12. WindowOK(g)
  BY <1>7, <1>8, <1>10, <1>11 DEF WindowOK
<1>13. DF!is_duplicate(g, src, id)
  BY <1>3, <1>4, <1>5 DEF DF!is_duplicate
<1>14. \A a, b : DF!is_duplicate(f, a, b) => DF!is_duplicate(g, a, b)
  BY <1>5, <1>9 DEF DF!is_duplicate
<1>15. QED
  BY <1>12, <1>13, <1>14 DEF g


-----------------------------------------------------------------------------
(* The engine. *)

LEMMA Copies ==
  /\ \A x, y, z : Copy(x, y) /\ Copy(y, z) => Copy(x, z)
  /\ \A x, y, S : Copy(x, y) /\ Genuine(y, S) => Genuine(x, S)
  /\ \A x, S, T : Genuine(x, S) /\ S \subseteq T => Genuine(x, T)
  /\ \A x, S : Genuine(x, S) => x.message_id \in Ids(S)
BY DEF Copy, Alike, Genuine, Ids

\* The fields of an engine.
LEMMA EngineFields ==
  ASSUME NEW e \in EngineShape
  PROVE  /\ e.m_ack_tracker \in TrackerShape
         /\ e.m_retry_manager \in ManagerShape
         /\ e.m_dedup \in DF!Filter
         /\ e.m_ordering \in OB!Buffer
         /\ e.m_reassembly \in [RB!SlotIndex -> SlotShape]
         /\ e.m_held_pending \in SUBSET Envelope
         /\ e.m_seq_state \in SeqState
         /\ e.m_last_now_us \in Nat
BY DEF EngineShape

LEMMA HoldingFacts ==
  ASSUME NEW o \in OB!Buffer
  PROVE  Holding(o) \subseteq Envelope
BY SlotFacts DEF Holding, OB!Held

LEMMA EngineInitOK ==
  /\ EngineInit \in EngineShape
  /\ \A n, S : EngineOK(EngineInit, n, S)
  /\ Pending(EngineInit.m_ack_tracker) = {} /\ Retried(EngineInit.m_retry_manager) = {}
  /\ EngineInit.m_held_pending = {} /\ Holding(EngineInit.m_ordering) = {}
<1>1. [d \in {} |-> 1] \in SeqState
  BY DEF SeqState
<1>2. EngineInit \in EngineShape
  BY <1>1, AckInit, RetryInit, DedupInit, OrderingInit, ReassemblyInit DEF EngineInit, EngineShape
<1>3. /\ EngineInit.m_ack_tracker = AT!init /\ EngineInit.m_retry_manager = RM!init
      /\ EngineInit.m_ordering = OB!init /\ EngineInit.m_reassembly = RB!init
      /\ EngineInit.m_held_pending = {}
  BY DEF EngineInit
<1>4. \A n, S : EngineOK(EngineInit, n, S)
  BY <1>3, AckInit, RetryInit, OrderingInit, ReassemblyInit DEF EngineOK
<1>5. QED
  BY <1>2, <1>3, <1>4, AckInit, RetryInit, OrderingInit

\* What is sent later does not invalidate what an engine keeps.
LEMMA MoreSent ==
  ASSUME NEW e, NEW n, NEW S, NEW T, S \subseteq T, EngineOK(e, n, S)
  PROVE  EngineOK(e, n, T)
BY Copies DEF EngineOK

(***************************************************************************)
(* Many steps only give up what an engine keeps: slots are released, held  *)
(* messages dropped, the filter is left alone.                             *)
(***************************************************************************)
Receded(e, u) ==
  /\ u \in EngineShape
  /\ Pending(u.m_ack_tracker) \subseteq Pending(e.m_ack_tracker)
  /\ Acked(u.m_ack_tracker) \subseteq Acked(e.m_ack_tracker)
  /\ Retried(u.m_retry_manager) \subseteq Retried(e.m_retry_manager)
  /\ RetriedOnce(e.m_retry_manager) => RetriedOnce(u.m_retry_manager)
  /\ Shrunk(e.m_ordering, u.m_ordering)
  /\ u.m_held_pending \subseteq e.m_held_pending
  /\ Headers(u.m_reassembly) \subseteq Headers(e.m_reassembly)
  /\ u.m_dedup = e.m_dedup

LEMMA RecededOK ==
  ASSUME NEW e \in EngineShape, NEW u, Receded(e, u), NEW n, NEW S, EngineOK(e, n, S)
  PROVE  EngineOK(u, n, S)
<1>1. e.m_ordering \in OB!Buffer
  BY EngineFields
<1>2. Holding(u.m_ordering) \subseteq Holding(e.m_ordering) /\ PeersOK(u.m_ordering)
  BY <1>1, ShrunkFacts DEF Receded, EngineOK
<1>3. QED
  BY <1>2 DEF Receded, EngineOK

LEMMA RecededTwice ==
  /\ \A e \in EngineShape : Receded(e, e)
  /\ \A e, u, v : Receded(e, u) /\ Receded(u, v) => Receded(e, v)
<1>1. \A e \in EngineShape : Receded(e, e)
  BY EngineFields, ShrunkTwice DEF Receded
<1>2. \A e, u, v : Receded(e, u) /\ Receded(u, v) => Receded(e, v)
  BY ShrunkTwice DEF Receded
<1>3. QED
  BY <1>1, <1>2

\* Fields that no property depends on.
LEMMA RecededTime ==
  ASSUME NEW e \in EngineShape, NEW now \in Nat
  PROVE  LET u == [e EXCEPT !.m_last_now_us = now]
         IN  /\ Receded(e, u)
             /\ u.m_ack_tracker = e.m_ack_tracker /\ u.m_retry_manager = e.m_retry_manager
             /\ u.m_ordering = e.m_ordering /\ u.m_held_pending = e.m_held_pending
             /\ u.m_reassembly = e.m_reassembly
<1> DEFINE u == [e EXCEPT !.m_last_now_us = now]
<1>1. /\ u \in EngineShape
      /\ u.m_ack_tracker = e.m_ack_tracker /\ u.m_retry_manager = e.m_retry_manager
      /\ u.m_ordering = e.m_ordering /\ u.m_held_pending = e.m_held_pending
      /\ u.m_reassembly = e.m_reassembly /\ u.m_dedup = e.m_dedup
  BY DEF EngineShape
<1>2. Shrunk(e.m_ordering, e.m_ordering)
  BY EngineFields, ShrunkTwice
<1> HIDE DEF u
<1>3. QED
  BY <1>1, <1>2 DEF Receded, u

-----------------------------------------------------------------------------
(* A client connects anew. *)

\* Nothing of what e keeps is to or from the node p.
Forgotten(e, p) ==
  /\ \A m \in Pending(e.m_ack_tracker) \union Retried(e.m_retry_manager) :
       m.destination_id # p
  /\ \A x \in e.m_held_pending \union Holding(e.m_ordering) : x.source_id # p

LEMMA ForgottenStays ==
  ASSUME NEW e \in EngineShape, NEW u, Receded(e, u), NEW p, Forgotten(e, p)
  PROVE  Forgotten(u, p)
<1>1. Holding(u.m_ordering) \subseteq Holding(e.m_ordering)
  BY EngineFields, ShrunkFacts DEF Receded
<1>2. QED
  BY <1>1 DEF Receded, Forgotten

LEMMA ResetPeerOrdering ==
  ASSUME NEW e \in EngineShape, NEW n, NEW S, EngineOK(e, n, S), NEW src
  PROVE  LET u == reset_peer_ordering(e, src)
         IN  Receded(e, u) /\ Forgotten(u, src)
<1> DEFINE u == reset_peer_ordering(e, src)
           held == {h \in e.m_held_pending : h.source_id # src}
           o == OB!reset_peer(e.m_ordering, src)
           s == e.m_seq_state
           q == [d \in DOMAIN s |-> IF d = src THEN 1 ELSE s[d]]
           t == AT!cancel_peer(e.m_ack_tracker, src).tracker
           r == RM!cancel_peer(e.m_retry_manager, src).manager
<1>1. /\ e.m_ack_tracker \in TrackerShape /\ e.m_retry_manager \in ManagerShape
      /\ e.m_ordering \in OB!Buffer /\ s \in SeqState
      /\ RetriedOnce(e.m_retry_manager) /\ PeersOK(e.m_ordering)
  BY EngineFields DEF EngineOK
<1>2. /\ t \in TrackerShape
      /\ Acked(t) \subseteq Acked(e.m_ack_tracker)
      /\ \A m \in Pending(t) : m \in Pending(e.m_ack_tracker) /\ m.destination_id # src
  BY <1>1, AckCancelPeer
<1>3. /\ r \in ManagerShape /\ RetriedOnce(r)
      /\ \A m \in Retried(r) : m \in Retried(e.m_retry_manager) /\ m.destination_id # src
  BY <1>1, RetryCancelPeer
<1>4. Shrunk(e.m_ordering, o) /\ \A x \in Holding(o) : x.source_id # src
  BY <1>1, ResetShrinks
<1>5. o \in OB!Buffer
  BY <1>4 DEF Shrunk
<1>6. q \in SeqState
  <2>1. PICK D \in SUBSET (Node \union {NODE_ID_INVALID}) : s \in [D -> 1 .. SEQ_MAX]
    BY <1>1 DEF SeqState
  <2>2. DOMAIN s = D /\ 1 \in 1 .. SEQ_MAX
    BY <2>1, CapacityAssumption
  <2>3. q \in [D -> 1 .. SEQ_MAX]
    BY <2>1, <2>2
  <2> HIDE DEF q
  <2>4. QED
    BY <2>3 DEF SeqState
<1>7. u = [e EXCEPT !.m_held_pending = held, !.m_ordering = o, !.m_seq_state = q,
                    !.m_ack_tracker = t, !.m_retry_manager = r]
  BY DEF reset_peer_ordering
<1>8. held \subseteq e.m_held_pending /\ \A x \in held : x.source_id # src
  OBVIOUS
<1> HIDE DEF held, o, q, t, r, u
<1>9. /\ u \in EngineShape
      /\ u.m_held_pending = held /\ u.m_ordering = o
      /\ u.m_ack_tracker = t /\ u.m_retry_manager = r
      /\ u.m_reassembly = e.m_reassembly /\ u.m_dedup = e.m_dedup
  BY <1>2, <1>3, <1>5, <1>6, <1>7, <1>8 DEF EngineShape
<1>10. Receded(e, u)
  BY <1>2, <1>3, <1>4, <1>8, <1>9 DEF Receded
<1>11. Forgotten(u, src)
  BY <1>2, <1>3, <1>4, <1>8, <1>9 DEF Forgotten
<1>12. QED
  BY <1>10, <1>11 DEF u


\* A queue of nodes has all of them.
LEMMA QueueHasAll ==
  ASSUME NEW H, IsFiniteSet(H)
  PROVE  /\ Cardinality(H) \in Nat
         /\ \A h \in H : \E k \in 1 .. Cardinality(H) : SetToSeq(H)[k] = h
         /\ \A k \in 1 .. Cardinality(H) : SetToSeq(H)[k] \in H
<1> DEFINE c == Cardinality(H)
           f == SetToSeq(H)
<1>1. c \in Nat /\ ExistsBijection(1 .. c, H)
  BY FS_CardinalityType
<1>2. PICK g : g \in [1 .. c -> H] /\ IsInjective(g)
  BY <1>1 DEF ExistsBijection, Bijection, Injection
<1>3. f = CHOOSE x \in [1 .. c -> H] : IsInjective(x)
  BY DEF SetToSeq
<1>4. f \in [1 .. c -> H] /\ IsInjective(f)
  <2> HIDE DEF f, c
  <2> QED
    BY <1>2, <1>3
<1>5. f \in Injection(1 .. c, H)
  BY <1>4 DEF Injection
<1>6. Cardinality(1 .. c) = c
  BY <1>1, FS_Interval
<1>7. f \in Surjection(1 .. c, H)
  <2> HIDE DEF f, c
  <2> QED
    BY <1>5, <1>6, FS_Injection DEF c
<1>8. \A h \in H : \E k \in 1 .. c : f[k] = h
  BY <1>7 DEF Surjection
<1>9. \A k \in 1 .. c : f[k] \in H
  <2> HIDE DEF f, c
  <2> QED
    BY <1>4
<1>10. QED
  BY <1>1, <1>8, <1>9

\* The loop of drain_hello_reconnects() as the sequence of its states.
LEMMA DrainLoop ==
  ASSUME NEW e, NEW H, IsFiniteSet(H)
  PROVE  \E g : /\ g[0] = e
                /\ \A k \in 1 .. Cardinality(H) :
                     g[k] = reset_peer_ordering(g[k - 1], SetToSeq(H)[k])
                /\ drain_hello_reconnects(e, H) = g[Cardinality(H)]
<1> DEFINE N == Cardinality(H)
           queue == SetToSeq(H)
           F(g, m) == [k \in 0 .. m |-> IF k = 0 THEN e
                                        ELSE reset_peer_ordering(g[k - 1], queue[k])]
           Bad == {m \in 0 .. N : ~ \E g : g = F(g, m)}
<1>0. N \in Nat
  BY QueueHasAll
<1>1. Bad = {}
  <2> SUFFICES ASSUME Bad # {} PROVE FALSE
    OBVIOUS
  <2> DEFINE m == Min(Bad)
  <2>1. m \in Bad /\ \A x \in Bad : m <= x
    <3>1. Bad \subseteq Nat
      BY <1>0
    <3> HIDE DEF Bad
    <3>2. QED
      BY <3>1, MinIsLeast
  <2>2. m \in 0 .. N
    BY <2>1
  <2> HIDE DEF m
  <2>3. m # 0
    <3> SUFFICES ASSUME m = 0 PROVE FALSE
      OBVIOUS
    <3> DEFINE g == [k \in 0 .. 0 |-> e]
    <3>1. g = F(g, 0)
      OBVIOUS
    <3>2. QED
      BY <2>1, <3>1
  <2>4. m - 1 \in 0 .. N /\ m - 1 \notin Bad
    BY <1>0, <2>1, <2>2, <2>3
  <2>5. PICK g : g = F(g, m - 1)
    BY <2>4
  <2> DEFINE last == reset_peer_ordering(g[m - 1], queue[m])
             gg == [k \in 0 .. m |-> IF k = m THEN last ELSE g[k]]
  <2>6. ASSUME NEW k \in 0 .. m
        PROVE  gg[k] = IF k = 0 THEN e ELSE reset_peer_ordering(gg[k - 1], queue[k])
    <3>1. CASE k = m
      <4>1. gg[k] = last /\ k - 1 \in 0 .. m /\ k - 1 # m
        BY <1>0, <2>2, <2>3, <3>1
      <4>2. gg[k - 1] = g[m - 1]
        BY <3>1, <4>1
      <4>3. QED
        BY <2>3, <3>1, <4>1, <4>2
    <3>2. CASE k # m
      <4>1. k \in 0 .. m - 1 /\ gg[k] = g[k]
        BY <1>0, <2>2, <3>2
      <4>2. g[k] = IF k = 0 THEN e ELSE reset_peer_ordering(g[k - 1], queue[k])
        BY <2>5, <4>1
      <4>3. k # 0 => gg[k - 1] = g[k - 1]
        BY <1>0, <2>2, <4>1
      <4>4. QED
        BY <4>1, <4>2, <4>3
    <3>3. QED
      BY <3>1, <3>2
  <2>7. gg = F(gg, m)
    BY <2>6
  <2>8. QED
    BY <2>1, <2>7
<1> DEFINE d == CHOOSE g : g = F(g, N)
<1>2. d = F(d, N)
  <2>1. N \notin Bad /\ N \in 0 .. N
    BY <1>0, <1>1
  <2>2. \E g : g = F(g, N)
    BY <2>1
  <2>3. QED
    BY <2>2
<1>3. drain_hello_reconnects(e, H) = d[N]
  BY DEF drain_hello_reconnects
<1> HIDE DEF d
<1>4. d[0] = e
  BY <1>0, <1>2
<1>5. ASSUME NEW k \in 1 .. N PROVE d[k] = reset_peer_ordering(d[k - 1], queue[k])
  <2>1. k \in 0 .. N /\ k # 0
    BY <1>0
  <2>2. QED
    BY <1>2, <2>1
<1>6. QED
  BY <1>3, <1>4, <1>5

\* The whole drain: nothing of any of the nodes is left.
LEMMA DrainForgets ==
  ASSUME NEW e \in EngineShape, NEW n, NEW S, EngineOK(e, n, S), NEW H, IsFiniteSet(H)
  PROVE  LET u == drain_hello_reconnects(e, H)
         IN  Receded(e, u) /\ \A h \in H : Forgotten(u, h)
<1> DEFINE N == Cardinality(H)
           queue == SetToSeq(H)
<1>0. N \in Nat /\ \A h \in H : \E k \in 1 .. N : queue[k] = h
  BY QueueHasAll
<1>1. PICK g : /\ g[0] = e
               /\ \A k \in 1 .. N : g[k] = reset_peer_ordering(g[k - 1], queue[k])
               /\ drain_hello_reconnects(e, H) = g[N]
  BY DrainLoop
<1> DEFINE Done(k) == Receded(e, g[k]) /\ \A j \in 1 .. k : Forgotten(g[k], queue[j])
           Bad == {k \in 0 .. N : ~Done(k)}
<1>2. Done(0)
  BY <1>1, RecededTwice
<1>3. ASSUME NEW m \in 1 .. N, Done(m - 1) PROVE Done(m)
  <2> DEFINE a == g[m - 1]
             b == g[m]
  <2>1. b = reset_peer_ordering(a, queue[m]) /\ Receded(e, a) /\ a \in EngineShape
    BY <1>1, <1>3 DEF Receded
  <2>2. EngineOK(a, n, S)
    BY <2>1, RecededOK
  <2> HIDE DEF a, b
  <2>3. Receded(a, b) /\ Forgotten(b, queue[m])
    BY <2>1, <2>2, ResetPeerOrdering
  <2>4. Receded(e, b)
    BY <2>1, <2>3, RecededTwice
  <2>5. ASSUME NEW j \in 1 .. m PROVE Forgotten(b, queue[j])
    <3>1. CASE j = m
      BY <2>3, <3>1
    <3>2. CASE j # m
      <4>1. j \in 1 .. m - 1
        BY <1>0, <3>2
      <4>2. Forgotten(a, queue[j])
        BY <1>3, <4>1 DEF a
      <4>3. QED
        BY <2>1, <2>3, <4>2, ForgottenStays
    <3>3. QED
      BY <3>1, <3>2
  <2>6. QED
    BY <2>4, <2>5 DEF b
<1> HIDE DEF Done
<1>4. Bad = {}
  <2> SUFFICES ASSUME Bad # {} PROVE FALSE
    OBVIOUS
  <2> DEFINE m == Min(Bad)
  <2>1. m \in Bad /\ \A x \in Bad : m <= x
    <3>1. Bad \subseteq Nat
      BY <1>0
    <3> HIDE DEF Bad
    <3>2. QED
      BY <3>1, MinIsLeast
  <2>2. m \in 0 .. N /\ ~Done(m)
    BY <2>1
  <2> HIDE DEF m
  <2>3. m # 0
    BY <1>2, <2>2
  <2>4. m - 1 \in 0 .. N /\ m - 1 \notin Bad /\ m \in 1 .. N
    BY <1>0, <2>1, <2>2, <2>3
  <2>5. Done(m - 1)
    BY <2>4
  <2>6. QED
    BY <1>3, <2>2, <2>4, <2>5
<1>5. Done(N)
  BY <1>0, <1>4
<1>6. QED
  BY <1>0, <1>1, <1>5 DEF Done


-----------------------------------------------------------------------------
(* send(). *)

LEMMA SequenceNumbers ==
  ASSUME NEW e \in EngineShape, NEW dst \in Node \union {NODE_ID_INVALID}
  PROVE  next_seq_for(e, dst) \in Nat /\ TakeSeq(e, dst) \in SeqState
<1> DEFINE s == e.m_seq_state
           seq == next_seq_for(e, dst)
           next == IF seq = SEQ_MAX THEN 1 ELSE seq + 1
           q == [d \in DOMAIN s \union {dst} |-> IF d # dst THEN s[d] ELSE next]
<1>1. PICK D \in SUBSET (Node \union {NODE_ID_INVALID}) : s \in [D -> 1 .. SEQ_MAX]
  BY EngineFields DEF SeqState
<1>2. DOMAIN s = D /\ SEQ_MAX \in Nat \ {0}
  BY <1>1, CapacityAssumption
<1>3. seq \in 0 .. SEQ_MAX
  <2> HIDE DEF s
  <2>1. CASE dst \in DOMAIN s
    <3>1. seq = s[dst]
      BY <2>1 DEF next_seq_for, s
    <3>2. QED
      BY <1>1, <1>2, <2>1, <3>1
  <2>2. CASE dst \notin DOMAIN s
    <3>1. seq \in {0, 1}
      BY <2>2 DEF next_seq_for, s
    <3>2. QED
      BY <1>2, <3>1
  <2>3. QED
    BY <2>1, <2>2
<1> HIDE DEF seq
<1>4. TakeSeq(e, dst) = IF seq = 0 THEN s ELSE q
  BY DEF TakeSeq, seq
<1>5. q \in SeqState
  <2> DEFINE E == D \union {dst}
  <2>1. next \in 1 .. SEQ_MAX
    BY <1>2, <1>3
  <2> HIDE DEF next, s
  <2>2. \A d \in E : (IF d # dst THEN s[d] ELSE next) \in 1 .. SEQ_MAX
    BY <1>1, <2>1
  <2>3. q \in [E -> 1 .. SEQ_MAX]
    BY <1>2, <2>2
  <2> HIDE DEF q
  <2>4. E \in SUBSET (Node \union {NODE_ID_INVALID})
    OBVIOUS
  <2> HIDE DEF E
  <2>5. QED
    BY <2>3, <2>4 DEF SeqState
<1> HIDE DEF q
<1>6. TakeSeq(e, dst) \in SeqState
  BY <1>4, <1>5, EngineFields
<1>7. QED
  BY <1>2, <1>3, <1>6 DEF seq

(***************************************************************************)
(* The bookkeeping of a message m whose id is new to the engine: a slot in *)
(* each table, or none at all.                                             *)
(***************************************************************************)
SameRest(u, e) == /\ u.m_ordering = e.m_ordering
                  /\ u.m_held_pending = e.m_held_pending
                  /\ u.m_reassembly = e.m_reassembly
                  /\ u.m_dedup = e.m_dedup

NewTo(e, m) ==
  \A x \in Pending(e.m_ack_tracker) \union Retried(e.m_retry_manager) :
    x.message_id # m.message_id

Booked(e, u, m) ==
  /\ u \in EngineShape /\ SameRest(u, e)
  /\ Pending(u.m_ack_tracker) \subseteq Pending(e.m_ack_tracker) \union {m}
  /\ Acked(u.m_ack_tracker) \subseteq Acked(e.m_ack_tracker)
  /\ Retried(u.m_retry_manager) \subseteq Retried(e.m_retry_manager) \union {m}
  /\ RetriedOnce(u.m_retry_manager)

LEMMA Reserve ==
  ASSUME NEW e \in EngineShape, RetriedOnce(e.m_retry_manager), NEW m \in Envelope,
         NewTo(e, m), NEW now \in Nat
  PROVE  LET book == reserve_bookkeeping(e, m, now)
             u == book.engine
         IN  /\ Booked(e, u, m)
             /\ book.res # "OK" => Receded(e, u)
             /\ ~Reliable(m) => u = e
             /\ m.reliability_class # "RELIABLE_RETRY" =>
                  u.m_retry_manager = e.m_retry_manager
             /\ book.res = "OK" =>
                  \A i, j \in AT!PendingFor(u.m_ack_tracker, m.source_id, m.message_id) :
                    i = j
<1> DEFINE book == reserve_bookkeeping(e, m, now)
           u == book.engine
           t == e.m_ack_tracker
           r == e.m_retry_manager
           d == timestamp_deadline_us(now, recv_timeout_ms)
           tr == AT!track(t, m, d)
           sc == RM!schedule(r, m, max_retries, retry_backoff_ms, now)
           ca == AT!cancel(tr.tracker, m.source_id, m.message_id).tracker
           T == tr.tracker
           R == sc.manager
           C == m.reliability_class
           One(x) == \A i, j \in AT!PendingFor(x, m.source_id, m.message_id) : i = j
<1>0. /\ t \in TrackerShape /\ r \in ManagerShape /\ d \in Nat
      /\ max_retries \in Nat /\ retry_backoff_ms \in Nat
      /\ C \in {"BEST_EFFORT", "RELIABLE_ACK", "RELIABLE_RETRY"}
  BY EngineFields, EngineAssumption DEF timestamp_deadline_us, Envelope, Reliability
<1>1. /\ \A x \in Pending(t) : x.message_id # m.message_id
      /\ \A x \in Retried(r) : x.message_id # m.message_id
  BY DEF NewTo
<1>2. One(t)
  BY <1>1 DEF AT!PendingFor, Pending
<1>3. Receded(e, e) /\ Booked(e, e, m)
  BY RecededTwice DEF Booked, SameRest
<1>4. CASE ~Reliable(m)
  <2>1. book = [res |-> "OK", engine |-> e]
    BY <1>4 DEF reserve_bookkeeping, Reliable
  <2>2. u = e
    BY <2>1
  <2> HIDE DEF u, book
  <2>3. QED
    BY <1>2, <1>3, <2>2 DEF u, book
<1>5. CASE Reliable(m) /\ tr.res # "OK"
  <2>1. book = [res |-> tr.res, engine |-> e]
    BY <1>5 DEF reserve_bookkeeping
  <2>2. u = e /\ book.res # "OK"
    BY <1>5, <2>1
  <2> HIDE DEF u, book
  <2>3. QED
    BY <1>3, <2>2 DEF u, book
<1>6. CASE Reliable(m) /\ tr.res = "OK"
  <2>1. /\ T \in TrackerShape
        /\ Pending(T) \subseteq Pending(t) \union {m}
        /\ Acked(T) \subseteq Acked(t)
        /\ One(T)
    BY <1>0, <1>1, <1>6, AckTrack
  <2>2. CASE C = "RELIABLE_ACK"
    <3>1. book = [res |-> "OK", engine |-> [e EXCEPT !.m_ack_tracker = T]]
      BY <1>6, <2>2 DEF reserve_bookkeeping, Reliable
    <3>2. u = [e EXCEPT !.m_ack_tracker = T] /\ book.res = "OK"
      BY <3>1
    <3> HIDE DEF u, book, T
    <3>3. u \in EngineShape /\ u.m_ack_tracker = T /\ u.m_retry_manager = r /\ SameRest(u, e)
      BY <2>1, <3>2 DEF SameRest, EngineShape
    <3>4. Booked(e, u, m)
      BY <2>1, <3>3 DEF Booked
    <3>5. QED
      BY <1>6, <2>1, <2>2, <3>2, <3>3, <3>4 DEF u, book
  <2>3. CASE C = "RELIABLE_RETRY" /\ sc.res # "OK"
    <3>1. book = [res |-> sc.res, engine |-> [e EXCEPT !.m_ack_tracker = ca]]
      BY <1>6, <2>3 DEF reserve_bookkeeping, Reliable
    <3>2. u = [e EXCEPT !.m_ack_tracker = ca] /\ book.res # "OK"
      <4> HIDE DEF sc, ca
      <4> QED
        BY <2>3, <3>1
    <3>3. /\ ca \in TrackerShape /\ Pending(ca) \subseteq Pending(T)
          /\ Acked(ca) \subseteq Acked(T)
          /\ \A x \in Pending(ca) : ~(x.source_id = m.source_id /\ x.message_id = m.message_id)
      BY <2>1, AckCancel
    <3> HIDE DEF u, book, ca, T, sc
    <3>4. u \in EngineShape /\ u.m_ack_tracker = ca /\ u.m_retry_manager = r /\ SameRest(u, e)
      BY <3>2, <3>3 DEF SameRest, EngineShape
    <3>5. Pending(ca) \subseteq Pending(t) /\ Acked(ca) \subseteq Acked(t)
      BY <2>1, <3>3
    <3>6. Booked(e, u, m)
      BY <3>4, <3>5 DEF Booked
    <3>7. Receded(e, u)
      BY <1>3, <3>4, <3>5 DEF Receded, SameRest
    <3>8. QED
      BY <1>6, <2>3, <3>2, <3>6, <3>7 DEF u, book
  <2>4. CASE C = "RELIABLE_RETRY" /\ sc.res = "OK"
    <3>1. book = [res |-> "OK", engine |-> [[e EXCEPT !.m_ack_tracker = T]
                                               EXCEPT !.m_retry_manager = R]]
      BY <1>6, <2>4 DEF reserve_bookkeeping, Reliable
    <3>2. u = [[e EXCEPT !.m_ack_tracker = T] EXCEPT !.m_retry_manager = R] /\ book.res = "OK"
      BY <3>1
    <3>3. /\ R \in ManagerShape /\ RetriedOnce(R)
          /\ Retried(R) \subseteq Retried(r) \union {m}
      BY <1>0, <1>1, <2>4, RetrySchedule
    <3> HIDE DEF u, book, T, R
    <3>4. /\ u \in EngineShape /\ SameRest(u, e)
          /\ u.m_ack_tracker = T /\ u.m_retry_manager = R
      BY <2>1, <3>2, <3>3 DEF SameRest, EngineShape
    <3>5. Booked(e, u, m)
      BY <2>1, <3>3, <3>4 DEF Booked
    <3>6. QED
      BY <1>6, <2>1, <2>4, <3>2, <3>4, <3>5 DEF u, book
  <2>5. QED
    BY <1>0, <1>6, <2>2, <2>3, <2>4 DEF Reliable
<1>7. QED
  BY <1>4, <1>5, <1>6


\* A transport failure gives both slots back.
LEMMA Rollback ==
  ASSUME NEW e \in EngineShape, NEW u, NEW m \in Envelope, Booked(e, u, m),
         m.reliability_class # "RELIABLE_RETRY" => u.m_retry_manager = e.m_retry_manager,
         \A i, j \in AT!PendingFor(u.m_ack_tracker, m.source_id, m.message_id) : i = j
  PROVE  LET v == rollback_on_transport_failure(u, m)
         IN  Receded(e, v) /\ SameRest(v, e)
<1> DEFINE v == rollback_on_transport_failure(u, m)
           T == AT!cancel(u.m_ack_tracker, m.source_id, m.message_id).tracker
           C == RM!cancel(u.m_retry_manager, m.source_id, m.message_id).manager
           R == IF m.reliability_class = "RELIABLE_RETRY" THEN C ELSE u.m_retry_manager
<1>0. /\ u \in EngineShape
      /\ u.m_ack_tracker \in TrackerShape /\ u.m_retry_manager \in ManagerShape
  BY EngineFields DEF Booked
<1>1. /\ T \in TrackerShape
      /\ Pending(T) \subseteq Pending(u.m_ack_tracker)
      /\ Acked(T) \subseteq Acked(u.m_ack_tracker)
      /\ \A x \in Pending(T) : ~(x.source_id = m.source_id /\ x.message_id = m.message_id)
  BY <1>0, AckCancel
<1>2. Pending(T) \subseteq Pending(e.m_ack_tracker) /\ Acked(T) \subseteq Acked(e.m_ack_tracker)
  <2> HIDE DEF T
  <2> QED
    BY <1>1 DEF Booked
<1>3. /\ R \in ManagerShape /\ RetriedOnce(R)
      /\ Retried(R) \subseteq Retried(e.m_retry_manager)
  <2>1. CASE m.reliability_class = "RELIABLE_RETRY"
    <3>1. /\ C \in ManagerShape /\ RetriedOnce(C)
          /\ \A x \in Retried(C) : /\ x \in Retried(u.m_retry_manager)
                                   /\ ~(x.source_id = m.source_id
                                        /\ x.message_id = m.message_id)
      BY <1>0, RetryCancel DEF Booked
    <3> HIDE DEF C
    <3>2. QED
      BY <2>1, <3>1 DEF Booked
  <2>2. CASE m.reliability_class # "RELIABLE_RETRY"
    BY <1>0, <2>2 DEF Booked
  <2>3. QED
    BY <2>1, <2>2
<1>4. v = [u EXCEPT !.m_ack_tracker = T, !.m_retry_manager = R]
  BY DEF rollback_on_transport_failure
<1> HIDE DEF T, R, v
<1>5. /\ v \in EngineShape /\ v.m_ack_tracker = T /\ v.m_retry_manager = R /\ SameRest(v, u)
  BY <1>0, <1>1, <1>3, <1>4 DEF SameRest, EngineShape
<1>6. SameRest(v, e)
  BY <1>5 DEF SameRest, Booked
<1>7. Shrunk(e.m_ordering, e.m_ordering)
  BY EngineFields, ShrunkTwice
<1>8. Receded(e, v)
  BY <1>2, <1>3, <1>5, <1>6, <1>7 DEF Receded, SameRest
<1>9. QED
  BY <1>6, <1>8 DEF v

\* The message as it is sent.
LEMMA Stamped ==
  ASSUME NEW m \in Envelope, NEW q \in Nat
  PROVE  LET x == [m EXCEPT !.sequence_num = q, !.fragment_index = 0, !.fragment_count = 1,
                            !.total_payload_length = Len(m.payload)]
         IN  x \in Envelope /\ Alike(x, m)
<1>1. Len(m.payload) \in Nat
  BY DEF Envelope
<1>2. QED
  BY <1>1 DEF Envelope, Alike

(***************************************************************************)
(* send(): the engine books the message that goes on the wire; when no     *)
(* frame of it does, nothing is left of it.                                *)
(***************************************************************************)
LEMMA SendBooks ==
  ASSUME NEW e \in EngineShape, NEW m \in Envelope, RetriedOnce(e.m_retry_manager),
         NewTo(e, m), NEW now \in Nat, NEW accepted \in Nat
  PROVE  LET r == send(e, m, now, accepted)
         IN  /\ r.stamped \in Envelope /\ Alike(r.stamped, m)
             /\ \A y \in r.wire : y \in Envelope /\ Copy(y, r.stamped)
             /\ SameRest(r.engine, e)
             /\ \/ Receded(e, r.engine)
                \/ r.wire # {} /\ Booked(e, r.engine, r.stamped)
<1> DEFINE r == send(e, m, now, accepted)
           numbers == envelope_is_data(m) /\ m.sequence_num = 0 /\ ordering = "ORDERED"
           dst == m.destination_id
           q == IF numbers THEN next_seq_for(e, dst) ELSE m.sequence_num
           s == [m EXCEPT !.sequence_num = q, !.fragment_index = 0, !.fragment_count = 1,
                          !.total_payload_length = Len(m.payload)]
           Q == IF numbers THEN TakeSeq(e, dst) ELSE e.m_seq_state
           c == [e EXCEPT !.m_last_now_us = now, !.m_seq_state = Q]
           book == reserve_bookkeeping(c, s, now)
           out == send_fragments(s, now, accepted)
           failure == handle_send_fragments_failure(book.engine, s, out.res)
           Result(res, engine, wire) ==
             [res |-> res, engine |-> engine, wire |-> wire, stamped |-> s]
<1>1. q \in Nat /\ Q \in SeqState
  <2>1. dst \in Node \union {NODE_ID_INVALID} /\ m.sequence_num \in Nat
    BY DEF Envelope
  <2>2. QED
    BY <2>1, SequenceNumbers, EngineFields
<1> HIDE DEF q, Q
<1>2. s \in Envelope /\ Alike(s, m)
  BY <1>1, Stamped
<1>3. /\ c \in EngineShape /\ SameRest(c, e)
      /\ c.m_ack_tracker = e.m_ack_tracker /\ c.m_retry_manager = e.m_retry_manager
  BY <1>1 DEF SameRest, EngineShape
<1>4. r = CASE ClockWentBack(e, now) -> Result("ERR_INVALID", e, {})
            [] ~ClockWentBack(e, now) /\ book.res # "OK" -> Result(book.res, book.engine, {})
            [] ~ClockWentBack(e, now) /\ book.res = "OK" /\ out.res = "OK" ->
                 Result("OK", book.engine, out.wire)
            [] OTHER -> Result(failure.res, failure.engine, out.wire)
  BY DEF send, q, Q
<1> HIDE DEF s, c, r
<1>5. Receded(e, e) /\ SameRest(e, e)
  BY RecededTwice DEF SameRest
<1>6. /\ RetriedOnce(c.m_retry_manager) /\ NewTo(c, s)
      /\ Receded(e, c)
  BY <1>2, <1>3, <1>5 DEF NewTo, Alike, Receded, SameRest
<1>7. /\ Booked(c, book.engine, s)
      /\ book.res # "OK" => Receded(c, book.engine)
      /\ ~Reliable(s) => book.engine = c
      /\ s.reliability_class # "RELIABLE_RETRY" =>
           book.engine.m_retry_manager = c.m_retry_manager
      /\ book.res = "OK" =>
           \A i, j \in AT!PendingFor(book.engine.m_ack_tracker, s.source_id, s.message_id) :
             i = j
  BY <1>2, <1>3, <1>6, Reserve
<1>8. /\ \A y \in out.wire : y \in Envelope /\ Copy(y, s)
      /\ out.res \in {"OK", "ERR_IO_PARTIAL"} => out.wire # {}
  BY <1>2, SendFragments
<1>9. SameRest(book.engine, e) /\ Booked(e, book.engine, s)
  BY <1>3, <1>7 DEF Booked, SameRest
<1>10. CASE ClockWentBack(e, now)
  <2>1. r = Result("ERR_INVALID", e, {})
    BY <1>4, <1>10
  <2>2. r.engine = e /\ r.wire = {} /\ r.stamped = s
    BY <2>1
  <2>3. QED
    BY <1>2, <1>5, <2>2 DEF r
<1>11. CASE ~ClockWentBack(e, now) /\ book.res # "OK"
  <2> HIDE DEF book
  <2>1. r = Result(book.res, book.engine, {})
    BY <1>4, <1>11
  <2>2. r.engine = book.engine /\ r.wire = {} /\ r.stamped = s
    BY <2>1
  <2>3. Receded(e, r.engine)
    BY <1>6, <1>7, <1>11, <2>2, RecededTwice
  <2>4. QED
    BY <1>2, <1>9, <2>2, <2>3 DEF r
<1>12. CASE ~ClockWentBack(e, now) /\ book.res = "OK" /\ out.res = "OK"
  <2> HIDE DEF book, out
  <2>1. r = Result("OK", book.engine, out.wire)
    BY <1>4, <1>12
  <2>2. r.engine = book.engine /\ r.wire = out.wire /\ r.stamped = s
    BY <2>1
  <2>3. QED
    BY <1>2, <1>8, <1>9, <1>12, <2>2 DEF r
<1>13. CASE ~ClockWentBack(e, now) /\ book.res = "OK" /\ out.res # "OK"
  <2> HIDE DEF book, out
  <2>1. r = Result(failure.res, failure.engine, out.wire)
    BY <1>4, <1>13
  <2>2. r.engine = failure.engine /\ r.wire = out.wire /\ r.stamped = s
    BY <2>1
  <2>3. CASE out.res = "ERR_IO_PARTIAL"
    <3>1. failure.engine = book.engine
      BY <2>3 DEF handle_send_fragments_failure
    <3>2. QED
      BY <1>2, <1>8, <1>9, <2>2, <2>3, <3>1 DEF r
  <2>4. CASE out.res # "ERR_IO_PARTIAL" /\ Reliable(s)
    <3>1. failure.engine = rollback_on_transport_failure(book.engine, s)
      BY <2>4 DEF handle_send_fragments_failure
    <3>2. Receded(c, failure.engine) /\ SameRest(failure.engine, c)
      BY <1>2, <1>3, <1>7, <1>13, <3>1, Rollback
    <3>3. Receded(e, failure.engine) /\ SameRest(failure.engine, e)
      BY <1>3, <1>6, <3>2, RecededTwice DEF SameRest
    <3>4. QED
      BY <1>2, <1>8, <2>2, <3>3 DEF r
  <2>5. CASE out.res # "ERR_IO_PARTIAL" /\ ~Reliable(s)
    <3>1. failure.engine = c
      BY <1>7, <2>5 DEF handle_send_fragments_failure
    <3>2. QED
      BY <1>2, <1>3, <1>6, <1>8, <2>2, <3>1 DEF r
  <2>6. QED
    BY <2>3, <2>4, <2>5
<1>14. QED
  BY <1>10, <1>11, <1>12, <1>13


-----------------------------------------------------------------------------
(* receive(). *)

\* What an engine keeps until its turn comes.
KeptBy(e) == e.m_held_pending \union Holding(e.m_ordering)

(***************************************************************************)
(* No step of receive() adds to what the node has in flight, and what it   *)
(* keeps for the application is what it kept before and what arrived, X.   *)
(***************************************************************************)
Passed(e, u, X) ==
  /\ u \in EngineShape
  /\ Pending(u.m_ack_tracker) \subseteq Pending(e.m_ack_tracker)
  /\ Retried(u.m_retry_manager) \subseteq Retried(e.m_retry_manager)
  /\ KeptBy(u) \subseteq KeptBy(e) \union X

UniqueIds(S) == \A s, t \in S : s.message_id = t.message_id => s = t

LEMMA RecededPasses ==
  ASSUME NEW e \in EngineShape, NEW u, Receded(e, u)
  PROVE  Passed(e, u, {})
<1>1. Holding(u.m_ordering) \subseteq Holding(e.m_ordering)
  BY EngineFields, ShrunkFacts DEF Receded
<1>2. QED
  BY <1>1 DEF Receded, Passed, KeptBy

LEMMA PassedTwice ==
  ASSUME NEW e, NEW u, NEW v, NEW X, Passed(e, u, {}), Passed(u, v, X)
  PROVE  Passed(e, v, X)
BY DEF Passed

LEMMA PassedForgets ==
  ASSUME NEW e, NEW u, Passed(e, u, {}), NEW p, Forgotten(e, p)
  PROVE  Forgotten(u, p)
BY DEF Passed, Forgotten, KeptBy

\* Copies of messages with different ids are told apart by their ids.
LEMMA TwiceBothWays ==
  ASSUME NEW S, UniqueIds(S), NEW x, NEW y, Genuine(x, S), Genuine(y, S)
  PROVE  /\ Twice(x, y) => Twice(y, x)
         /\ x.message_id = y.message_id => Copy(x, y)
BY DEF UniqueIds, Genuine, Copy, Alike, Twice, SameMessage, InRetryClass

\* An engine that only gives up messages keeps none twice.
LEMMA FewerKept ==
  ASSUME NEW e \in EngineShape, NEW d, OnceOK(e, d), NEW u, u.m_dedup = e.m_dedup,
         Shrunk(e.m_ordering, u.m_ordering), u.m_held_pending \subseteq e.m_held_pending
  PROVE  OnceOK(u, d)
<1>1. /\ OB!Held(u.m_ordering) \subseteq OB!Held(e.m_ordering)
      /\ \A h \in OB!Held(u.m_ordering) : u.m_ordering.m_hold[h] = e.m_ordering.m_hold[h]
      /\ Holding(u.m_ordering) \subseteq Holding(e.m_ordering)
  BY EngineFields, ShrunkFacts
<1>2. WindowOK(u.m_dedup)
  BY DEF OnceOK
<1>3. \A x \in u.m_held_pending \union Holding(u.m_ordering) :
        Recorded(u.m_dedup, x) /\ \A i \in DOMAIN d : ~Twice(x, d[i])
  BY <1>1 DEF OnceOK
<1>4. \A i \in DOMAIN d : Recorded(u.m_dedup, d[i])
  BY DEF OnceOK
<1>5. \A i, j \in DOMAIN d : Twice(d[i], d[j]) => i = j
  BY DEF OnceOK
<1>6. \A x \in u.m_held_pending, y \in Holding(u.m_ordering) : ~Twice(x, y)
  BY <1>1 DEF OnceOK
<1>7. \A g, h \in OB!Held(u.m_ordering) :
        Twice(u.m_ordering.m_hold[g].env, u.m_ordering.m_hold[h].env) => g = h
  BY <1>1 DEF OnceOK
<1>8. QED
  BY <1>2, <1>3, <1>4, <1>5, <1>6, <1>7 DEF OnceOK

(***************************************************************************)
(* The next message of a source is staged, if it is there.                 *)
(***************************************************************************)
LEMMA StageNextKeeps ==
  ASSUME NEW e \in EngineShape, NEW n, NEW S, EngineOK(e, n, S), NEW src
  PROVE  LET u == StageNext(e, src)
         IN  /\ Passed(e, u, {}) /\ EngineOK(u, n, S)
             /\ \A d : OnceOK(e, d) => OnceOK(u, d)
<1> DEFINE u == StageNext(e, src)
           o == e.m_ordering
           r == OB!try_release_next(o, src)
           p == r.buffer
           held == r.out
<1>1. o \in OB!Buffer /\ PeersOK(o)
  BY EngineFields DEF EngineOK
<1>2. /\ Shrunk(o, p)
      /\ \/ r.res # "OK" /\ p = o
         \/ /\ r.res = "OK"
            /\ \E h \in OB!Held(o) : /\ held = {o.m_hold[h].env}
                                     /\ h \notin OB!Held(p)
                                     /\ o.m_hold[h].env.source_id = src
  BY <1>1, ReleaseShrinks
<1>3. CASE r.res # "OK"
  <2>1. u = e
    BY <1>3 DEF StageNext
  <2> HIDE DEF u
  <2>2. QED
    BY <2>1 DEF Passed, u
<1>4. CASE r.res = "OK"
  <2>1. u = [e EXCEPT !.m_ordering = p, !.m_held_pending = held]
    BY <1>4 DEF StageNext
  <2> HIDE DEF u, r
  <2>2. PICK h \in OB!Held(o) : held = {o.m_hold[h].env} /\ h \notin OB!Held(p)
    BY <1>2, <1>4
  <2>3. o.m_hold[h].env \in Holding(o)
    BY <2>2 DEF Holding
  <2>4. o.m_hold[h].env \in Envelope
    BY <1>1, <2>3, HoldingFacts
  <2>5. /\ p \in OB!Buffer /\ OB!Held(p) \subseteq OB!Held(o)
        /\ \A g \in OB!Held(p) : p.m_hold[g] = o.m_hold[g]
        /\ Holding(p) \subseteq Holding(o) /\ PeersOK(p)
    BY <1>1, <1>2, ShrunkFacts
  <2> HIDE DEF p, held
  <2>6. /\ u \in EngineShape /\ u.m_ordering = p /\ u.m_held_pending = held
        /\ u.m_ack_tracker = e.m_ack_tracker /\ u.m_retry_manager = e.m_retry_manager
        /\ u.m_reassembly = e.m_reassembly /\ u.m_dedup = e.m_dedup
    BY <2>1, <2>2, <2>4, <2>5 DEF EngineShape
  <2>7. held \subseteq Holding(o)
    BY <2>2, <2>3
  <2>8. Passed(e, u, {})
    BY <2>5, <2>6, <2>7 DEF Passed, KeptBy
  <2>9. EngineOK(u, n, S)
    BY <2>5, <2>6, <2>7 DEF EngineOK
  <2>10. ASSUME NEW d, OnceOK(e, d) PROVE OnceOK(u, d)
    <3>1. WindowOK(u.m_dedup)
      BY <2>6, <2>10 DEF OnceOK
    <3>2. \A x \in u.m_held_pending \union Holding(u.m_ordering) :
            Recorded(u.m_dedup, x) /\ \A i \in DOMAIN d : ~Twice(x, d[i])
      BY <2>5, <2>6, <2>7, <2>10 DEF OnceOK
    <3>3. \A i \in DOMAIN d : Recorded(u.m_dedup, d[i])
      BY <2>6, <2>10 DEF OnceOK
    <3>4. \A i, j \in DOMAIN d : Twice(d[i], d[j]) => i = j
      BY <2>10 DEF OnceOK
    <3>5. ASSUME NEW x \in u.m_held_pending, NEW y \in Holding(u.m_ordering) PROVE ~Twice(x, y)
      <4>1. x = o.m_hold[h].env
        BY <2>2, <2>6
      <4>2. PICK g \in OB!Held(p) : y = p.m_hold[g].env
        BY <2>6 DEF Holding
      <4>3. y = o.m_hold[g].env /\ g \in OB!Held(o) /\ g # h
        BY <2>2, <2>5, <4>2
      <4>4. QED
        BY <2>10, <4>1, <4>3 DEF OnceOK
    <3>6. \A g, k \in OB!Held(u.m_ordering) :
            Twice(u.m_ordering.m_hold[g].env, u.m_ordering.m_hold[k].env) => g = k
      BY <2>5, <2>6, <2>10 DEF OnceOK
    <3>7. QED
      BY <3>1, <3>2, <3>3, <3>4, <3>5, <3>6 DEF OnceOK
  <2>11. QED
    BY <2>8, <2>9, <2>10 DEF u
<1>5. QED
  BY <1>3, <1>4


\* What the application has been given when it was given d and receive() returns.
After(d, out) == IF out = {} THEN d ELSE Append(d, CHOOSE x \in out : TRUE)

(***************************************************************************)
(* What is known of an outcome o of receive() of node n, e being the       *)
(* engine before, S what was sent and X what arrived.                      *)
(***************************************************************************)
Answered(o, e, n, S, X) ==
  /\ Passed(e, o.engine, X)
  /\ EngineOK(o.engine, n, S)
  /\ o.out = {} \/ \E x \in KeptBy(e) \union X : o.out = {x}
  /\ \A a \in o.reply : a \in Envelope /\ MadeAck(a, S)

StillOnce(o, e, S) ==
  \A d \in Seq(Envelope) :
    /\ \A i \in DOMAIN d : Genuine(d[i], S)
    /\ OnceOK(e, d)
    => OnceOK(o.engine, After(d, o.out))

LEMMA KeptIsGenuine ==
  ASSUME NEW e \in EngineShape, NEW n, NEW S, EngineOK(e, n, S)
  PROVE  \A x \in KeptBy(e) : x \in Envelope /\ Genuine(x, S)
BY EngineFields, HoldingFacts DEF EngineOK, KeptBy

LEMMA AckOfCopy ==
  ASSUME NEW x \in Envelope, NEW S, Genuine(x, S), NEW n \in Node
  PROVE  /\ envelope_make_ack(x, n) \in Envelope
         /\ MadeAck(envelope_make_ack(x, n), S)
         /\ \A a \in AcksFor(n, {x}) : a \in Envelope /\ MadeAck(a, S)
<1> DEFINE a == envelope_make_ack(x, n)
<1>1. x.message_id \in MessageId /\ x.source_id \in Node
  BY DEF Envelope
<1>2. <<>> \in Seq(Nat) /\ 0 \in Nat
  OBVIOUS
<1>3. a \in Envelope
  BY <1>1, <1>2 DEF envelope_make_ack, Envelope, Type, Reliability
<1>4. MadeAck(a, S)
  BY Copies DEF envelope_make_ack, MadeAck
<1> HIDE DEF a
<1>5. \A b \in AcksFor(n, {x}) : b = a
  BY DEF AcksFor, a
<1>6. QED
  BY <1>3, <1>4, <1>5 DEF a

\* One message more is handed out.
LEMMA OneMore ==
  ASSUME NEW S, UniqueIds(S), NEW e, NEW d \in Seq(Envelope), OnceOK(e, d),
         \A i \in DOMAIN d : Genuine(d[i], S),
         \A y \in KeptBy(e) : Genuine(y, S),
         NEW x \in Envelope, Genuine(x, S), Recorded(e.m_dedup, x),
         \A i \in DOMAIN d : ~Twice(x, d[i]),
         \A y \in KeptBy(e) : ~Twice(x, y)
  PROVE  OnceOK(e, Append(d, x))
<1> DEFINE c == Append(d, x)
           k == Len(d) + 1
<1>1. /\ Len(d) \in Nat /\ DOMAIN d = 1 .. Len(d)
      /\ DOMAIN c = 1 .. k /\ c[k] = x
      /\ \A i \in DOMAIN d : c[i] = d[i]
  OBVIOUS
<1> HIDE DEF c
<1>2. \A i \in DOMAIN c : (i \in DOMAIN d /\ c[i] = d[i]) \/ (i = k /\ c[i] = x)
  BY <1>1
<1>3. \A y : Genuine(y, S) /\ ~Twice(x, y) => ~Twice(y, x)
  BY TwiceBothWays
<1>4. \A i \in DOMAIN d : ~Twice(d[i], x)
  BY <1>3
<1>5. \A y \in KeptBy(e) : ~Twice(y, x)
  BY <1>3
<1>6. \A i \in DOMAIN c : Recorded(e.m_dedup, c[i])
  BY <1>2 DEF OnceOK
<1>7. \A i, j \in DOMAIN c : Twice(c[i], c[j]) => i = j
  BY <1>2, <1>4 DEF OnceOK
<1>8. \A y \in KeptBy(e) : \A i \in DOMAIN c : ~Twice(y, c[i])
  BY <1>2, <1>5 DEF OnceOK, KeptBy
<1>9. OnceOK(e, c)
  BY <1>6, <1>7, <1>8 DEF OnceOK, KeptBy
<1>10. QED
  BY <1>9 DEF c

LEMMA DeliverStaged ==
  ASSUME NEW e \in EngineShape, NEW n \in Node, NEW S, UniqueIds(S), EngineOK(e, n, S),
         e.m_held_pending # {}, NEW now
  PROVE  LET o == deliver_held_pending(e, n, now)
         IN  /\ Answered(o, e, n, S, {}) /\ StillOnce(o, e, S)
             /\ o.res # "OK" => o.out = {} /\ o.reply = {}
<1> DEFINE o == deliver_held_pending(e, n, now)
           x == CHOOSE y \in e.m_held_pending : TRUE
           f == [e EXCEPT !.m_held_pending = {}]
           u == StageNext(f, x.source_id)
<1>1. x \in e.m_held_pending
  OBVIOUS
<1> HIDE DEF x
<1>2. /\ f \in EngineShape /\ f.m_held_pending = {}
      /\ f.m_ack_tracker = e.m_ack_tracker /\ f.m_retry_manager = e.m_retry_manager
      /\ f.m_ordering = e.m_ordering /\ f.m_reassembly = e.m_reassembly
      /\ f.m_dedup = e.m_dedup
  BY DEF EngineShape
<1>3. \/ o = Outcome("ERR_EXPIRED", u, {}, {})
      \/ o = Outcome("OK", u, {x}, AcksFor(n, {x}))
  BY DEF deliver_held_pending, x
<1> HIDE DEF f
<1>4. Shrunk(e.m_ordering, e.m_ordering)
  BY EngineFields, ShrunkTwice
<1>5. Receded(e, f)
  BY <1>2, <1>4 DEF Receded
<1>6. EngineOK(f, n, S) /\ Passed(e, f, {})
  BY <1>5, RecededOK, RecededPasses
<1>7. Passed(f, u, {}) /\ EngineOK(u, n, S) /\ \A d : OnceOK(f, d) => OnceOK(u, d)
  BY <1>2, <1>6, StageNextKeeps
<1> HIDE DEF u, o
<1>8. Passed(e, u, {})
  BY <1>6, <1>7, PassedTwice
<1>9. x \in KeptBy(e) /\ x \in Envelope /\ Genuine(x, S)
  BY <1>1, KeptIsGenuine DEF KeptBy
<1>10. ASSUME NEW d, OnceOK(e, d) PROVE OnceOK(f, d)
  BY <1>2, <1>4, <1>10, FewerKept
<1>11. CASE o = Outcome("ERR_EXPIRED", u, {}, {})
  <2>1. o.engine = u /\ o.out = {} /\ o.reply = {}
    BY <1>11 DEF Outcome
  <2>2. StillOnce(o, e, S)
    BY <1>7, <1>10, <2>1 DEF StillOnce, After
  <2>3. QED
    BY <1>7, <1>8, <2>1, <2>2 DEF Answered, o
<1>12. CASE o = Outcome("OK", u, {x}, AcksFor(n, {x}))
  <2>1. o.engine = u /\ o.out = {x} /\ o.reply = AcksFor(n, {x}) /\ o.res = "OK"
    BY <1>12 DEF Outcome
  <2>2. \A a \in o.reply : a \in Envelope /\ MadeAck(a, S)
    BY <1>9, <2>1, AckOfCopy
  <2>3. ASSUME NEW d \in Seq(Envelope), \A i \in DOMAIN d : Genuine(d[i], S), OnceOK(e, d)
        PROVE  OnceOK(u, Append(d, x))
    <3>1. OnceOK(f, d)
      BY <1>10, <2>3
    <3>2. KeptBy(f) = Holding(e.m_ordering)
      BY <1>2 DEF KeptBy
    <3>3. /\ Recorded(f.m_dedup, x)
          /\ \A i \in DOMAIN d : ~Twice(x, d[i])
          /\ \A y \in KeptBy(f) : ~Twice(x, y)
      BY <1>1, <1>2, <2>3, <3>2 DEF OnceOK
    <3>4. \A y \in KeptBy(f) : Genuine(y, S)
      BY <1>2, <1>6, KeptIsGenuine
    <3>5. OnceOK(f, Append(d, x))
      BY <1>9, <2>3, <3>1, <3>3, <3>4, OneMore
    <3>6. QED
      BY <1>7, <3>5
  <2>4. \A d : After(d, o.out) = Append(d, x)
    <3>1. (CHOOSE y \in {x} : TRUE) = x
      OBVIOUS
    <3>2. QED
      BY <2>1, <3>1 DEF After
  <2>5. StillOnce(o, e, S)
    BY <2>1, <2>3, <2>4 DEF StillOnce
  <2>6. QED
    BY <1>7, <1>8, <1>9, <2>1, <2>2, <2>5 DEF Answered, o
<1>13. QED
  BY <1>3, <1>11, <1>12


\* receive() up to the transport.
LEMMA StagedOutcome ==
  ASSUME NEW e \in EngineShape, NEW n \in Node, NEW S, UniqueIds(S), EngineOK(e, n, S),
         NEW H, IsFiniteSet(H), NEW now \in Nat,
         receive_staged(e, n, H, now).res # "ERR_INVALID"
  PROVE  LET o == receive_staged(e, n, H, now)
         IN  /\ Answered(o, e, n, S, {}) /\ StillOnce(o, e, S)
             /\ o.res # "OK" => o.out = {} /\ o.reply = {}
             /\ \A h \in H : Forgotten(o.engine, h)
<1> DEFINE o == receive_staged(e, n, H, now)
           f == [e EXCEPT !.m_last_now_us = now]
           u == drain_hello_reconnects(f, H)
<1>1. ~ClockWentBack(e, now)
  BY DEF receive_staged, Outcome
<1>2. o = IF u.m_held_pending # {} THEN deliver_held_pending(u, n, now)
                                   ELSE Outcome("ERR_EMPTY", u, {}, {})
  BY <1>1 DEF receive_staged
<1>3. Receded(e, f)
  BY RecededTime
<1>4. f \in EngineShape /\ EngineOK(f, n, S)
  BY <1>3, RecededOK DEF Receded
<1> HIDE DEF f
<1>5. Receded(f, u) /\ \A h \in H : Forgotten(u, h)
  BY <1>4, DrainForgets
<1> HIDE DEF u, o
<1>6. Receded(e, u) /\ u \in EngineShape
  BY <1>3, <1>5, RecededTwice DEF Receded
<1>7. EngineOK(u, n, S) /\ Passed(e, u, {})
  BY <1>6, RecededOK, RecededPasses
<1>8. ASSUME NEW d, OnceOK(e, d) PROVE OnceOK(u, d)
  BY <1>6, <1>8, FewerKept DEF Receded
<1>9. CASE u.m_held_pending = {}
  <2>1. o.engine = u /\ o.out = {} /\ o.reply = {}
    BY <1>2, <1>9 DEF Outcome
  <2>2. StillOnce(o, e, S)
    BY <1>8, <2>1 DEF StillOnce, After
  <2>3. QED
    BY <1>5, <1>7, <2>1, <2>2 DEF Answered, o
<1>10. CASE u.m_held_pending # {}
  <2>1. o = deliver_held_pending(u, n, now)
    BY <1>2, <1>10
  <2>2. /\ Answered(o, u, n, S, {}) /\ StillOnce(o, u, S)
        /\ o.res # "OK" => o.out = {} /\ o.reply = {}
    BY <1>6, <1>7, <1>10, <2>1, DeliverStaged
  <2>3. Passed(u, o.engine, {}) /\ KeptBy(u) \subseteq KeptBy(e)
    BY <1>7, <2>2 DEF Answered, Passed
  <2>4. Passed(e, o.engine, {}) /\ \A h \in H : Forgotten(o.engine, h)
    BY <1>5, <1>7, <2>3, PassedTwice, PassedForgets
  <2>5. Answered(o, e, n, S, {})
    BY <2>2, <2>3, <2>4 DEF Answered
  <2>6. StillOnce(o, e, S)
    BY <1>8, <2>2 DEF StillOnce
  <2>7. QED
    BY <2>2, <2>4, <2>5, <2>6 DEF o
<1>11. QED
  BY <1>9, <1>10

\* An ACK ends the wait for it and the retries of the message.
LEMMA AckOutcome ==
  ASSUME NEW e \in EngineShape, NEW n, NEW S, UniqueIds(S), EngineOK(e, n, S), NEW env
  PROVE  LET u == process_ack(e, env)
         IN  /\ Passed(e, u, {}) /\ EngineOK(u, n, S)
             /\ \A d : OnceOK(e, d) => OnceOK(u, d)
<1> DEFINE u == process_ack(e, env)
           src == env.destination_id
           id == env.message_id
           T == AT!on_ack(e.m_ack_tracker, src, id).tracker
           R == RM!on_ack(e.m_retry_manager, src, id).manager
<1>1. u = e \/ u = [e EXCEPT !.m_ack_tracker = T, !.m_retry_manager = R]
  BY DEF process_ack
<1>2. CASE u = e
  <2> HIDE DEF u
  <2> QED
    BY <1>2 DEF Passed, u
<1>3. CASE u = [e EXCEPT !.m_ack_tracker = T, !.m_retry_manager = R]
  <2>1. /\ e.m_ack_tracker \in TrackerShape /\ e.m_retry_manager \in ManagerShape
        /\ RetriedOnce(e.m_retry_manager)
    BY EngineFields DEF EngineOK
  <2>2. /\ T \in TrackerShape
        /\ Pending(T) \subseteq Pending(e.m_ack_tracker)
        /\ \A a \in Acked(T) : \/ a \in Acked(e.m_ack_tracker)
                               \/ /\ a \in Pending(e.m_ack_tracker)
                                  /\ a.source_id = src /\ a.message_id = id
    BY <2>1, AckOnAck
  <2>3. /\ R \in ManagerShape /\ RetriedOnce(R)
        /\ \A m \in Retried(R) : /\ m \in Retried(e.m_retry_manager)
                                 /\ ~(m.source_id = src /\ m.message_id = id)
    BY <2>1, RetryOnAck
  <2> HIDE DEF u, T, R
  <2>4. /\ u \in EngineShape /\ u.m_ack_tracker = T /\ u.m_retry_manager = R
        /\ SameRest(u, e)
    BY <1>3, <2>2, <2>3 DEF SameRest, EngineShape
  <2>5. Passed(e, u, {})
    BY <2>2, <2>3, <2>4 DEF Passed, KeptBy, SameRest
  <2>6. ASSUME NEW a \in Acked(T), NEW b \in Retried(R) PROVE a.message_id # b.message_id
    <3>1. CASE a \in Acked(e.m_ack_tracker)
      BY <2>3, <3>1 DEF EngineOK
    <3>2. CASE a \in Pending(e.m_ack_tracker) /\ a.source_id = src /\ a.message_id = id
      <4>1. a \in S /\ b \in S
        BY <2>3, <3>2 DEF EngineOK
      <4>2. QED
        BY <2>3, <3>2, <4>1 DEF UniqueIds
    <3>3. QED
      BY <2>2, <3>1, <3>2
  <2>7. \A m \in Pending(T) \union Acked(T) \union Retried(R) : m \in S /\ m.source_id = n
    BY <2>2, <2>3 DEF EngineOK
  <2>8. EngineOK(u, n, S)
    BY <2>3, <2>4, <2>6, <2>7 DEF EngineOK, SameRest
  <2>9. \A d : OnceOK(e, d) => OnceOK(u, d)
    BY <2>4 DEF OnceOK, SameRest
  <2>10. QED
    BY <2>5, <2>8, <2>9 DEF u
<1>4. QED
  BY <1>1, <1>2, <1>3


\* What was sent came from the applications.
Traced(S) == \A s \in S : \E m \in Workload : Alike(s, m)

\* The filter lets a message pass that it has not recorded, and records it.
LEMMA DedupStep ==
  ASSUME NEW e \in EngineShape, NEW S, UniqueIds(S), Traced(S),
         NEW x \in Envelope, Genuine(x, S), NEW now \in Nat,
         handle_data_dedup(e, x, now).res = "OK"
  PROVE  LET f == e.m_dedup
             g == handle_data_dedup(e, x, now).filter
         IN  /\ g \in DF!Filter
             /\ WindowSuffices /\ WindowOK(f) =>
                  /\ WindowOK(g) /\ Recorded(g, x)
                  /\ \A y : Recorded(f, y) => Recorded(g, y)
             /\ \A y : Genuine(y, S) /\ Recorded(f, y) => ~Twice(x, y)
<1> DEFINE f == e.m_dedup
           g == handle_data_dedup(e, x, now).filter
           src == x.source_id
           id == x.message_id
<1>1. f \in DF!Filter /\ src \in Node /\ id \in MessageId
  BY EngineFields DEF Envelope
<1>2. CASE ~InRetryClass(x)
  <2>1. g = f
    BY <1>2 DEF handle_data_dedup, InRetryClass
  <2> HIDE DEF g
  <2>2. Recorded(g, x) /\ \A y : ~Twice(x, y)
    BY <1>2 DEF Recorded, Twice
  <2>3. QED
    BY <1>1, <2>1, <2>2 DEF g
<1>3. CASE InRetryClass(x)
  <2>1. handle_data_dedup(e, x, now) = DF!check_and_record(f, src, id, now)
    BY <1>3 DEF handle_data_dedup, InRetryClass
  <2>2. ~DF!is_duplicate(f, src, id) /\ g = DF!record(f, src, id, now)
    BY <2>1 DEF DF!check_and_record
  <2>3. g \in DF!Filter
    BY <1>1, <2>1, DedupShape
  <2> HIDE DEF g
  <2>4. <<src, id>> \in RetryPairs
    <3>1. PICK s \in S : Copy(x, s)
      BY DEF Genuine
    <3>2. PICK m \in Workload : /\ s.source_id = m.source_id
                                /\ s.message_id = m.message_id
                                /\ s.reliability_class = m.reliability_class
      BY <3>1 DEF Traced, Alike
    <3>3. src = m.source_id /\ id = m.message_id /\ InRetryClass(m)
      BY <1>3, <3>1, <3>2 DEF Copy, Alike, InRetryClass
    <3>4. QED
      BY <3>2, <3>3 DEF RetryPairs
  <2>5. ASSUME WindowSuffices, WindowOK(f)
        PROVE  WindowOK(g) /\ Recorded(g, x) /\ \A y : Recorded(f, y) => Recorded(g, y)
    <3>1. /\ WindowOK(g) /\ DF!is_duplicate(g, src, id)
          /\ \A a, b : DF!is_duplicate(f, a, b) => DF!is_duplicate(g, a, b)
      BY <1>1, <2>2, <2>4, <2>5, DedupOnce
    <3>2. QED
      BY <3>1 DEF Recorded
  <2>6. ASSUME NEW y, Genuine(y, S), Recorded(f, y), Twice(x, y) PROVE FALSE
    <3>1. InRetryClass(y) /\ y.source_id = src /\ y.message_id = id
      BY <2>6, TwiceBothWays DEF Twice, SameMessage
    <3>2. QED
      BY <2>2, <2>6, <3>1 DEF Recorded
  <2>7. QED
    BY <2>3, <2>5, <2>6 DEF g
<1>4. QED
  BY <1>2, <1>3

\* The gate: expired holds go, then the message is held, passed on or dropped.
LEMMA GateStep ==
  ASSUME NEW o \in OB!Buffer, PeersOK(o), NEW x \in Envelope, NEW now
  PROVE  LET q == OB!sweep_expired_holds(o, now, ORDERING_HOLD_COUNT).buffer
             r == OB!ingest(q, x)
             p == r.buffer
         IN  /\ p \in OB!Buffer /\ PeersOK(p)
             /\ \E k : \A h \in OB!Held(p) :
                         \/ h \in OB!Held(o) /\ p.m_hold[h] = o.m_hold[h]
                         \/ h = k /\ p.m_hold[h].env = x /\ r.res # "OK"
             /\ \A y \in Holding(p) : y \in Holding(o) \/ (y = x /\ r.res # "OK")
<1> DEFINE q == OB!sweep_expired_holds(o, now, ORDERING_HOLD_COUNT).buffer
           r == OB!ingest(q, x)
           p == r.buffer
<1>1. Shrunk(o, q)
  BY SweepShrinks
<1> HIDE DEF q
<1>2. /\ q \in OB!Buffer /\ PeersOK(q)
      /\ OB!Held(q) \subseteq OB!Held(o)
      /\ \A h \in OB!Held(q) : q.m_hold[h] = o.m_hold[h]
  BY <1>1, ShrunkFacts
<1>3. Kept(q, x, p, r.res)
  BY <1>2, IngestKeeps
<1> HIDE DEF r
<1>4. PICK k : \A h \in OB!Held(p) :
                 \/ h \in OB!Held(q) /\ p.m_hold[h] = q.m_hold[h]
                 \/ h = k /\ p.m_hold[h].env = x /\ r.res # "OK"
  BY <1>3 DEF Kept
<1>5. \A h \in OB!Held(p) :
        \/ h \in OB!Held(o) /\ p.m_hold[h] = o.m_hold[h]
        \/ h = k /\ p.m_hold[h].env = x /\ r.res # "OK"
  BY <1>2, <1>4
<1>6. \A y \in Holding(p) : y \in Holding(o) \/ (y = x /\ r.res # "OK")
  BY <1>5 DEF Holding
<1>7. QED
  BY <1>3, <1>5, <1>6 DEF Kept, r, q


(***************************************************************************)
(* The data path: filter, gate, and the next message of the source.        *)
(***************************************************************************)
LEMMA DataOutcome ==
  ASSUME NEW e \in EngineShape, NEW n \in Node, NEW S, UniqueIds(S), Traced(S),
         EngineOK(e, n, S), NEW x \in Envelope, Genuine(x, S),
         x.destination_id \in {n, NODE_ID_INVALID}, NEW now \in Nat
  PROVE  LET o == handle_data_path(e, n, x, now)
         IN  Answered(o, e, n, S, {x}) /\ (WindowSuffices => StillOnce(o, e, S))
<1> DEFINE o == handle_data_path(e, n, x, now)
           dedup == handle_data_dedup(e, x, now)
           f == e.m_dedup
           g == dedup.filter
           fresh == [e EXCEPT !.m_dedup = g]
           gate == handle_ordering_gate(fresh, x, now)
           p == gate.buffer
           u == [fresh EXCEPT !.m_ordering = p]
           b == e.m_ordering
<1>1. b \in OB!Buffer /\ PeersOK(b)
  BY EngineFields DEF EngineOK
<1>2. CASE dedup.res # "OK"
  <2>1. o = Outcome("ERR_DUPLICATE", e, {}, {envelope_make_ack(x, n)})
    BY <1>2 DEF handle_data_path
  <2>2. o.engine = e /\ o.out = {} /\ o.reply = {envelope_make_ack(x, n)}
    BY <2>1 DEF Outcome
  <2> HIDE DEF o
  <2>3. \A a \in o.reply : a \in Envelope /\ MadeAck(a, S)
    BY <2>2, AckOfCopy
  <2>4. Answered(o, e, n, S, {x}) /\ StillOnce(o, e, S)
    BY <2>2, <2>3 DEF Answered, Passed, StillOnce, After
  <2>5. QED
    BY <2>4 DEF o
<1>3. CASE dedup.res = "OK"
  <2>1. /\ g \in DF!Filter
        /\ WindowSuffices /\ WindowOK(f) =>
             /\ WindowOK(g) /\ Recorded(g, x)
             /\ \A y : Recorded(f, y) => Recorded(g, y)
        /\ \A y : Genuine(y, S) /\ Recorded(f, y) => ~Twice(x, y)
    BY <1>3, DedupStep
  <2> HIDE DEF g, dedup
  <2>2. fresh.m_ordering = b
    BY DEF EngineShape
  <2>3. gate = OB!ingest(OB!sweep_expired_holds(b, now, ORDERING_HOLD_COUNT).buffer, x)
    BY <2>2 DEF handle_ordering_gate
  <2> HIDE DEF gate
  <2>4. /\ p \in OB!Buffer /\ PeersOK(p)
        /\ \E k : \A h \in OB!Held(p) :
                    \/ h \in OB!Held(b) /\ p.m_hold[h] = b.m_hold[h]
                    \/ h = k /\ p.m_hold[h].env = x /\ gate.res # "OK"
        /\ \A y \in Holding(p) : y \in Holding(b) \/ (y = x /\ gate.res # "OK")
    BY <1>1, <2>3, GateStep
  <2>5. \/ /\ gate.res # "OK"
           /\ o = Outcome(gate.res, u, {}, {})
        \/ /\ gate.res = "OK"
           /\ o = Outcome("OK", StageNext(u, x.source_id), {x}, AcksFor(n, {x}))
    BY <1>3 DEF handle_data_path, dedup, g, gate
  <2>6. u = [[e EXCEPT !.m_dedup = g] EXCEPT !.m_ordering = p]
    OBVIOUS
  <2> HIDE DEF p, u
  <2>7. /\ u \in EngineShape /\ u.m_ordering = p /\ u.m_dedup = g
        /\ u.m_held_pending = e.m_held_pending
        /\ u.m_ack_tracker = e.m_ack_tracker /\ u.m_retry_manager = e.m_retry_manager
        /\ u.m_reassembly = e.m_reassembly
    BY <2>1, <2>4, <2>6 DEF EngineShape
  <2>8. \A y \in KeptBy(u) : y \in KeptBy(e) \/ y = x
    BY <2>4, <2>7 DEF KeptBy
  <2>9. Passed(e, u, {x})
    BY <2>7, <2>8 DEF Passed
  <2>10. EngineOK(u, n, S)
    BY <2>4, <2>7, <2>8 DEF EngineOK, KeptBy
  <2>11. ASSUME WindowSuffices, NEW d, \A i \in DOMAIN d : Genuine(d[i], S), OnceOK(e, d)
         PROVE  /\ OnceOK(u, d) /\ Recorded(g, x)
                /\ \A i \in DOMAIN d : ~Twice(x, d[i])
                /\ \A y \in KeptBy(e) : ~Twice(x, y)
    <3>1. WindowOK(g) /\ Recorded(g, x) /\ \A y : Recorded(f, y) => Recorded(g, y)
      BY <2>1, <2>11 DEF OnceOK
    <3>2. \A i \in DOMAIN d : ~Twice(x, d[i]) /\ Recorded(g, d[i])
      BY <2>1, <2>11, <3>1 DEF OnceOK
    <3>3. \A y \in KeptBy(e) : Genuine(y, S) /\ Recorded(f, y) /\ Recorded(g, y)
      BY <2>11, <3>1, KeptIsGenuine DEF OnceOK, KeptBy
    <3>4. \A y \in KeptBy(e) : ~Twice(x, y) /\ ~Twice(y, x)
      BY <2>1, <3>3, TwiceBothWays
    <3>5. \A y \in KeptBy(u) : Recorded(u.m_dedup, y) /\ \A i \in DOMAIN d : ~Twice(y, d[i])
      BY <2>7, <2>8, <2>11, <3>1, <3>2, <3>3 DEF OnceOK, KeptBy
    <3>6. ASSUME NEW a \in u.m_held_pending, NEW y \in Holding(u.m_ordering) PROVE ~Twice(a, y)
      <4>1. a \in KeptBy(e) /\ (y \in Holding(b) \/ y = x)
        BY <2>4, <2>7 DEF KeptBy
      <4>2. QED
        BY <2>7, <2>11, <3>4, <4>1 DEF OnceOK
    <3>7. ASSUME NEW i \in OB!Held(p), NEW j \in OB!Held(p), i # j
          PROVE  ~Twice(p.m_hold[i].env, p.m_hold[j].env)
      <4>1. PICK k : \A h \in OB!Held(p) :
                       \/ h \in OB!Held(b) /\ p.m_hold[h] = b.m_hold[h]
                       \/ h = k /\ p.m_hold[h].env = x
        BY <2>4
      <4>2. \A h \in OB!Held(b) : b.m_hold[h].env \in KeptBy(e)
        BY DEF KeptBy, Holding
      <4>3. CASE i # k /\ j # k
        BY <2>11, <3>7, <4>1, <4>3 DEF OnceOK
      <4>4. CASE i = k /\ j # k
        BY <2>11, <3>4, <3>7, <4>1, <4>2, <4>4 DEF OnceOK
      <4>5. CASE i # k /\ j = k
        BY <2>11, <3>4, <3>7, <4>1, <4>2, <4>5 DEF OnceOK
      <4>6. QED
        BY <3>7, <4>3, <4>4, <4>5
    <3>8. \A i, j \in DOMAIN d : Twice(d[i], d[j]) => i = j
      BY <2>11 DEF OnceOK
    <3>9. OnceOK(u, d)
      BY <2>7, <3>1, <3>2, <3>5, <3>6, <3>7, <3>8 DEF OnceOK, KeptBy
    <3>10. QED
      BY <3>1, <3>2, <3>4, <3>9
  <2>12. CASE gate.res # "OK"
    <3>1. o.engine = u /\ o.out = {} /\ o.reply = {}
      BY <2>5, <2>12 DEF Outcome
    <3> HIDE DEF o
    <3>2. Answered(o, e, n, S, {x})
      BY <2>9, <2>10, <3>1 DEF Answered
    <3>3. WindowSuffices => StillOnce(o, e, S)
      BY <2>11, <3>1 DEF StillOnce, After
    <3>4. QED
      BY <3>2, <3>3 DEF o
  <2>13. CASE gate.res = "OK"
    <3> DEFINE v == StageNext(u, x.source_id)
    <3>1. o.engine = v /\ o.out = {x} /\ o.reply = AcksFor(n, {x})
      BY <2>5, <2>13 DEF Outcome
    <3>2. Passed(u, v, {}) /\ EngineOK(v, n, S) /\ \A d : OnceOK(u, d) => OnceOK(v, d)
      BY <2>7, <2>10, StageNextKeeps
    <3> HIDE DEF o, v
    <3>3. Passed(e, v, {x})
      BY <2>9, <3>2 DEF Passed
    <3>4. \A a \in o.reply : a \in Envelope /\ MadeAck(a, S)
      BY <3>1, AckOfCopy
    <3>5. Answered(o, e, n, S, {x})
      BY <3>1, <3>2, <3>3, <3>4 DEF Answered
    <3>6. ASSUME WindowSuffices, NEW d \in Seq(Envelope),
                 \A i \in DOMAIN d : Genuine(d[i], S), OnceOK(e, d)
          PROVE  OnceOK(v, Append(d, x))
      <4>1. /\ OnceOK(u, d) /\ Recorded(u.m_dedup, x)
            /\ \A i \in DOMAIN d : ~Twice(x, d[i])
            /\ \A y \in KeptBy(e) : ~Twice(x, y)
        BY <2>7, <2>11, <3>6
      <4>2. KeptBy(u) \subseteq KeptBy(e)
        BY <2>4, <2>7, <2>13 DEF KeptBy
      <4>3. \A y \in KeptBy(u) : Genuine(y, S) /\ ~Twice(x, y)
        BY <4>1, <4>2, KeptIsGenuine
      <4>4. OnceOK(u, Append(d, x))
        BY <3>6, <4>1, <4>3, OneMore
      <4>5. QED
        BY <3>2, <4>4
    <3>7. \A d : After(d, o.out) = Append(d, x)
      <4>1. (CHOOSE y \in {x} : TRUE) = x
        OBVIOUS
      <4>2. QED
        BY <3>1, <4>1 DEF After
    <3>8. WindowSuffices => StillOnce(o, e, S)
      BY <3>1, <3>6, <3>7 DEF StillOnce
    <3>9. QED
      BY <3>5, <3>8 DEF o
  <2>14. QED
    BY <2>12, <2>13
<1>4. QED
  BY <1>2, <1>3


(***************************************************************************)
(* receive() from the frame m that the transport returns: what arrives     *)
(* with it, if anything, is a copy of the message that m is a part of.     *)
(***************************************************************************)
Arrives(X, m, n, S) ==
  \A x \in X : /\ x \in Envelope /\ Genuine(x, S) /\ ~MadeAck(m, S)
               /\ x.message_id = m.message_id
               /\ x.destination_id \in {n, NODE_ID_INVALID}

LEMMA WireOutcome ==
  ASSUME NEW e \in EngineShape, NEW n \in Node, NEW S, UniqueIds(S), Traced(S),
         EngineOK(e, n, S), NEW m \in Envelope, Genuine(m, S) \/ MadeAck(m, S),
         NEW now \in Nat
  PROVE  LET w == receive_wire(handle_fragment_ingest(e, m, now), n, now)
         IN  /\ \E X : Arrives(X, m, n, S) /\ Answered(w, e, n, S, X)
             /\ WindowSuffices => StillOnce(w, e, S)
<1> DEFINE r == handle_fragment_ingest(e, m, now)
           w == receive_wire(r, n, now)
           g == RB!ingest(e.m_reassembly, m, now)
           b == g.slots
           f == [e EXCEPT !.m_reassembly = b]
           env == CHOOSE x \in g.out : TRUE
<1>1. /\ b \in [RB!SlotIndex -> SlotShape]
      /\ Headers(b) \subseteq Headers(e.m_reassembly) \union {m}
      /\ m.fragment_count = 0 => b = e.m_reassembly
      /\ g.res = "OK" =>
           \E y \in Envelope :
             /\ g.out = {y}
             /\ \/ y = m
                \/ /\ m.fragment_count # 0
                   /\ \E h \in Headers(e.m_reassembly) \union {m} :
                        /\ Copy(y, h)
                        /\ h.message_id = m.message_id
                        /\ h.source_id = m.source_id
  BY EngineFields, FragmentIngest
<1>2. r = [res |-> g.res, out |-> g.out, engine |-> f]
  BY DEF handle_fragment_ingest
<1>3. r.res = g.res /\ r.out = g.out /\ r.engine = f
  BY <1>2
<1> HIDE DEF g
<1>4. /\ f \in EngineShape /\ f.m_reassembly = b
      /\ f.m_ack_tracker = e.m_ack_tracker /\ f.m_retry_manager = e.m_retry_manager
      /\ f.m_ordering = e.m_ordering /\ f.m_held_pending = e.m_held_pending
      /\ f.m_dedup = e.m_dedup
  BY <1>1 DEF EngineShape
<1> HIDE DEF f, b, r
<1>5. Passed(e, f, {}) /\ KeptBy(f) = KeptBy(e) /\ \A d : OnceOK(e, d) => OnceOK(f, d)
  BY <1>4 DEF Passed, KeptBy, OnceOK
<1>6. \A x \in Headers(b) : Genuine(x, S)
  <2>1. CASE Genuine(m, S)
    BY <1>1, <2>1 DEF EngineOK
  <2>2. CASE MadeAck(m, S)
    BY <1>1, <2>2 DEF EngineOK, MadeAck
  <2>3. QED
    BY <2>1, <2>2
<1>7. EngineOK(f, n, S)
  BY <1>4, <1>6 DEF EngineOK
<1>8. ASSUME NEW u, Passed(f, u, {}), EngineOK(u, n, S), \A d : OnceOK(f, d) => OnceOK(u, d),
             w.engine = u, w.out = {}, w.reply = {}
      PROVE  Answered(w, e, n, S, {}) /\ StillOnce(w, e, S) /\ Arrives({}, m, n, S)
  <2> HIDE DEF w
  <2>1. Passed(e, u, {})
    BY <1>5, <1>8, PassedTwice
  <2>2. QED
    BY <1>5, <1>8, <2>1 DEF Answered, StillOnce, After, Arrives
<1>9. Passed(f, f, {})
  BY <1>4 DEF Passed
<1>10. CASE g.res # "OK"
  <2>1. w = Outcome(r.res, r.engine, {}, {})
    BY <1>3, <1>10 DEF receive_wire
  <2>2. w.engine = f /\ w.out = {} /\ w.reply = {}
    BY <1>3, <2>1 DEF Outcome
  <2> HIDE DEF w
  <2>3. QED
    BY <1>7, <1>8, <1>9, <2>2 DEF w, r
<1>11. CASE g.res = "OK"
  <2>1. PICK y \in Envelope :
               /\ g.out = {y}
               /\ \/ y = m
                  \/ /\ m.fragment_count # 0
                     /\ \E h \in Headers(e.m_reassembly) \union {m} :
                          /\ Copy(y, h)
                          /\ h.message_id = m.message_id
                          /\ h.source_id = m.source_id
    BY <1>1, <1>11
  <2>2. env = y
    BY <2>1
  <2> HIDE DEF env
  <2> DEFINE route == check_routing(y, n, now)
  <2>3. CASE route # "OK"
    <3>1. w = Outcome(route, r.engine, {}, {})
      BY <1>3, <1>11, <2>2, <2>3 DEF receive_wire, env
    <3>2. w.engine = f /\ w.out = {} /\ w.reply = {}
      BY <1>3, <3>1 DEF Outcome
    <3> HIDE DEF w
    <3>3. QED
      BY <1>7, <1>8, <1>9, <3>2 DEF w, r
  <2>4. CASE route = "OK" /\ envelope_is_control(y)
    <3> DEFINE u == IF y.message_type = "ACK" THEN process_ack(f, y) ELSE f
    <3>1. w = Outcome("OK", u, {}, {})
      <4>1. (CHOOSE x \in r.out : TRUE) = y
        BY <1>3, <2>2 DEF env
      <4>2. CASE y.message_type = "ACK"
        <5>1. w = Outcome("OK", process_ack(r.engine, y), {}, {})
          BY <1>3, <1>11, <2>4, <4>1, <4>2 DEF receive_wire
        <5>2. QED
          BY <1>3, <4>2, <5>1
      <4>3. CASE y.message_type # "ACK"
        <5>1. w = Outcome("OK", r.engine, {}, {})
          BY <1>3, <1>11, <2>4, <4>1, <4>3 DEF receive_wire
        <5>2. QED
          BY <1>3, <4>3, <5>1
      <4>4. QED
        BY <4>2, <4>3
    <3>2. w.engine = u /\ w.out = {} /\ w.reply = {}
      BY <3>1 DEF Outcome
    <3>3. Passed(f, u, {}) /\ EngineOK(u, n, S) /\ \A d : OnceOK(f, d) => OnceOK(u, d)
      <4>1. CASE y.message_type = "ACK"
        BY <1>4, <1>7, <4>1, AckOutcome
      <4>2. CASE y.message_type # "ACK"
        BY <1>7, <1>9, <4>2
      <4>3. QED
        BY <4>1, <4>2
    <3> HIDE DEF w, u
    <3>4. QED
      BY <1>8, <3>2, <3>3 DEF w, r
  <2>5. CASE route = "OK" /\ ~envelope_is_control(y)
    <3>1. w = handle_data_path(f, n, y, now)
      BY <1>3, <1>11, <2>2, <2>5 DEF receive_wire, env
    <3>2. y.destination_id \in {n, NODE_ID_INVALID}
      BY <2>5 DEF check_routing, envelope_addressed_to
    <3>3. ~MadeAck(m, S) /\ Genuine(y, S) /\ y.message_id = m.message_id
      <4>1. y = m => m.message_type # "ACK"
        BY <2>5 DEF envelope_is_control
      <4>2. ~MadeAck(m, S)
        BY <2>1, <4>1 DEF MadeAck
      <4>3. Genuine(m, S)
        BY <4>2
      <4>4. CASE y = m
        BY <4>2, <4>3, <4>4
      <4>5. CASE y # m
        <5>1. PICK h \in Headers(e.m_reassembly) \union {m} :
                     Copy(y, h) /\ h.message_id = m.message_id
          BY <2>1, <4>5
        <5>2. Genuine(h, S)
          BY <4>3, <5>1 DEF EngineOK
        <5>3. QED
          BY <4>2, <5>1, <5>2, Copies DEF Copy, Alike
      <4>6. QED
        BY <4>4, <4>5
    <3>4. Answered(w, f, n, S, {y}) /\ (WindowSuffices => StillOnce(w, f, S))
      BY <1>4, <1>7, <3>1, <3>2, <3>3, DataOutcome
    <3> HIDE DEF w
    <3>5. Arrives({y}, m, n, S)
      BY <2>1, <3>2, <3>3 DEF Arrives
    <3>6. Passed(e, w.engine, {y})
      BY <1>5, <3>4, PassedTwice DEF Answered
    <3>7. Answered(w, e, n, S, {y})
      BY <1>5, <3>4, <3>6 DEF Answered
    <3>8. WindowSuffices => StillOnce(w, e, S)
      BY <1>5, <3>4 DEF StillOnce
    <3>9. QED
      BY <3>5, <3>7, <3>8 DEF w, r
  <2>6. QED
    BY <2>3, <2>4, <2>5
<1>12. QED
  BY <1>10, <1>11

-----------------------------------------------------------------------------
(* pump_retries() and sweep_ack_timeouts(). *)

LEMMA PumpOutcome ==
  ASSUME NEW e \in EngineShape, NEW n, NEW S, EngineOK(e, n, S), NEW now \in Nat
  PROVE  LET r == pump_retries(e, now)
         IN  /\ Receded(e, r.engine)
             /\ \A y \in r.due : /\ y \in Envelope
                                 /\ \E m \in Retried(e.m_retry_manager) : Copy(y, m)
<1> DEFINE r == pump_retries(e, now)
           c == RM!collect_due(e.m_retry_manager, now, MSG_RING_CAPACITY)
           M == c.manager
           wire(x) == send_fragments(x, now, FRAG_MAX_COUNT).wire
<1>0. e.m_retry_manager \in ManagerShape /\ RetriedOnce(e.m_retry_manager)
  BY EngineFields DEF EngineOK
<1>1. /\ M \in ManagerShape /\ RetriedOnce(M)
      /\ Retried(M) \subseteq Retried(e.m_retry_manager)
      /\ c.due \subseteq Retried(e.m_retry_manager)
  BY <1>0, RetryCollect
<1>2. CASE ClockWentBack(e, now)
  <2>1. r.engine = e /\ r.due = {}
    BY <1>2 DEF pump_retries
  <2> HIDE DEF r
  <2>2. QED
    BY <2>1, RecededTwice DEF r
<1>3. CASE ~ClockWentBack(e, now)
  <2>1. /\ r.engine = [e EXCEPT !.m_last_now_us = now, !.m_retry_manager = M]
        /\ r.due = UNION {wire(x) : x \in c.due}
    BY <1>3 DEF pump_retries
  <2> HIDE DEF r, c, M
  <2>2. /\ r.engine \in EngineShape /\ r.engine.m_retry_manager = M
        /\ r.engine.m_ack_tracker = e.m_ack_tracker /\ SameRest(r.engine, e)
    BY <1>1, <2>1 DEF EngineShape, SameRest
  <2>3. Shrunk(e.m_ordering, e.m_ordering)
    BY EngineFields, ShrunkTwice
  <2>4. Receded(e, r.engine)
    BY <1>1, <2>2, <2>3 DEF Receded, SameRest
  <2>5. \A m \in Retried(e.m_retry_manager) : m \in Envelope
    BY <1>0, RetrySlotFacts DEF Retried, RM!Active
  <2>6. FRAG_MAX_COUNT \in Nat
    BY CapacityAssumption
  <2>7. \A m \in c.due : \A y \in wire(m) : y \in Envelope /\ Copy(y, m)
    BY <1>1, <2>5, <2>6, SendFragments
  <2> HIDE DEF wire
  <2>8. \A y \in r.due : /\ y \in Envelope
                         /\ \E m \in Retried(e.m_retry_manager) : Copy(y, m)
    BY <1>1, <2>1, <2>7
  <2>9. QED
    BY <2>4, <2>8 DEF r
<1>4. QED
  BY <1>2, <1>3

LEMMA SweepOutcome ==
  ASSUME NEW e \in EngineShape, NEW n, NEW S, EngineOK(e, n, S), NEW now \in Nat
  PROVE  Receded(e, sweep_ack_timeouts(e, now).engine)
<1> DEFINE u == sweep_ack_timeouts(e, now).engine
           T == AT!sweep_expired(e.m_ack_tracker, now, ACK_TRACKER_CAPACITY).tracker
           o == OB!sweep_expired_holds(e.m_ordering, now, ORDERING_HOLD_COUNT).buffer
           a == RB!sweep_expired(e.m_reassembly, now)
           b == RB!sweep_stale(a, now, recv_timeout_ms)
<1>1. /\ e.m_ack_tracker \in TrackerShape /\ e.m_ordering \in OB!Buffer
      /\ PeersOK(e.m_ordering) /\ e.m_reassembly \in [RB!SlotIndex -> SlotShape]
  BY EngineFields DEF EngineOK
<1>2. /\ T \in TrackerShape
      /\ Pending(T) \subseteq Pending(e.m_ack_tracker)
      /\ Acked(T) \subseteq Acked(e.m_ack_tracker)
  BY <1>1, AckSweep
<1>3. Shrunk(e.m_ordering, o)
  BY <1>1, SweepShrinks
<1>4. o \in OB!Buffer
  BY <1>3 DEF Shrunk
<1>5. a \in [RB!SlotIndex -> SlotShape] /\ Headers(a) \subseteq Headers(e.m_reassembly)
  BY <1>1, FreeShrinks DEF RB!sweep_expired
<1>6. b \in [RB!SlotIndex -> SlotShape] /\ Headers(b) \subseteq Headers(a)
  <2> HIDE DEF a
  <2> QED
    BY <1>1, <1>5, FreeShrinks DEF RB!sweep_stale
<1>7. \/ u = e
      \/ u = [e EXCEPT !.m_last_now_us = now, !.m_reassembly = b, !.m_ordering = o,
                       !.m_ack_tracker = T]
  BY DEF sweep_ack_timeouts
<1>8. CASE u = e
  BY <1>8, RecededTwice
<1>9. CASE u = [e EXCEPT !.m_last_now_us = now, !.m_reassembly = b, !.m_ordering = o,
                         !.m_ack_tracker = T]
  <2> HIDE DEF u, T, o, a, b
  <2>1. /\ u \in EngineShape /\ u.m_ack_tracker = T /\ u.m_ordering = o
        /\ u.m_reassembly = b /\ u.m_retry_manager = e.m_retry_manager
        /\ u.m_held_pending = e.m_held_pending /\ u.m_dedup = e.m_dedup
    BY <1>2, <1>4, <1>6, <1>9 DEF EngineShape
  <2>2. Receded(e, u)
    BY <1>2, <1>3, <1>5, <1>6, <2>1 DEF Receded
  <2>3. QED
    BY <2>2 DEF u
<1>10. QED
  BY <1>7, <1>8, <1>9


-----------------------------------------------------------------------------
(* The steps of the system. *)

LEMMA InvParts ==
  ASSUME IInv
  PROVE  /\ UniqueIds(sent) /\ Traced(sent)
         /\ \A k \in Node : eng[k] \in EngineShape /\ EngineOK(eng[k], k, sent)
BY DEF IInv, Shape, HistoryOK, UniqueIds, Traced

LEMMA OneEngine ==
  ASSUME Shape, NEW n \in Node, NEW u \in EngineShape, eng' = [eng EXCEPT ![n] = u]
  PROVE  /\ eng' \in [Node -> EngineShape] /\ eng'[n] = u
         /\ \A k \in Node : k # n => eng'[k] = eng[k]
BY DEF Shape

LEMMA TransmitAdds ==
  ASSUME NEW base, NEW out, Transmit(base, out)
  PROVE  net' \subseteq base \union out
BY DEF Transmit

LEMMA InitOK == Init => IInv
<1> SUFFICES ASSUME Init PROVE IInv
  OBVIOUS
<1>1. \A n \in Node : /\ eng[n] = EngineInit /\ delivered[n] = <<>>
  BY DEF Init
<1>2. Shape
  BY EngineInitOK DEF Init, Shape
<1>3. HistoryOK
  BY DEF Init, HistoryOK, Ids
<1>4. \A n \in Node : EngineOK(eng[n], n, sent)
  BY <1>1, EngineInitOK
<1>5. StaleOK
  <2>1. eng[Server] = EngineInit
    BY <1>1, SystemAssumption
  <2>2. QED
    BY <1>1, <2>1, EngineInitOK DEF StaleOK, ServerStale, ClientStale
<1>6. TrafficOK
  BY <1>1 DEF Init, TrafficOK
<1>7. QED
  BY <1>2, <1>3, <1>4, <1>5, <1>6 DEF IInv

\* A node gives up some of what it keeps, and may retransmit.
LEMMA RecededStep ==
  ASSUME IInv, NEW n \in Node, NEW u, Receded(eng[n], u), eng' = [eng EXCEPT ![n] = u],
         UNCHANGED <<connecting, hello, clock, sent, failed, stale, delivered>>,
         net' \subseteq Envelope,
         \A x \in net' : x \in net \/ (Genuine(x, sent) /\ Fresh(x, stale))
  PROVE  IInv'
<1>1. eng[n] \in EngineShape /\ EngineOK(eng[n], n, sent)
  BY InvParts
<1>2. u \in EngineShape /\ EngineOK(u, n, sent) /\ Passed(eng[n], u, {})
  BY <1>1, RecededOK, RecededPasses DEF Receded
<1>3. /\ eng' \in [Node -> EngineShape] /\ eng'[n] = u
      /\ \A k \in Node : k # n => eng'[k] = eng[k]
  BY <1>2, OneEngine DEF IInv
<1>4. Shape'
  BY <1>3 DEF IInv, Shape
<1>5. HistoryOK'
  BY DEF IInv, HistoryOK
<1>6. ASSUME NEW k \in Node PROVE EngineOK(eng'[k], k, sent')
  BY <1>2, <1>3, InvParts
<1>7. StaleOK'
  <2>1. ServerStale(eng'[Server], stale', Unreset')
    <3>1. Unreset' = Unreset
      BY DEF Unreset
    <3>2. ServerStale(eng[Server], stale, Unreset)
      BY DEF IInv, StaleOK
    <3>3. CASE n = Server
      BY <1>2, <1>3, <3>1, <3>2, <3>3 DEF ServerStale, Passed, KeptBy
    <3>4. CASE n # Server
      BY <1>3, <3>1, <3>2, <3>4, SystemAssumption
    <3>5. QED
      BY <3>3, <3>4
  <2>2. ASSUME NEW k \in Node \ {Server} PROVE ClientStale(eng'[k], stale')
    <3>1. ClientStale(eng[k], stale)
      BY DEF IInv, StaleOK
    <3>2. QED
      BY <1>2, <1>3, <3>1 DEF ClientStale, Passed
  <2>3. QED
    BY <2>1, <2>2 DEF StaleOK
<1>8. TrafficOK'
  BY DEF IInv, TrafficOK
<1>9. QED
  BY <1>4, <1>5, <1>6, <1>7, <1>8 DEF IInv

LEMMA PumpStep ==
  ASSUME IInv, NEW n \in Node, PumpRetries(n)
  PROVE  IInv'
<1> DEFINE r == pump_retries(eng[n], clock)
<1>1. /\ eng' = [eng EXCEPT ![n] = r.engine]
      /\ Transmit(net, r.due)
      /\ UNCHANGED <<connecting, hello, clock, sent, failed, stale, delivered>>
  BY DEF PumpRetries
<1>2. eng[n] \in EngineShape /\ EngineOK(eng[n], n, sent) /\ clock \in Nat /\ net \subseteq Envelope
  BY InvParts DEF IInv, Shape
<1>3. /\ Receded(eng[n], r.engine)
      /\ \A y \in r.due : /\ y \in Envelope
                          /\ \E m \in Retried(eng[n].m_retry_manager) : Copy(y, m)
  BY <1>2, PumpOutcome
<1>4. net' \subseteq net \union r.due
  BY <1>1, TransmitAdds
<1> HIDE DEF r
<1>5. ASSUME NEW y \in r.due PROVE Genuine(y, sent) /\ Fresh(y, stale)
  <2>1. PICK m \in Retried(eng[n].m_retry_manager) : Copy(y, m)
    BY <1>3
  <2>2. m \in sent /\ m.source_id = n
    BY <1>2 DEF EngineOK
  <2>3. Fresh(m, stale)
    <3>1. CASE n = Server
      BY <2>2, <3>1 DEF Fresh
    <3>2. CASE n # Server
      BY <3>2 DEF IInv, StaleOK, ClientStale
    <3>3. QED
      BY <3>1, <3>2
  <2>4. QED
    BY <2>1, <2>2, <2>3 DEF Genuine, Fresh, Copy, Alike
<1>6. QED
  BY <1>1, <1>2, <1>3, <1>4, <1>5, RecededStep

LEMMA SweepSystemStep ==
  ASSUME IInv, NEW n \in Node, SweepAckTimeouts(n)
  PROVE  IInv'
<1> DEFINE u == sweep_ack_timeouts(eng[n], clock).engine
<1>1. /\ eng' = [eng EXCEPT ![n] = u]
      /\ UNCHANGED <<connecting, hello, clock, sent, failed, stale, delivered>>
      /\ net' = net
  BY DEF SweepAckTimeouts
<1>2. eng[n] \in EngineShape /\ EngineOK(eng[n], n, sent) /\ clock \in Nat /\ net \subseteq Envelope
  BY InvParts DEF IInv, Shape
<1>3. Receded(eng[n], u)
  BY <1>2, SweepOutcome
<1> HIDE DEF u
<1>4. QED
  BY <1>1, <1>2, <1>3, RecededStep


LEMMA TickStep ==
  ASSUME IInv, clock' \in Nat,
         UNCHANGED <<eng, connecting, hello, net, sent, failed, stale, delivered>>
  PROVE  IInv'
<1>1. Shape'
  BY DEF IInv, Shape
<1>2. HistoryOK' /\ TrafficOK'
  BY DEF IInv, HistoryOK, TrafficOK
<1>3. StaleOK' /\ \A n \in Node : EngineOK(eng'[n], n, sent')
  BY DEF IInv, StaleOK, Unreset
<1>4. QED
  BY <1>1, <1>2, <1>3 DEF IInv

\* A message with a new id is booked and sent.
LEMMA BookedOK ==
  ASSUME NEW e \in EngineShape, NEW n, NEW S, EngineOK(e, n, S), NEW s, s.source_id = n,
         s.message_id \notin Ids(S), NEW u, Booked(e, u, s)
  PROVE  EngineOK(u, n, S \union {s})
<1> DEFINE T == S \union {s}
<1>1. EngineOK(e, n, T)
  BY MoreSent
<1>2. \A m \in Pending(u.m_ack_tracker) \union Acked(u.m_ack_tracker)
                 \union Retried(u.m_retry_manager) : m \in T /\ m.source_id = n
  BY DEF EngineOK, Booked
<1>3. ASSUME NEW a \in Acked(u.m_ack_tracker), NEW b \in Retried(u.m_retry_manager)
      PROVE  a.message_id # b.message_id
  <2>1. a \in Acked(e.m_ack_tracker) /\ a \in S
    BY DEF Booked, EngineOK
  <2>2. CASE b \in Retried(e.m_retry_manager)
    BY <2>1, <2>2 DEF EngineOK
  <2>3. CASE b = s
    BY <2>1, <2>3 DEF Ids
  <2>4. QED
    BY <2>2, <2>3 DEF Booked
<1>4. QED
  BY <1>1, <1>2, <1>3 DEF EngineOK, Booked, SameRest

LEMMA SendStep ==
  ASSUME IInv, NEW m \in Workload, NEW accepted \in Nat, Send(m, accepted)
  PROVE  IInv'
<1> DEFINE n == m.source_id
           e == eng[n]
           r == send(e, m, clock, accepted)
           s == r.stamped
<1>1. /\ m.message_id \notin Used
      /\ eng' = [eng EXCEPT ![n] = r.engine]
      /\ sent' = IF r.wire # {} THEN sent \union {s} ELSE sent
      /\ failed' = IF r.wire = {} THEN failed \union {m.message_id} ELSE failed
      /\ Transmit(net, r.wire)
      /\ UNCHANGED <<connecting, hello, clock, stale, delivered>>
  BY DEF Send
<1>2. m \in Envelope /\ n \in Node
  BY SystemAssumption DEF Envelope
<1>3. e \in EngineShape /\ EngineOK(e, n, sent) /\ clock \in Nat /\ net \subseteq Envelope
  BY <1>2, InvParts DEF IInv, Shape
<1>4. m.message_id \notin Ids(sent) /\ m.message_id \notin failed
  BY <1>1 DEF Used, Ids
<1>5. NewTo(e, m) /\ RetriedOnce(e.m_retry_manager)
  BY <1>3, <1>4 DEF NewTo, EngineOK, Ids
<1> HIDE DEF e
<1>6. /\ s \in Envelope /\ Alike(s, m)
      /\ \A y \in r.wire : y \in Envelope /\ Copy(y, s)
      /\ SameRest(r.engine, e)
      /\ \/ Receded(e, r.engine)
         \/ r.wire # {} /\ Booked(e, r.engine, s)
  BY <1>2, <1>3, <1>5, SendBooks
<1>7. net' \subseteq net \union r.wire
  BY <1>1, TransmitAdds
<1> HIDE DEF r
<1>8. s.message_id = m.message_id /\ s.source_id = n
  BY <1>6 DEF Alike
<1>9. stale \subseteq sent /\ Ids(stale) \subseteq Ids(sent)
  BY DEF IInv, Shape, Ids
<1>10. sent \subseteq sent' /\ \A x \in sent' : x \in sent \/ (x = s /\ r.wire # {})
  BY <1>1
<1>11. r.engine \in EngineShape /\ EngineOK(r.engine, n, sent')
  <2>1. CASE Receded(e, r.engine)
    <3>1. EngineOK(r.engine, n, sent)
      BY <1>3, <2>1, RecededOK
    <3>2. QED
      BY <1>10, <2>1, <3>1, MoreSent DEF Receded
  <2>2. CASE r.wire # {} /\ Booked(e, r.engine, s)
    <3>1. EngineOK(r.engine, n, sent \union {s})
      BY <1>3, <1>4, <1>8, <2>2, BookedOK
    <3>2. QED
      BY <1>1, <2>2, <3>1 DEF Booked
  <2>3. QED
    BY <1>6, <2>1, <2>2
<1>12. /\ eng' \in [Node -> EngineShape] /\ eng'[n] = r.engine
       /\ \A k \in Node : k # n => eng'[k] = eng[k]
  BY <1>1, <1>2, <1>11, OneEngine DEF IInv
<1>13. Shape'
  <2>1. sent' \subseteq Envelope /\ stale' \subseteq sent' /\ net' \subseteq Envelope
    BY <1>1, <1>3, <1>6, <1>7, <1>9, <1>10 DEF IInv, Shape
  <2>2. QED
    BY <1>1, <1>12, <2>1 DEF IInv, Shape
<1>14. HistoryOK'
  <2>1. \A x, y \in sent' : x.message_id = y.message_id => x = y
    BY <1>4, <1>8, <1>10 DEF IInv, HistoryOK, Ids
  <2>2. failed' \intersect Ids(sent') = {}
    BY <1>1, <1>4, <1>8 DEF IInv, HistoryOK, Ids
  <2>3. \A x \in sent' : \E w \in Workload : Alike(x, w)
    BY <1>6, <1>10 DEF IInv, HistoryOK
  <2>4. QED
    BY <2>1, <2>2, <2>3 DEF HistoryOK
<1>15. ASSUME NEW k \in Node PROVE EngineOK(eng'[k], k, sent')
  <2>1. CASE k = n
    BY <1>11, <1>12, <2>1
  <2>2. CASE k # n
    <3>1. EngineOK(eng[k], k, sent)
      BY InvParts
    <3>2. QED
      BY <1>10, <1>12, <2>2, <3>1, MoreSent
  <2>3. QED
    BY <2>1, <2>2
<1>16. /\ Pending(r.engine.m_ack_tracker) \subseteq Pending(e.m_ack_tracker) \union {s}
       /\ Retried(r.engine.m_retry_manager) \subseteq Retried(e.m_retry_manager) \union {s}
  BY <1>6 DEF Receded, Booked
<1>17. s \notin stale /\ s.message_id \notin Ids(stale)
  BY <1>4, <1>8, <1>9 DEF Ids
<1>18. StaleOK'
  <2>1. ServerStale(eng'[Server], stale', Unreset')
    <3>1. Unreset' = Unreset
      BY <1>1 DEF Unreset
    <3>2. ServerStale(eng[Server], stale, Unreset)
      BY DEF IInv, StaleOK
    <3>3. CASE n = Server
      <4>1. eng'[Server] = r.engine /\ eng[Server] = e
        BY <1>12, <3>3 DEF e
      <4>2. QED
        BY <1>1, <1>6, <1>16, <1>17, <3>1, <3>2, <4>1 DEF ServerStale, SameRest
    <3>4. CASE n # Server
      BY <1>1, <1>12, <3>1, <3>2, <3>4, SystemAssumption
    <3>5. QED
      BY <3>3, <3>4
  <2>2. ASSUME NEW k \in Node \ {Server} PROVE ClientStale(eng'[k], stale')
    <3>1. ClientStale(eng[k], stale)
      BY DEF IInv, StaleOK
    <3>2. CASE k = n
      <4>1. eng'[k] = r.engine /\ eng[k] = e /\ Fresh(s, stale)
        BY <1>12, <1>17, <3>2 DEF e, Fresh
      <4>2. QED
        BY <1>1, <1>16, <3>1, <4>1 DEF ClientStale
    <3>3. CASE k # n
      BY <1>1, <1>12, <3>1, <3>3
    <3>4. QED
      BY <3>2, <3>3
  <2>3. QED
    BY <2>1, <2>2 DEF StaleOK
<1>19. TrafficOK'
  <2>1. ASSUME NEW x \in net'
        PROVE  (Genuine(x, sent') /\ Fresh(x, stale')) \/ MadeAck(x, sent')
    <3>1. CASE x \in net
      <4>1. (Genuine(x, sent) /\ Fresh(x, stale)) \/ MadeAck(x, sent)
        BY <3>1 DEF IInv, TrafficOK
      <4>2. QED
        BY <1>1, <1>10, <4>1 DEF Genuine, MadeAck, Ids
    <3>2. CASE x \in r.wire
      <4>1. Copy(x, s) /\ s \in sent'
        BY <1>1, <1>6, <3>2
      <4>2. QED
        BY <1>1, <1>17, <4>1 DEF Genuine, Fresh, Copy, Alike
    <3>3. QED
      BY <1>7, <3>1, <3>2
  <2>2. \A k \in Node : \A i \in DOMAIN delivered'[k] : Genuine(delivered'[k][i], sent')
    BY <1>1, <1>10, Copies DEF IInv, TrafficOK
  <2>3. QED
    BY <2>1, <2>2 DEF TrafficOK
<1>20. QED
  BY <1>13, <1>14, <1>15, <1>18, <1>19 DEF IInv


\* A client starts again: what it had sent or was sent becomes stale.
LEMMA RestartStep ==
  ASSUME IInv, NEW n \in Node, Restart(n)
  PROVE  IInv'
<1>1. /\ n # Server
      /\ eng' = [eng EXCEPT ![n] = EngineInit]
      /\ connecting' = connecting \union {n}
      /\ hello' = [hello EXCEPT ![n] = {}]
      /\ net' = {m \in net : ~Involves(m, n)}
      /\ stale' = stale \union {m \in sent : Involves(m, n)}
      /\ delivered' = [delivered EXCEPT ![n] = <<>>]
      /\ UNCHANGED <<clock, sent, failed>>
  BY DEF Restart
<1>2. n # NODE_ID_INVALID /\ Server \in Node
  BY NodeAssumption, SystemAssumption
<1>3. /\ eng' \in [Node -> EngineShape] /\ eng'[n] = EngineInit
      /\ \A k \in Node : k # n => eng'[k] = eng[k]
  BY <1>1, EngineInitOK, OneEngine DEF IInv
<1>4. /\ hello' \in [Node -> SUBSET Node] /\ hello'[Server] = hello[Server]
      /\ delivered' \in [Node -> Seq(Envelope)] /\ delivered'[n] = <<>>
      /\ \A k \in Node : k # n => delivered'[k] = delivered[k]
  BY <1>1, <1>2 DEF IInv, Shape
<1>5. Shape'
  BY <1>1, <1>3, <1>4 DEF IInv, Shape
<1>6. HistoryOK'
  BY <1>1 DEF IInv, HistoryOK
<1>7. ASSUME NEW k \in Node PROVE EngineOK(eng'[k], k, sent')
  <2>1. CASE k = n
    BY <1>3, <2>1, EngineInitOK
  <2>2. CASE k # n
    BY <1>1, <1>3, <2>2, InvParts
  <2>3. QED
    BY <2>1, <2>2
<1>8. ASSUME NEW x, Genuine(x, sent), x.message_id \in Ids(stale'),
             x.message_id \notin Ids(stale)
      PROVE  Involves(x, n)
  <2>1. PICK t \in stale' : t.message_id = x.message_id
    BY <1>8 DEF Ids
  <2>2. t \in sent /\ Involves(t, n)
    BY <1>1, <1>8, <2>1 DEF Ids
  <2>3. PICK s \in sent : Copy(x, s)
    BY <1>8 DEF Genuine
  <2>4. s = t
    BY <2>1, <2>2, <2>3, InvParts DEF UniqueIds, Copy, Alike
  <2>5. QED
    BY <2>2, <2>3, <2>4 DEF Copy, Alike, Involves
<1>9. Unreset \subseteq Unreset' /\ n \in Unreset'
  BY <1>1, <1>4 DEF Unreset
<1>10. ServerStale(eng'[Server], stale', Unreset')
  <2> DEFINE e == eng[Server]
  <2>1. eng'[Server] = e /\ EngineOK(e, Server, sent) /\ ServerStale(e, stale, Unreset)
    BY <1>1, <1>2, <1>3, InvParts DEF IInv, StaleOK
  <2> HIDE DEF e
  <2>2. ASSUME NEW m \in Pending(e.m_ack_tracker) \union Retried(e.m_retry_manager),
               m \in stale'
        PROVE  m.destination_id \in Unreset'
    <3>1. m.source_id = Server
      BY <2>1 DEF EngineOK
    <3>2. CASE m \in stale
      BY <1>9, <2>1, <3>2 DEF ServerStale
    <3>3. CASE m \notin stale
      BY <1>1, <1>9, <2>2, <3>1, <3>3 DEF Involves
    <3>4. QED
      BY <3>2, <3>3
  <2>3. ASSUME NEW x \in e.m_held_pending \union Holding(e.m_ordering),
               x.message_id \in Ids(stale')
        PROVE  x.source_id \in Unreset'
    <3>1. Genuine(x, sent) /\ x.destination_id \in {Server, NODE_ID_INVALID}
      BY <2>1 DEF EngineOK
    <3>2. CASE x.message_id \in Ids(stale)
      BY <1>9, <2>1, <3>2 DEF ServerStale
    <3>3. CASE x.message_id \notin Ids(stale)
      <4>1. Involves(x, n)
        BY <1>8, <2>3, <3>1, <3>3
      <4>2. QED
        BY <1>1, <1>2, <1>9, <3>1, <4>1 DEF Involves
    <3>4. QED
      BY <3>2, <3>3
  <2>4. QED
    BY <2>1, <2>2, <2>3 DEF ServerStale
<1>11. ASSUME NEW k \in Node \ {Server} PROVE ClientStale(eng'[k], stale')
  <2>1. CASE k = n
    BY <1>3, <2>1, EngineInitOK DEF ClientStale
  <2>2. CASE k # n
    <3>1. eng'[k] = eng[k] /\ EngineOK(eng[k], k, sent) /\ ClientStale(eng[k], stale)
      BY <1>3, <2>2, InvParts DEF IInv, StaleOK
    <3>2. ASSUME NEW m \in Retried(eng[k].m_retry_manager), ~Fresh(m, stale') PROVE FALSE
      <4>1. m \in sent /\ m.source_id = k /\ Fresh(m, stale)
        BY <3>1 DEF EngineOK, ClientStale
      <4>2. /\ m.destination_id \in {Server, NODE_ID_INVALID}
            /\ m.message_id \in Ids(stale') /\ m.message_id \notin Ids(stale)
        BY <3>2, <4>1 DEF Fresh
      <4>3. Genuine(m, sent)
        BY <4>1 DEF Genuine, Copy, Alike
      <4>4. Involves(m, n)
        BY <1>8, <4>2, <4>3
      <4>5. QED
        BY <1>1, <1>2, <2>2, <4>1, <4>2, <4>4 DEF Involves
    <3>3. QED
      BY <3>1, <3>2 DEF ClientStale
  <2>3. QED
    BY <2>1, <2>2
<1>12. StaleOK'
  BY <1>10, <1>11 DEF StaleOK
<1>13. TrafficOK'
  <2>1. ASSUME NEW x \in net'
        PROVE  (Genuine(x, sent') /\ Fresh(x, stale')) \/ MadeAck(x, sent')
    <3>1. /\ ~Involves(x, n)
          /\ (Genuine(x, sent) /\ Fresh(x, stale)) \/ MadeAck(x, sent)
      BY <1>1 DEF IInv, TrafficOK
    <3>2. CASE Genuine(x, sent) /\ Fresh(x, stale)
      <4>1. x.message_id \in Ids(stale') => x.message_id \in Ids(stale)
        BY <1>8, <3>1, <3>2
      <4>2. QED
        BY <1>1, <3>2, <4>1 DEF Fresh
    <3>3. CASE MadeAck(x, sent)
      BY <1>1, <3>3
    <3>4. QED
      BY <3>1, <3>2, <3>3
  <2>2. ASSUME NEW k \in Node, NEW i \in DOMAIN delivered'[k]
        PROVE  Genuine(delivered'[k][i], sent')
    BY <1>1, <1>4 DEF IInv, TrafficOK
  <2>3. QED
    BY <2>1, <2>2 DEF TrafficOK
<1>14. QED
  BY <1>5, <1>6, <1>7, <1>12, <1>13 DEF IInv

(***************************************************************************)
(* A receive() ends.  Whatever the server keeps of an earlier session is   *)
(* then of a client that has not been heard of since.                      *)
(***************************************************************************)
LEMMA FinishStep ==
  ASSUME IInv, NEW n \in Node, NEW o, NEW read, NEW hellos \in Hellos(n),
         Finish(n, o, read, hellos),
         o.engine \in EngineShape, EngineOK(o.engine, n, sent),
         Retried(o.engine.m_retry_manager) \subseteq Retried(eng[n].m_retry_manager),
         n = Server => ServerStale(o.engine, stale, connecting),
         o.out = {} \/ \E x \in Envelope : o.out = {x} /\ Genuine(x, sent),
         \A a \in o.reply : a \in Envelope /\ MadeAck(a, sent)
  PROVE  IInv' /\ delivered'[n] = After(delivered[n], o.out)
<1>1. /\ eng' = [eng EXCEPT ![n] = o.engine]
      /\ hello' = [hello EXCEPT ![n] = hellos]
      /\ connecting' = connecting \ hellos
      /\ delivered' = [delivered EXCEPT ![n] = After(delivered[n], o.out)]
      /\ Transmit(net \ read, o.reply)
      /\ UNCHANGED <<clock, sent, failed, stale>>
  BY DEF Finish, After
<1>2. /\ eng' \in [Node -> EngineShape] /\ eng'[n] = o.engine
      /\ \A k \in Node : k # n => eng'[k] = eng[k]
  BY <1>1, OneEngine DEF IInv
<1>3. net' \subseteq net \union o.reply
  BY <1>1, TransmitAdds
<1>4. hellos \subseteq connecting /\ (n # Server => hellos = {})
  BY DEF Hellos
<1>5. /\ connecting' \subseteq Node \ {Server}
      /\ hello' \in [Node -> SUBSET Node]
      /\ hello'[Server] = IF n = Server THEN hellos ELSE hello[Server]
  BY <1>1, <1>4, SystemAssumption DEF IInv, Shape
<1>6. /\ After(delivered[n], o.out) \in Seq(Envelope)
      /\ \A i \in DOMAIN After(delivered[n], o.out) : Genuine(After(delivered[n], o.out)[i], sent)
  <2> DEFINE d == delivered[n]
  <2>1. d \in Seq(Envelope) /\ \A i \in DOMAIN d : Genuine(d[i], sent)
    BY DEF IInv, Shape, TrafficOK
  <2> HIDE DEF d
  <2>2. CASE o.out = {}
    BY <2>1, <2>2 DEF After, d
  <2>3. CASE o.out # {}
    <3>1. PICK x \in Envelope : o.out = {x} /\ Genuine(x, sent)
      BY <2>3
    <3>2. (CHOOSE y \in {x} : TRUE) = x
      OBVIOUS
    <3>3. After(d, o.out) = Append(d, x)
      BY <2>3, <3>1, <3>2 DEF After
    <3>4. Append(d, x) \in Seq(Envelope) /\ \A i \in DOMAIN Append(d, x) : Genuine(Append(d, x)[i], sent)
      BY <2>1, <3>1
    <3>5. QED
      BY <3>3, <3>4 DEF d
  <2>4. QED
    BY <2>2, <2>3
<1>7. /\ delivered' \in [Node -> Seq(Envelope)]
      /\ delivered'[n] = After(delivered[n], o.out)
      /\ \A k \in Node : k # n => delivered'[k] = delivered[k]
  BY <1>1, <1>6 DEF IInv, Shape
<1>8. Shape'
  BY <1>1, <1>2, <1>3, <1>5, <1>7 DEF IInv, Shape
<1>9. HistoryOK'
  BY <1>1 DEF IInv, HistoryOK
<1>10. ASSUME NEW k \in Node PROVE EngineOK(eng'[k], k, sent')
  BY <1>1, <1>2, InvParts
<1>11. StaleOK'
  <2>1. ServerStale(eng'[Server], stale', Unreset')
    <3>1. CASE n = Server
      <4>1. Unreset' = connecting
        BY <1>1, <1>4, <1>5, <3>1 DEF Unreset
      <4>2. QED
        BY <1>1, <1>2, <3>1, <4>1
    <3>2. CASE n # Server
      <4>1. Unreset' = Unreset /\ eng'[Server] = eng[Server]
        BY <1>1, <1>2, <1>4, <1>5, <3>2, SystemAssumption DEF Unreset
      <4>2. QED
        BY <1>1, <4>1 DEF IInv, StaleOK
    <3>3. QED
      BY <3>1, <3>2
  <2>2. ASSUME NEW k \in Node \ {Server} PROVE ClientStale(eng'[k], stale')
    <3>1. ClientStale(eng[k], stale)
      BY DEF IInv, StaleOK
    <3>2. QED
      BY <1>1, <1>2, <3>1 DEF ClientStale
  <2>3. QED
    BY <2>1, <2>2 DEF StaleOK
<1>12. TrafficOK'
  <2>1. ASSUME NEW x \in net'
        PROVE  (Genuine(x, sent') /\ Fresh(x, stale')) \/ MadeAck(x, sent')
    BY <1>1, <1>3 DEF IInv, TrafficOK
  <2>2. ASSUME NEW k \in Node, NEW i \in DOMAIN delivered'[k]
        PROVE  Genuine(delivered'[k][i], sent')
    BY <1>1, <1>6, <1>7 DEF IInv, TrafficOK
  <2>3. QED
    BY <2>1, <2>2 DEF TrafficOK
<1>13. QED
  BY <1>7, <1>8, <1>9, <1>10, <1>11, <1>12 DEF IInv


\* ... and the application has got no message twice.
LEMMA FinishOnce ==
  ASSUME IInv, NEW n \in Node, NEW o, NEW read, NEW hellos, Finish(n, o, read, hellos),
         o.engine \in EngineShape, \A k \in Node : OnceOK(eng[k], delivered[k]),
         StillOnce(o, eng[n], sent), delivered'[n] = After(delivered[n], o.out)
  PROVE  \A k \in Node : OnceOK(eng'[k], delivered'[k])
<1>1. /\ eng' = [eng EXCEPT ![n] = o.engine]
      /\ delivered' = [delivered EXCEPT ![n] = After(delivered[n], o.out)]
  BY DEF Finish, After
<1>2. eng'[n] = o.engine /\ \A k \in Node : k # n => eng'[k] = eng[k]
  BY <1>1, OneEngine DEF IInv
<1>3. \A k \in Node : k # n => delivered'[k] = delivered[k]
  BY <1>1 DEF IInv, Shape
<1>4. delivered[n] \in Seq(Envelope) /\ \A i \in DOMAIN delivered[n] : Genuine(delivered[n][i], sent)
  BY DEF IInv, Shape, TrafficOK
<1>5. OnceOK(o.engine, After(delivered[n], o.out))
  BY <1>4 DEF StillOnce
<1>6. QED
  BY <1>2, <1>3, <1>5

\* What is known of the engine of node n when receive() turns to the transport.
LEMMA StagedFacts ==
  ASSUME IInv, NEW n \in Node, receive_staged(eng[n], n, hello[n], clock).res # "ERR_INVALID"
  PROVE  LET o == receive_staged(eng[n], n, hello[n], clock)
         IN  /\ Answered(o, eng[n], n, sent, {}) /\ StillOnce(o, eng[n], sent)
             /\ o.res # "OK" => o.out = {} /\ o.reply = {}
             /\ o.engine \in EngineShape /\ EngineOK(o.engine, n, sent)
             /\ n = Server => ServerStale(o.engine, stale, connecting)
<1> DEFINE o == receive_staged(eng[n], n, hello[n], clock)
<1>1. hello[n] \subseteq Node /\ clock \in Nat
  BY DEF IInv, Shape
<1>2. IsFiniteSet(hello[n])
  BY <1>1, FS_Subset, SystemAssumption
<1>3. /\ Answered(o, eng[n], n, sent, {}) /\ StillOnce(o, eng[n], sent)
      /\ o.res # "OK" => o.out = {} /\ o.reply = {}
      /\ \A h \in hello[n] : Forgotten(o.engine, h)
  BY <1>1, <1>2, InvParts, StagedOutcome
<1> HIDE DEF o
<1>4. Passed(eng[n], o.engine, {}) /\ o.engine \in EngineShape /\ EngineOK(o.engine, n, sent)
  BY <1>3 DEF Answered, Passed
<1>5. ASSUME n = Server PROVE ServerStale(o.engine, stale, connecting)
  <2>1. ServerStale(eng[n], stale, hello[n] \union connecting)
    BY <1>5 DEF IInv, StaleOK, Unreset
  <2>2. QED
    BY <1>3, <1>4, <2>1 DEF ServerStale, Passed, KeptBy, Forgotten
<1>6. QED
  BY <1>3, <1>4, <1>5 DEF o

LEMMA OutIsGenuine ==
  ASSUME NEW e \in EngineShape, NEW n, NEW S, EngineOK(e, n, S), NEW o, NEW X,
         Answered(o, e, n, S, X), \A x \in X : x \in Envelope /\ Genuine(x, S)
  PROVE  o.out = {} \/ \E x \in Envelope : o.out = {x} /\ Genuine(x, S)
BY KeptIsGenuine DEF Answered

\* receive() returns what it had staged, or nothing.
LEMMA StagedStep ==
  ASSUME IInv, NEW n \in Node, NEW hellos \in Hellos(n),
         receive_staged(eng[n], n, hello[n], clock).res # "ERR_INVALID",
         Finish(n, receive_staged(eng[n], n, hello[n], clock), {}, hellos)
  PROVE  /\ IInv'
         /\ (\A k \in Node : OnceOK(eng[k], delivered[k])) =>
              \A k \in Node : OnceOK(eng'[k], delivered'[k])
<1> DEFINE o == receive_staged(eng[n], n, hello[n], clock)
<1>1. /\ Answered(o, eng[n], n, sent, {}) /\ StillOnce(o, eng[n], sent)
      /\ o.engine \in EngineShape /\ EngineOK(o.engine, n, sent)
      /\ n = Server => ServerStale(o.engine, stale, connecting)
  BY StagedFacts
<1>2. Finish(n, o, {}, hellos)
  OBVIOUS
<1> HIDE DEF o
<1>3. o.out = {} \/ \E x \in Envelope : o.out = {x} /\ Genuine(x, sent)
  BY <1>1, InvParts, OutIsGenuine
<1>4. /\ \A a \in o.reply : a \in Envelope /\ MadeAck(a, sent)
      /\ Retried(o.engine.m_retry_manager) \subseteq Retried(eng[n].m_retry_manager)
  BY <1>1 DEF Answered, Passed
<1>5. IInv' /\ delivered'[n] = After(delivered[n], o.out)
  BY <1>1, <1>2, <1>3, <1>4, FinishStep
<1>6. QED
  BY <1>1, <1>2, <1>5, FinishOnce

\* receive() takes a frame from the transport.
LEMMA WireStep ==
  ASSUME IInv, NEW n \in Node, NEW m \in net, NEW copies, NEW hellos \in Hellos(n),
         ReceiveWire(n, m, copies, hellos)
  PROVE  /\ IInv'
         /\ WindowSuffices /\ (\A k \in Node : OnceOK(eng[k], delivered[k])) =>
              \A k \in Node : OnceOK(eng'[k], delivered'[k])
<1> DEFINE o == receive_staged(eng[n], n, hello[n], clock)
           w == receive_wire(handle_fragment_ingest(o.engine, m, clock), n, clock)
           read == IF copies = 0 THEN {m} ELSE {}
<1>1. /\ m.source_id # n
      /\ o.res \in {"ERR_EMPTY", "ERR_EXPIRED"}
      /\ Finish(n, w, read, hellos)
  BY DEF ReceiveWire
<1>2. /\ Answered(o, eng[n], n, sent, {}) /\ StillOnce(o, eng[n], sent)
      /\ o.out = {} /\ o.engine \in EngineShape /\ EngineOK(o.engine, n, sent)
      /\ n = Server => ServerStale(o.engine, stale, connecting)
  BY <1>1, StagedFacts
<1> HIDE DEF o
<1>3. /\ m \in Envelope /\ clock \in Nat
      /\ (Genuine(m, sent) /\ Fresh(m, stale)) \/ MadeAck(m, sent)
  BY DEF IInv, Shape, TrafficOK
<1>4. UniqueIds(sent) /\ Traced(sent)
  BY InvParts
<1>5. /\ \E X : Arrives(X, m, n, sent) /\ Answered(w, o.engine, n, sent, X)
      /\ WindowSuffices => StillOnce(w, o.engine, sent)
  BY <1>2, <1>3, <1>4, WireOutcome
<1> HIDE DEF w
<1>6. PICK X : Arrives(X, m, n, sent) /\ Answered(w, o.engine, n, sent, X)
  BY <1>5
<1>7. Passed(eng[n], o.engine, {}) /\ Passed(o.engine, w.engine, X)
  BY <1>2, <1>6 DEF Answered
<1>8. /\ w.engine \in EngineShape /\ EngineOK(w.engine, n, sent)
      /\ Retried(w.engine.m_retry_manager) \subseteq Retried(eng[n].m_retry_manager)
      /\ \A a \in w.reply : a \in Envelope /\ MadeAck(a, sent)
  BY <1>6, <1>7 DEF Answered, Passed
<1>9. ASSUME n = Server PROVE ServerStale(w.engine, stale, connecting)
  <2>1. ASSUME NEW x \in X PROVE x.message_id \notin Ids(stale)
    <3>1. /\ Genuine(x, sent) /\ ~MadeAck(m, sent) /\ x.message_id = m.message_id
          /\ x.destination_id \in {n, NODE_ID_INVALID}
      BY <1>6 DEF Arrives
    <3>2. Genuine(m, sent) /\ Fresh(m, stale)
      BY <1>3, <3>1
    <3>3. x.destination_id = m.destination_id
      BY <1>4, <3>1, <3>2, TwiceBothWays DEF Copy, Alike
    <3>4. QED
      BY <1>1, <1>9, <3>1, <3>2, <3>3 DEF Fresh
  <2>2. QED
    BY <1>2, <1>7, <1>9, <2>1 DEF ServerStale, Passed, KeptBy
<1>10. w.out = {} \/ \E x \in Envelope : w.out = {x} /\ Genuine(x, sent)
  BY <1>2, <1>6, OutIsGenuine DEF Arrives
<1>11. IInv' /\ delivered'[n] = After(delivered[n], w.out)
  BY <1>1, <1>8, <1>9, <1>10, FinishStep
<1>12. WindowSuffices => StillOnce(w, eng[n], sent)
  <2>1. \A d : After(d, o.out) = d
    BY <1>2 DEF After
  <2>2. \A d \in Seq(Envelope) : /\ \A i \in DOMAIN d : Genuine(d[i], sent)
                                 /\ OnceOK(eng[n], d)
                                 => OnceOK(o.engine, d)
    BY <1>2, <2>1 DEF StillOnce
  <2>3. QED
    BY <1>5, <2>2 DEF StillOnce
<1>13. QED
  BY <1>1, <1>8, <1>11, <1>12, FinishOnce


(***************************************************************************)
(* Every step keeps the invariant.                                         *)
(***************************************************************************)
LEMMA StepOK ==
  ASSUME IInv, [Next]_vars
  PROVE  IInv'
<1>1. ASSUME NEW m \in Workload, NEW accepted \in 0 .. FrameCount(m), Send(m, accepted)
      PROVE  IInv'
  <2>1. accepted \in Nat
    OBVIOUS
  <2>2. QED
    BY <1>1, <2>1, SendStep
<1>2. ASSUME NEW n \in Node, ReceiveStaged(n) PROVE IInv'
  <2>1. /\ receive_staged(eng[n], n, hello[n], clock).res = "OK"
        /\ Finish(n, receive_staged(eng[n], n, hello[n], clock), {}, {})
    BY <1>2 DEF ReceiveStaged
  <2>2. {} \in Hellos(n)
    BY DEF Hellos
  <2>3. QED
    BY <2>1, <2>2, StagedStep
<1>3. ASSUME NEW n \in Node, NEW h \in Hellos(n), ReceiveTimeout(n, h) PROVE IInv'
  <2>1. /\ receive_staged(eng[n], n, hello[n], clock).res \in {"ERR_EMPTY", "ERR_EXPIRED"}
        /\ Finish(n, receive_staged(eng[n], n, hello[n], clock), {}, h)
    BY <1>3 DEF ReceiveTimeout
  <2>2. QED
    BY <2>1, StagedStep
<1>4. ASSUME NEW n \in Node, NEW m \in net, NEW copies \in {0, 1}, NEW h \in Hellos(n),
             ReceiveWire(n, m, copies, h)
      PROVE  IInv'
  BY <1>4, WireStep
<1>5. ASSUME NEW n \in Node, PumpRetries(n) PROVE IInv'
  BY <1>5, PumpStep
<1>6. ASSUME NEW n \in Node, SweepAckTimeouts(n) PROVE IInv'
  BY <1>6, SweepSystemStep
<1>7. ASSUME NEW n \in Node, Restart(n) PROVE IInv'
  BY <1>7, RestartStep
<1>8. CASE Tick
  <2>1. clock' \in Nat
    BY <1>8 DEF Tick, IInv, Shape
  <2>2. QED
    BY <1>8, <2>1, TickStep DEF Tick
<1>9. CASE UNCHANGED vars
  <2>1. clock' \in Nat
    BY <1>9 DEF vars, IInv, Shape
  <2>2. QED
    BY <1>9, <2>1, TickStep DEF vars
<1>10. QED
  BY <1>1, <1>2, <1>3, <1>4, <1>5, <1>6, <1>7, <1>8, <1>9 DEF Next, Traffic

\* The inductive invariant of DeliverySystem: whatever an engine tracks, retransmits,
\* stages, holds or has a part of, and whatever is under way or was delivered, is a copy
\* of a message that send() gave to the transport (or an ACK for one); ids are unique;
\* what the server still keeps of a client's earlier session belongs to a client whose
\* HELLO it has not acted upon.
THEOREM Invariance == Spec => []IInv
<1>1. Init => IInv
  BY InitOK
<1>2. IInv /\ [Next]_vars => IInv'
  BY StepOK
<1>3. QED
  BY <1>1, <1>2, PTL DEF Spec

\* A send() that fails before a frame is on the wire leaves no slot, no retransmission
\* and no copy anywhere (reserve_bookkeeping() and rollback_on_transport_failure()),
\* although messages are lost, copied, retransmitted and clients restart meanwhile.
THEOREM FailedSends == Spec => []FailedSendLeavesNothing
<1>1. IInv => FailedSendLeavesNothing
  <2> SUFFICES ASSUME IInv, NEW id \in failed, NEW n \in Node
               PROVE  /\ \A m \in InFlight(n) : m.message_id # id
                      /\ \A m \in net : m.message_id # id
                      /\ \A i \in DOMAIN delivered[n] : delivered[n][i].message_id # id
    BY DEF FailedSendLeavesNothing
  <2>1. id \notin Ids(sent)
    BY DEF IInv, HistoryOK
  <2>2. \A m \in InFlight(n) : m \in sent
    BY InvParts DEF EngineOK, InFlight, Pending, Retried
  <2>3. \A m \in InFlight(n) : m.message_id # id
    BY <2>1, <2>2 DEF Ids
  <2>4. \A m \in net : m.message_id # id
    BY <2>1, Copies DEF IInv, TrafficOK, MadeAck
  <2>5. \A i \in DOMAIN delivered[n] : delivered[n][i].message_id # id
    BY <2>1, Copies DEF IInv, TrafficOK
  <2>6. QED
    BY <2>3, <2>4, <2>5
<1>2. QED
  BY <1>1, Invariance, PTL

\* No node retransmits a message that its AckTracker has seen acknowledged: process_ack()
\* clears both tables, and neither takes the message up again.
THEOREM AcksStopRetries == Spec => []AckStopsRetries
<1>1. IInv => AckStopsRetries
  <2> SUFFICES ASSUME IInv, NEW n \in Node,
                      NEW i \in AT!InState(eng[n].m_ack_tracker, "ACKED"),
                      NEW j \in RM!Active(eng[n].m_retry_manager)
               PROVE  ~SameMessage(eng[n].m_ack_tracker.m_slots[i].env,
                                   eng[n].m_retry_manager.m_slots[j].env)
    BY DEF AckStopsRetries
  <2>1. /\ eng[n].m_ack_tracker.m_slots[i].env \in Acked(eng[n].m_ack_tracker)
        /\ eng[n].m_retry_manager.m_slots[j].env \in Retried(eng[n].m_retry_manager)
    BY DEF Acked, Retried
  <2>2. EngineOK(eng[n], n, sent)
    BY InvParts
  <2>3. QED
    BY <2>1, <2>2 DEF EngineOK, SameMessage
<1>2. QED
  BY <1>1, Invariance, PTL

\* Once the server has acted upon a client's HELLO (drain_hello_reconnects() and
\* reset_peer_ordering()), it neither tracks nor retransmits what it had sent to the
\* client's earlier session, and stages nothing that the client had sent in it.
THEOREM ResetIsComplete == Spec => []StaleOnlyUntilHello
<1>1. IInv => StaleOnlyUntilHello
  <2> SUFFICES ASSUME IInv, NEW m \in stale
               PROVE  /\ m \in InFlight(Server) => m.destination_id \in Unreset
                      /\ \A x \in eng[Server].m_held_pending :
                            SameMessage(x, m) => m.source_id \in Unreset
    BY DEF StaleOnlyUntilHello, Unreset
  <2>1. ServerStale(eng[Server], stale, Unreset)
    BY DEF IInv, StaleOK
  <2>2. m \in InFlight(Server) => m.destination_id \in Unreset
    BY <2>1 DEF ServerStale, InFlight, Pending, Retried
  <2>3. ASSUME NEW x \in eng[Server].m_held_pending, SameMessage(x, m)
        PROVE  m.source_id \in Unreset
    BY <2>1, <2>3 DEF ServerStale, Ids, SameMessage
  <2>4. QED
    BY <2>2, <2>3
<1>2. QED
  BY <1>1, Invariance, PTL


-----------------------------------------------------------------------------
(* At most once. *)

LEMMA OnceInitOK == OnceOK(EngineInit, <<>>)
<1>1. /\ EngineInit.m_dedup = DF!init /\ EngineInit.m_ordering = OB!init
      /\ EngineInit.m_held_pending = {}
  BY DEF EngineInit
<1>2. OB!Held(OB!init) = {} /\ Holding(OB!init) = {} /\ WindowOK(DF!init)
  BY OrderingInit, DedupInit
<1>3. DOMAIN <<>> = {}
  OBVIOUS
<1>4. QED
  BY <1>1, <1>2, <1>3 DEF OnceOK

\* Steps that concern a node's own messages leave its inbox alone.
LEMMA OnceElsewhere ==
  ASSUME IInv, NEW n \in Node, NEW u \in EngineShape, eng' = [eng EXCEPT ![n] = u],
         delivered' = delivered, \A d : OnceOK(eng[n], d) => OnceOK(u, d),
         \A k \in Node : OnceOK(eng[k], delivered[k])
  PROVE  \A k \in Node : OnceOK(eng'[k], delivered'[k])
<1>1. eng'[n] = u /\ \A k \in Node : k # n => eng'[k] = eng[k]
  BY OneEngine DEF IInv
<1>2. QED
  BY <1>1

LEMMA OnceStep ==
  ASSUME WindowSuffices, IInv, [Next]_vars, \A k \in Node : OnceOK(eng[k], delivered[k])
  PROVE  \A k \in Node : OnceOK(eng'[k], delivered'[k])
<1> DEFINE Goal == \A k \in Node : OnceOK(eng'[k], delivered'[k])
<1> USE DEF Goal
<1>0. clock \in Nat
  BY DEF IInv, Shape
<1>1. ASSUME NEW m \in Workload, NEW accepted \in 0 .. FrameCount(m), Send(m, accepted)
      PROVE  Goal
  <2> DEFINE n == m.source_id
             e == eng[n]
             r == send(e, m, clock, accepted)
  <2>1. /\ m.message_id \notin Used /\ eng' = [eng EXCEPT ![n] = r.engine]
        /\ delivered' = delivered
    BY <1>1 DEF Send
  <2>2. m \in Envelope /\ n \in Node /\ accepted \in Nat
    BY SystemAssumption DEF Envelope
  <2>3. e \in EngineShape /\ EngineOK(e, n, sent)
    BY <2>2, InvParts
  <2>4. NewTo(e, m) /\ RetriedOnce(e.m_retry_manager)
    BY <2>1, <2>3 DEF NewTo, EngineOK, Used
  <2> HIDE DEF e
  <2>5. SameRest(r.engine, e) /\ r.engine \in EngineShape
    <3>1. SameRest(r.engine, e) /\ (Receded(e, r.engine) \/ Booked(e, r.engine, r.stamped))
      BY <1>0, <2>2, <2>3, <2>4, SendBooks
    <3>2. QED
      BY <3>1 DEF Receded, Booked
  <2> HIDE DEF r
  <2>6. \A d : OnceOK(e, d) => OnceOK(r.engine, d)
    BY <2>5 DEF SameRest, OnceOK
  <2>7. QED
    BY <2>1, <2>2, <2>5, <2>6, OnceElsewhere DEF e
<1>2. ASSUME NEW n \in Node, ReceiveStaged(n) PROVE Goal
  <2>1. /\ receive_staged(eng[n], n, hello[n], clock).res = "OK"
        /\ Finish(n, receive_staged(eng[n], n, hello[n], clock), {}, {})
    BY <1>2 DEF ReceiveStaged
  <2>2. {} \in Hellos(n)
    BY DEF Hellos
  <2>3. QED
    BY <2>1, <2>2, StagedStep
<1>3. ASSUME NEW n \in Node, NEW h \in Hellos(n), ReceiveTimeout(n, h) PROVE Goal
  <2>1. /\ receive_staged(eng[n], n, hello[n], clock).res \in {"ERR_EMPTY", "ERR_EXPIRED"}
        /\ Finish(n, receive_staged(eng[n], n, hello[n], clock), {}, h)
    BY <1>3 DEF ReceiveTimeout
  <2>2. QED
    BY <2>1, StagedStep
<1>4. ASSUME NEW n \in Node, NEW m \in net, NEW copies \in {0, 1}, NEW h \in Hellos(n),
             ReceiveWire(n, m, copies, h)
      PROVE  Goal
  BY <1>4, WireStep
<1>5. ASSUME NEW n \in Node, NEW u, Receded(eng[n], u), eng' = [eng EXCEPT ![n] = u],
             delivered' = delivered
      PROVE  Goal
  <2>1. eng[n] \in EngineShape /\ u \in EngineShape
    BY <1>5, InvParts DEF Receded
  <2>2. \A d : OnceOK(eng[n], d) => OnceOK(u, d)
    BY <1>5, <2>1, FewerKept DEF Receded
  <2>3. QED
    BY <1>5, <2>1, <2>2, OnceElsewhere
<1>6. ASSUME NEW n \in Node, PumpRetries(n) PROVE Goal
  <2>1. Receded(eng[n], pump_retries(eng[n], clock).engine)
    BY <1>0, InvParts, PumpOutcome
  <2>2. /\ eng' = [eng EXCEPT ![n] = pump_retries(eng[n], clock).engine]
        /\ delivered' = delivered
    BY <1>6 DEF PumpRetries
  <2>3. QED
    BY <1>5, <2>1, <2>2
<1>7. ASSUME NEW n \in Node, SweepAckTimeouts(n) PROVE Goal
  <2>1. Receded(eng[n], sweep_ack_timeouts(eng[n], clock).engine)
    BY <1>0, InvParts, SweepOutcome
  <2>2. /\ eng' = [eng EXCEPT ![n] = sweep_ack_timeouts(eng[n], clock).engine]
        /\ delivered' = delivered
    BY <1>7 DEF SweepAckTimeouts
  <2>3. QED
    BY <1>5, <2>1, <2>2
<1>8. ASSUME NEW n \in Node, Restart(n) PROVE Goal
  <2>1. /\ eng' = [eng EXCEPT ![n] = EngineInit]
        /\ delivered' = [delivered EXCEPT ![n] = <<>>]
    BY <1>8 DEF Restart
  <2>2. eng'[n] = EngineInit /\ \A k \in Node : k # n => eng'[k] = eng[k]
    BY <2>1, EngineInitOK, OneEngine DEF IInv
  <2>3. delivered'[n] = <<>> /\ \A k \in Node : k # n => delivered'[k] = delivered[k]
    BY <2>1 DEF IInv, Shape
  <2>4. QED
    BY <2>2, <2>3, OnceInitOK
<1>9. CASE UNCHANGED <<eng, delivered>>
  BY <1>9
<1>10. QED
  BY <1>1, <1>2, <1>3, <1>4, <1>6, <1>7, <1>8, <1>9 DEF Next, Traffic, Tick, vars

\* At-most-once: however often a RELIABLE_RETRY message is retransmitted or copied, and
\* whether it passes the gate at once, is held or is staged, the application gets it once
\* in a session, as long as the window of the DuplicateFilter is no smaller than the set of
\* RELIABLE_RETRY messages (handle_data_dedup(), handle_ordering_gate(), StageNext).
THEOREM DeliveredOnce == WindowSuffices => (Spec => []AtMostOnce)
<1> SUFFICES ASSUME WindowSuffices PROVE Spec => []AtMostOnce
  OBVIOUS
<1>1. Init => OnceInv
  <2> SUFFICES ASSUME Init PROVE OnceInv
    OBVIOUS
  <2>1. \A k \in Node : eng[k] = EngineInit /\ delivered[k] = <<>>
    BY DEF Init
  <2>2. QED
    BY <2>1, InitOK, OnceInitOK DEF OnceInv
<1>2. OnceInv /\ [Next]_vars => OnceInv'
  BY StepOK, OnceStep DEF OnceInv
<1>3. OnceInv => AtMostOnce
  BY DEF OnceInv, OnceOK, AtMostOnce, Twice, InRetryClass
<1>4. QED
  BY <1>1, <1>2, <1>3, PTL DEF Spec


-----------------------------------------------------------------------------
(* The paths through receive(), for what depends on more than the sets of  *)
(* messages that an engine keeps.                                          *)

\* What ACKs, and frames of messages that are not complete, leave alone.
SameInbox(u, e) == /\ u.m_dedup        = e.m_dedup
                   /\ u.m_ordering     = e.m_ordering
                   /\ u.m_held_pending = e.m_held_pending
                   /\ u.m_seq_state    = e.m_seq_state

LEMMA WirePaths ==
  ASSUME NEW e \in EngineShape, NEW n \in Node, NEW S, EngineOK(e, n, S),
         NEW m \in Envelope, Genuine(m, S) \/ MadeAck(m, S), NEW now \in Nat
  PROVE  LET w == receive_wire(handle_fragment_ingest(e, m, now), n, now)
         IN  \/ w.out = {} /\ w.reply = {} /\ SameInbox(w.engine, e)
             \/ \E f \in EngineShape, x \in Envelope :
                  /\ SameInbox(f, e) /\ EngineOK(f, n, S)
                  /\ Genuine(x, S) /\ x.source_id = m.source_id /\ ~envelope_is_control(x)
                  /\ w = handle_data_path(f, n, x, now)
<1> DEFINE r == handle_fragment_ingest(e, m, now)
           w == receive_wire(r, n, now)
           g == RB!ingest(e.m_reassembly, m, now)
           b == g.slots
           f == [e EXCEPT !.m_reassembly = b]
           env == CHOOSE x \in g.out : TRUE
<1>1. /\ b \in [RB!SlotIndex -> SlotShape]
      /\ Headers(b) \subseteq Headers(e.m_reassembly) \union {m}
      /\ m.fragment_count = 0 => b = e.m_reassembly
      /\ g.res = "OK" =>
           \E y \in Envelope :
             /\ g.out = {y}
             /\ \/ y = m
                \/ /\ m.fragment_count # 0
                   /\ \E h \in Headers(e.m_reassembly) \union {m} :
                        /\ Copy(y, h)
                        /\ h.message_id = m.message_id
                        /\ h.source_id = m.source_id
  BY EngineFields, FragmentIngest
<1>2. r = [res |-> g.res, out |-> g.out, engine |-> f]
  BY DEF handle_fragment_ingest
<1>3. r.res = g.res /\ r.out = g.out /\ r.engine = f
  BY <1>2
<1> HIDE DEF g
<1>4. /\ f \in EngineShape /\ f.m_reassembly = b /\ SameInbox(f, e)
      /\ f.m_ack_tracker = e.m_ack_tracker /\ f.m_retry_manager = e.m_retry_manager
  BY <1>1 DEF EngineShape, SameInbox
<1> HIDE DEF f, b, r
<1>5. EngineOK(f, n, S)
  <2>1. \A x \in Headers(b) : Genuine(x, S)
    BY <1>1 DEF EngineOK, MadeAck
  <2>2. QED
    BY <1>4, <2>1 DEF EngineOK, SameInbox
<1>6. CASE g.res # "OK"
  <2>1. w = Outcome(r.res, r.engine, {}, {})
    BY <1>3, <1>6 DEF receive_wire
  <2>2. w.engine = f /\ w.out = {} /\ w.reply = {}
    BY <1>3, <2>1 DEF Outcome
  <2> HIDE DEF w
  <2>3. QED
    BY <1>4, <2>2 DEF w, r
<1>7. CASE g.res = "OK"
  <2>1. PICK y \in Envelope :
               /\ g.out = {y}
               /\ \/ y = m
                  \/ /\ m.fragment_count # 0
                     /\ \E h \in Headers(e.m_reassembly) \union {m} :
                          /\ Copy(y, h)
                          /\ h.message_id = m.message_id
                          /\ h.source_id = m.source_id
    BY <1>1, <1>7
  <2>2. (CHOOSE x \in r.out : TRUE) = y
    BY <1>3, <2>1
  <2> DEFINE route == check_routing(y, n, now)
  <2>3. CASE route # "OK"
    <3>1. w = Outcome(route, r.engine, {}, {})
      BY <1>3, <1>7, <2>2, <2>3 DEF receive_wire
    <3>2. w.engine = f /\ w.out = {} /\ w.reply = {}
      BY <1>3, <3>1 DEF Outcome
    <3> HIDE DEF w
    <3>3. QED
      BY <1>4, <3>2 DEF w, r
  <2>4. CASE route = "OK" /\ envelope_is_control(y)
    <3>1. \/ w = Outcome("OK", process_ack(f, y), {}, {})
          \/ w = Outcome("OK", f, {}, {})
      BY <1>3, <1>7, <2>2, <2>4 DEF receive_wire
    <3>2. w.out = {} /\ w.reply = {} /\ (w.engine = process_ack(f, y) \/ w.engine = f)
      BY <3>1 DEF Outcome
    <3>3. SameInbox(process_ack(f, y), f)
      BY <1>4 DEF process_ack, SameInbox, EngineShape
    <3> HIDE DEF w
    <3>4. SameInbox(w.engine, e)
      BY <1>4, <3>2, <3>3 DEF SameInbox
    <3>5. QED
      BY <3>2, <3>4 DEF w, r
  <2>5. CASE route = "OK" /\ ~envelope_is_control(y)
    <3>1. w = handle_data_path(f, n, y, now)
      BY <1>3, <1>7, <2>2, <2>5 DEF receive_wire
    <3>2. y = m => m.message_type # "ACK"
      BY <2>5 DEF envelope_is_control
    <3>3. ~MadeAck(m, S)
      BY <2>1, <3>2 DEF MadeAck
    <3>4. Genuine(y, S) /\ y.source_id = m.source_id
      <4>1. CASE y = m
        BY <3>3, <4>1
      <4>2. CASE y # m
        <5>1. PICK h \in Headers(e.m_reassembly) \union {m} :
                     Copy(y, h) /\ h.source_id = m.source_id
          BY <2>1, <4>2
        <5>2. Genuine(h, S)
          BY <3>3, <5>1 DEF EngineOK
        <5>3. QED
          BY <5>1, <5>2, Copies DEF Copy, Alike
      <4>3. QED
        BY <4>1, <4>2
    <3> HIDE DEF w
    <3>5. QED
      BY <1>4, <1>5, <2>5, <3>1, <3>4 DEF w, r
  <2>6. QED
    BY <2>3, <2>4, <2>5
<1>8. QED
  BY <1>6, <1>7


-----------------------------------------------------------------------------
(* ACKs on an unordered channel.                                           *)

\* The channel gives no sequence numbers, and neither do the applications.
Unnumbered == /\ ordering = "UNORDERED"
              /\ \A m \in Workload : m.message_type = "DATA" /\ m.sequence_num = 0

Has(d, src, id) == \E i \in DOMAIN d : d[i].source_id = src /\ d[i].message_id = id

\* The filter knows no message but those that the application has.
Backed(f, d) == \A src, id : DF!is_duplicate(f, src, id) => Has(d, src, id)

AckInv ==
  /\ IInv
  /\ \A s \in sent : s.sequence_num = 0
  /\ \A k \in Node : KeptBy(eng[k]) = {} /\ Backed(eng[k].m_dedup, delivered[k])
  /\ \A a \in net : a.message_type = "ACK" =>
                      Has(delivered[a.source_id], a.destination_id, a.message_id)

LEMMA RecordAdds ==
  ASSUME NEW f \in DF!Filter, NEW src, NEW id, NEW now, NEW a, NEW b,
         DF!is_duplicate(DF!record(f, src, id, now), a, b)
  PROVE  (a = src /\ b = id) \/ DF!is_duplicate(f, a, b)
<1> DEFINE g == DF!record(f, src, id, now)
           N == DEDUP_WINDOW_SIZE
           i == IF f.m_count >= N THEN DF!find_evict_idx(f) ELSE f.m_next
           e == [valid |-> TRUE, src |-> src, msg_id |-> id, recorded_us |-> now]
<1>1. g.m_window = [f.m_window EXCEPT ![i] = e]
  BY DEF DF!record
<1>2. f.m_window \in [DF!WindowIndex -> DF!Entry]
  BY DEF DF!Filter
<1>3. e.src = src /\ e.msg_id = id
  OBVIOUS
<1>4. PICK j \in DF!WindowIndex : /\ g.m_window[j].valid
                                  /\ g.m_window[j].src = a
                                  /\ g.m_window[j].msg_id = b
  BY DEF DF!is_duplicate, DF!Valid
<1> HIDE DEF g, i, e
<1>5. CASE j = i
  BY <1>1, <1>2, <1>3, <1>4, <1>5
<1>6. CASE j # i
  <2>1. g.m_window[j] = f.m_window[j]
    BY <1>1, <1>2, <1>6
  <2>2. QED
    BY <1>4, <2>1 DEF DF!is_duplicate, DF!Valid
<1>7. QED
  BY <1>5, <1>6

LEMMA HasAfter ==
  ASSUME NEW d \in Seq(Envelope), NEW x \in Envelope
  PROVE  /\ Has(Append(d, x), x.source_id, x.message_id)
         /\ \A src, id : Has(d, src, id) => Has(Append(d, x), src, id)
<1> DEFINE c == Append(d, x)
<1>1. /\ DOMAIN c = 1 .. Len(d) + 1 /\ DOMAIN d = 1 .. Len(d) /\ Len(d) \in Nat
      /\ c[Len(d) + 1] = x
      /\ \A i \in 1 .. Len(d) : c[i] = d[i]
  OBVIOUS
<1> HIDE DEF c
<1>2. QED
  BY <1>1 DEF Has, c

\* An outcome o of receive() at node n, whose application has been given those of d.
Vouches(o, n, d) ==
  LET c == After(d, o.out)
  IN  /\ KeptBy(o.engine) = {} /\ Backed(o.engine.m_dedup, c)
      /\ \A a \in o.reply : a.source_id = n /\ Has(c, a.destination_id, a.message_id)

\* A message without a number passes the gate at once, and nothing is staged after it.
LEMMA Ungated ==
  ASSUME NEW e \in EngineShape, NEW n, NEW S, EngineOK(e, n, S), KeptBy(e) = {},
         NEW x, x.sequence_num = 0, NEW now
  PROVE  LET gate == handle_ordering_gate(e, x, now)
             u == [e EXCEPT !.m_ordering = gate.buffer]
         IN  gate.res = "OK" /\ StageNext(u, x.source_id) = u /\ KeptBy(u) = {}
<1> DEFINE o == e.m_ordering
           q == OB!sweep_expired_holds(o, now, ORDERING_HOLD_COUNT).buffer
           gate == handle_ordering_gate(e, x, now)
           u == [e EXCEPT !.m_ordering = q]
<1>1. o \in OB!Buffer /\ PeersOK(o)
  BY EngineFields DEF EngineOK
<1>2. Shrunk(o, q)
  BY <1>1, SweepShrinks
<1>3. gate = [res |-> "OK", buffer |-> q]
  BY DEF handle_ordering_gate, OB!ingest, OB!Ordered
<1> HIDE DEF q
<1>4. /\ q \in OB!Buffer /\ PeersOK(q)
      /\ Holding(q) \subseteq Holding(o)
  BY <1>1, <1>2, ShrunkFacts
<1>5. Holding(q) = {} /\ OB!Held(q) = {}
  BY <1>4 DEF KeptBy, Holding
<1>6. u.m_ordering = q /\ u.m_held_pending = e.m_held_pending
  BY DEF EngineShape
<1>7. OB!try_release_next(q, x.source_id).res # "OK"
  BY <1>4, <1>5, ReleaseShrinks
<1>8. StageNext(u, x.source_id) = u
  BY <1>6, <1>7 DEF StageNext
<1>9. KeptBy(u) = {}
  BY <1>5, <1>6 DEF KeptBy
<1>10. gate.res = "OK" /\ gate.buffer = q
  BY <1>3
<1> HIDE DEF gate, u
<1>11. QED
  BY <1>8, <1>9, <1>10 DEF u, gate

LEMMA DataVouches ==
  ASSUME NEW e \in EngineShape, NEW n \in Node, NEW S, EngineOK(e, n, S), KeptBy(e) = {},
         NEW x \in Envelope, x.sequence_num = 0, NEW now \in Nat,
         NEW d \in Seq(Envelope), Backed(e.m_dedup, d)
  PROVE  Vouches(handle_data_path(e, n, x, now), n, d)
<1> DEFINE o == handle_data_path(e, n, x, now)
           dedup == handle_data_dedup(e, x, now)
           f == e.m_dedup
           g == dedup.filter
           fresh == [e EXCEPT !.m_dedup = g]
           gate == handle_ordering_gate(fresh, x, now)
           u == [fresh EXCEPT !.m_ordering = gate.buffer]
           src == x.source_id
           id == x.message_id
<1>1. f \in DF!Filter /\ src \in Node /\ id \in MessageId
  BY EngineFields DEF Envelope
<1>2. \A a \in {envelope_make_ack(x, n)} \union AcksFor(n, {x}) :
        a.source_id = n /\ a.destination_id = src /\ a.message_id = id
  BY DEF AcksFor, envelope_make_ack
<1>3. CASE dedup.res # "OK"
  <2>1. o = Outcome("ERR_DUPLICATE", e, {}, {envelope_make_ack(x, n)})
    BY <1>3 DEF handle_data_path
  <2>2. o.engine = e /\ o.out = {} /\ o.reply = {envelope_make_ack(x, n)}
    BY <2>1 DEF Outcome
  <2>3. DF!is_duplicate(f, src, id)
    BY <1>3 DEF handle_data_dedup, DF!check_and_record
  <2>4. After(d, o.out) = d /\ Has(d, src, id)
    BY <2>2, <2>3 DEF After, Backed
  <2> HIDE DEF o
  <2>5. QED
    BY <1>2, <2>2, <2>4 DEF Vouches, o
<1>4. CASE dedup.res = "OK"
  <2>1. g \in DF!Filter
    BY <1>1, DedupShape DEF handle_data_dedup
  <2>2. \A a, b : DF!is_duplicate(g, a, b) => (a = src /\ b = id) \/ DF!is_duplicate(f, a, b)
    <3>1. g = f \/ g = DF!record(f, src, id, now)
      BY <1>4 DEF handle_data_dedup, DF!check_and_record
    <3> HIDE DEF g
    <3>2. QED
      BY <1>1, <3>1, RecordAdds
  <2> HIDE DEF g
  <2>3. /\ fresh \in EngineShape /\ fresh.m_dedup = g
        /\ fresh.m_ack_tracker = e.m_ack_tracker /\ fresh.m_retry_manager = e.m_retry_manager
        /\ fresh.m_ordering = e.m_ordering /\ fresh.m_held_pending = e.m_held_pending
        /\ fresh.m_reassembly = e.m_reassembly
    BY <2>1 DEF EngineShape
  <2> HIDE DEF fresh
  <2>4. EngineOK(fresh, n, S) /\ KeptBy(fresh) = {}
    BY <2>3 DEF EngineOK, KeptBy
  <2>5. gate.res = "OK" /\ StageNext(u, src) = u /\ KeptBy(u) = {}
    BY <2>3, <2>4, Ungated
  <2>6. u.m_dedup = g
    BY <2>3 DEF EngineShape
  <2>7. o = Outcome("OK", StageNext(u, src), {x}, AcksFor(n, {x}))
    BY <1>4, <2>5 DEF handle_data_path, fresh, g
  <2>8. o.engine = u /\ o.out = {x} /\ o.reply = AcksFor(n, {x})
    BY <2>5, <2>7 DEF Outcome
  <2> HIDE DEF o, u
  <2>9. After(d, o.out) = Append(d, x)
    BY <2>8 DEF After
  <2>10. Backed(g, Append(d, x)) /\ Has(Append(d, x), src, id)
    BY <2>2, HasAfter DEF Backed
  <2>11. QED
    BY <1>2, <2>5, <2>6, <2>8, <2>9, <2>10 DEF Vouches, o
<1>5. QED
  BY <1>3, <1>4

\* The engine with which receive() goes on when nothing is staged.
LEMMA NothingStaged ==
  ASSUME IInv, NEW n \in Node, KeptBy(eng[n]) = {},
         receive_staged(eng[n], n, hello[n], clock).res # "ERR_INVALID"
  PROVE  \E u : /\ receive_staged(eng[n], n, hello[n], clock) = Outcome("ERR_EMPTY", u, {}, {})
                /\ Receded(eng[n], u) /\ EngineOK(u, n, sent)
                /\ KeptBy(u) = {}
<1> DEFINE e == eng[n]
           t == [e EXCEPT !.m_last_now_us = clock]
           u == drain_hello_reconnects(t, hello[n])
<1>1. /\ e \in EngineShape /\ EngineOK(e, n, sent) /\ clock \in Nat
      /\ IsFiniteSet(hello[n])
  BY InvParts, FS_Subset, SystemAssumption DEF IInv, Shape
<1>a. e = eng[n] /\ receive_staged(e, n, hello[n], clock).res # "ERR_INVALID"
  OBVIOUS
<1> HIDE DEF e
<1>b. receive_staged(e, n, hello[n], clock) =
        IF u.m_held_pending # {} THEN deliver_held_pending(u, n, clock)
                                 ELSE Outcome("ERR_EMPTY", u, {}, {})
  <2> HIDE DEF u
  <2>1. ~ClockWentBack(e, clock)
    BY <1>a DEF receive_staged, Outcome
  <2>2. u = drain_hello_reconnects([e EXCEPT !.m_last_now_us = clock], hello[n])
    BY DEF u
  <2>3. QED
    BY <2>1, <2>2 DEF receive_staged
<1>2. Receded(e, t)
  BY <1>1, RecededTime
<1>3. t \in EngineShape /\ EngineOK(t, n, sent)
  BY <1>1, <1>2, RecededOK DEF Receded
<1> HIDE DEF t
<1>4. Receded(t, u)
  BY <1>1, <1>3, DrainForgets
<1> HIDE DEF u
<1>5. Receded(e, u)
  BY <1>2, <1>4, RecededTwice
<1>6. EngineOK(u, n, sent) /\ Passed(e, u, {})
  BY <1>1, <1>5, RecededOK, RecededPasses
<1>7. KeptBy(u) = {} /\ u.m_held_pending = {}
  BY <1>6 DEF Passed, KeptBy, e
<1>8. receive_staged(e, n, hello[n], clock) = Outcome("ERR_EMPTY", u, {}, {})
  BY <1>b, <1>7
<1>9. QED
  BY <1>5, <1>6, <1>7, <1>8 DEF e

\* The end of receive().
LEMMA FinishVouches ==
  ASSUME AckInv, NEW n \in Node, NEW o, NEW read, NEW hellos, Finish(n, o, read, hellos),
         o.engine \in EngineShape, Vouches(o, n, delivered[n])
  PROVE  /\ \A s \in sent' : s.sequence_num = 0
         /\ \A k \in Node : KeptBy(eng'[k]) = {} /\ Backed(eng'[k].m_dedup, delivered'[k])
         /\ \A a \in net' : a.message_type = "ACK" =>
                              Has(delivered'[a.source_id], a.destination_id, a.message_id)
<1> DEFINE c == After(delivered[n], o.out)
<1>1. /\ eng' = [eng EXCEPT ![n] = o.engine]
      /\ delivered' = [delivered EXCEPT ![n] = c]
      /\ Transmit(net \ read, o.reply)
      /\ sent' = sent
  BY DEF Finish, After
<1>2. eng'[n] = o.engine /\ \A k \in Node : k # n => eng'[k] = eng[k]
  BY <1>1, OneEngine DEF AckInv, IInv
<1>3. delivered'[n] = c /\ \A k \in Node : k # n => delivered'[k] = delivered[k]
  BY <1>1 DEF AckInv, IInv, Shape
<1>4. net' \subseteq net \union o.reply
  BY <1>1, TransmitAdds
<1>5. /\ KeptBy(o.engine) = {} /\ Backed(o.engine.m_dedup, c)
      /\ \A a \in o.reply : a.source_id = n /\ Has(c, a.destination_id, a.message_id)
  BY DEF Vouches
<1>6. \A src, id : Has(delivered[n], src, id) => Has(c, src, id)
  <2>1. CASE o.out = {}
    BY <2>1 DEF After
  <2>2. CASE o.out # {}
    <3> DEFINE d == delivered[n]
               x == CHOOSE y \in o.out : TRUE
    <3>1. c = Append(d, x)
      BY <2>2 DEF After
    <3>2. d \in Seq(Envelope)
      BY DEF AckInv, IInv, Shape
    <3>3. /\ DOMAIN Append(d, x) = 1 .. Len(d) + 1 /\ DOMAIN d = 1 .. Len(d)
          /\ Len(d) \in Nat /\ \A i \in 1 .. Len(d) : Append(d, x)[i] = d[i]
      BY <3>2
    <3> HIDE DEF c, x
    <3>4. QED
      BY <3>1, <3>3 DEF Has
  <2>3. QED
    BY <2>1, <2>2
<1> HIDE DEF c
<1>7. \A k \in Node : KeptBy(eng'[k]) = {} /\ Backed(eng'[k].m_dedup, delivered'[k])
  BY <1>2, <1>3, <1>5 DEF AckInv
<1>8. ASSUME NEW a \in net', a.message_type = "ACK"
      PROVE  Has(delivered'[a.source_id], a.destination_id, a.message_id)
  <2>1. CASE a \in o.reply
    BY <1>3, <1>5, <2>1
  <2>2. CASE a \in net
    <3>1. Has(delivered[a.source_id], a.destination_id, a.message_id) /\ a.source_id \in Node
      BY <1>8, <2>2 DEF AckInv, IInv, Shape, Envelope
    <3>2. QED
      BY <1>3, <1>6, <3>1
  <2>3. QED
    BY <1>4, <2>1, <2>2
<1>9. QED
  BY <1>1, <1>7, <1>8 DEF AckInv

\* Steps that put no ACK on the wire and leave the inbox of every node alone.
LEMMA OthersVouch ==
  ASSUME AckInv, NEW n \in Node, NEW u \in EngineShape, eng' = [eng EXCEPT ![n] = u],
         KeptBy(u) \subseteq KeptBy(eng[n]), u.m_dedup = eng[n].m_dedup,
         delivered' = delivered,
         \A s \in sent' : s \in sent \/ s.sequence_num = 0,
         \A a \in net' : a \in net \/ a.message_type = "DATA"
  PROVE  /\ \A s \in sent' : s.sequence_num = 0
         /\ \A k \in Node : KeptBy(eng'[k]) = {} /\ Backed(eng'[k].m_dedup, delivered'[k])
         /\ \A a \in net' : a.message_type = "ACK" =>
                              Has(delivered'[a.source_id], a.destination_id, a.message_id)
<1>1. eng'[n] = u /\ \A k \in Node : k # n => eng'[k] = eng[k]
  BY OneEngine DEF AckInv, IInv
<1>2. QED
  BY <1>1 DEF AckInv

LEMMA AckStep ==
  ASSUME Unnumbered, AckInv, [Next]_vars
  PROVE  AckInv'
<1> DEFINE Goal ==
      /\ \A s \in sent' : s.sequence_num = 0
      /\ \A k \in Node : KeptBy(eng'[k]) = {} /\ Backed(eng'[k].m_dedup, delivered'[k])
      /\ \A a \in net' : a.message_type = "ACK" =>
                           Has(delivered'[a.source_id], a.destination_id, a.message_id)
<1>0. IInv /\ clock \in Nat
  BY DEF AckInv, IInv, Shape
<1>a. \A y : Genuine(y, sent) => y.message_type = "DATA" /\ y.sequence_num = 0
  BY DEF Unnumbered, AckInv, IInv, HistoryOK, Genuine, Copy, Alike
<1>1. ASSUME NEW m \in Workload, NEW accepted \in 0 .. FrameCount(m), Send(m, accepted)
      PROVE  Goal
  <2> DEFINE n == m.source_id
             e == eng[n]
             r == send(e, m, clock, accepted)
  <2>1. /\ m.message_id \notin Used /\ eng' = [eng EXCEPT ![n] = r.engine]
        /\ sent' = IF r.wire # {} THEN sent \union {r.stamped} ELSE sent
        /\ delivered' = delivered /\ Transmit(net, r.wire)
    BY <1>1 DEF Send
  <2>2. m \in Envelope /\ n \in Node /\ accepted \in Nat
    BY SystemAssumption DEF Envelope
  <2>3. e \in EngineShape /\ EngineOK(e, n, sent)
    BY <1>0, <2>2, InvParts
  <2>4. NewTo(e, m) /\ RetriedOnce(e.m_retry_manager)
    BY <2>1, <2>3 DEF NewTo, EngineOK, Used
  <2>5. m.message_type = "DATA" /\ m.sequence_num = 0 /\ ordering # "ORDERED"
    BY DEF Unnumbered
  <2> HIDE DEF e
  <2>6. r.stamped.sequence_num = 0
    <3> DEFINE s == [m EXCEPT !.sequence_num = @, !.fragment_index = 0,
                              !.fragment_count = 1,
                              !.total_payload_length = Len(m.payload)]
    <3>1. r.stamped = s
      BY <2>5 DEF send
    <3>2. s.sequence_num = 0
      BY <2>2, <2>5 DEF Envelope
    <3>3. QED
      BY <3>1, <3>2
  <2>7. /\ Alike(r.stamped, m) /\ \A y \in r.wire : Copy(y, r.stamped)
        /\ SameRest(r.engine, e) /\ r.engine \in EngineShape
    <3>1. /\ Alike(r.stamped, m) /\ \A y \in r.wire : Copy(y, r.stamped)
          /\ SameRest(r.engine, e)
          /\ Receded(e, r.engine) \/ Booked(e, r.engine, r.stamped)
      BY <1>0, <2>2, <2>3, <2>4, SendBooks
    <3>2. QED
      BY <3>1 DEF Receded, Booked
  <2> HIDE DEF r
  <2>8. \A y \in r.wire : y.message_type = "DATA"
    BY <2>5, <2>7 DEF Copy, Alike
  <2>9. KeptBy(r.engine) = KeptBy(e) /\ r.engine.m_dedup = e.m_dedup
    BY <2>7 DEF SameRest, KeptBy
  <2>10. \A a \in net' : a \in net \/ a.message_type = "DATA"
    BY <2>1, <2>8, TransmitAdds
  <2>11. \A s \in sent' : s \in sent \/ s.sequence_num = 0
    BY <2>1, <2>6
  <2>12. QED
    BY <2>1, <2>2, <2>7, <2>9, <2>10, <2>11, OthersVouch DEF e
<1>2. ASSUME NEW n \in Node, ReceiveStaged(n) PROVE FALSE
  <2>1. receive_staged(eng[n], n, hello[n], clock).res = "OK" /\ KeptBy(eng[n]) = {}
    BY <1>2 DEF ReceiveStaged, AckInv
  <2>2. \E u : receive_staged(eng[n], n, hello[n], clock) = Outcome("ERR_EMPTY", u, {}, {})
    BY <1>0, <2>1, NothingStaged
  <2>3. QED
    BY <2>1, <2>2 DEF Outcome
<1>3. ASSUME NEW n \in Node, NEW h \in Hellos(n), ReceiveTimeout(n, h) PROVE Goal
  <2> DEFINE o == receive_staged(eng[n], n, hello[n], clock)
  <2>1. o.res # "ERR_INVALID" /\ Finish(n, o, {}, h) /\ KeptBy(eng[n]) = {}
    BY <1>3 DEF ReceiveTimeout, AckInv
  <2>2. PICK u : /\ o = Outcome("ERR_EMPTY", u, {}, {})
                 /\ Receded(eng[n], u) /\ KeptBy(u) = {}
    BY <1>0, <2>1, NothingStaged
  <2>3. o.engine = u /\ o.out = {} /\ o.reply = {}
    BY <2>2 DEF Outcome
  <2> HIDE DEF o
  <2>4. u \in EngineShape /\ u.m_dedup = eng[n].m_dedup /\ Backed(eng[n].m_dedup, delivered[n])
    BY <2>2 DEF Receded, AckInv
  <2>5. Vouches(o, n, delivered[n])
    BY <2>2, <2>3, <2>4 DEF Vouches, After
  <2>6. QED
    BY <2>1, <2>3, <2>4, <2>5, FinishVouches
<1>4. ASSUME NEW n \in Node, NEW m \in net, NEW copies \in {0, 1}, NEW h \in Hellos(n),
             ReceiveWire(n, m, copies, h)
      PROVE  Goal
  <2> DEFINE o == receive_staged(eng[n], n, hello[n], clock)
             w == receive_wire(handle_fragment_ingest(o.engine, m, clock), n, clock)
             read == IF copies = 0 THEN {m} ELSE {}
             d == delivered[n]
  <2>1. /\ o.res # "ERR_INVALID" /\ Finish(n, w, read, h) /\ KeptBy(eng[n]) = {}
    BY <1>4 DEF ReceiveWire, AckInv
  <2>2. PICK u : /\ o = Outcome("ERR_EMPTY", u, {}, {})
                 /\ Receded(eng[n], u) /\ EngineOK(u, n, sent) /\ KeptBy(u) = {}
    BY <1>0, <2>1, NothingStaged
  <2>3. o.engine = u
    BY <2>2 DEF Outcome
  <2> HIDE DEF o
  <2>4. /\ m \in Envelope /\ d \in Seq(Envelope)
        /\ Genuine(m, sent) \/ MadeAck(m, sent)
    BY <1>0 DEF IInv, Shape, TrafficOK
  <2>5. u \in EngineShape /\ Backed(u.m_dedup, d)
    BY <2>2 DEF Receded, AckInv
  <2> DEFINE v == receive_wire(handle_fragment_ingest(u, m, clock), n, clock)
  <2>a. w = v
    BY <2>3
  <2>b. \/ v.out = {} /\ v.reply = {} /\ SameInbox(v.engine, u)
        \/ \E f \in EngineShape, x \in Envelope :
             /\ SameInbox(f, u) /\ EngineOK(f, n, sent)
             /\ Genuine(x, sent) /\ x.source_id = m.source_id /\ ~envelope_is_control(x)
             /\ v = handle_data_path(f, n, x, clock)
    BY <1>0, <2>2, <2>4, <2>5, WirePaths
  <2>7. w.engine \in EngineShape
    <3>1. UniqueIds(sent) /\ Traced(sent)
      BY <1>0, InvParts
    <3>2. (Genuine(m, sent) /\ Fresh(m, stale)) \/ MadeAck(m, sent)
      BY <1>0 DEF IInv, TrafficOK
    <3>3. m.source_id # n
      BY <1>4 DEF ReceiveWire
    <3>4. \E X : Arrives(X, m, n, sent) /\ Answered(v, u, n, sent, X)
      BY <1>0, <2>2, <2>4, <2>5, <3>1, <3>2, <3>3, WireOutcome
    <3> HIDE DEF v
    <3>5. QED
      BY <2>a, <3>4 DEF Answered, Passed
  <2> HIDE DEF w, v
  <2>6. \/ w.out = {} /\ w.reply = {} /\ SameInbox(w.engine, u)
        \/ \E f \in EngineShape, x \in Envelope :
             /\ SameInbox(f, u) /\ EngineOK(f, n, sent) /\ Genuine(x, sent)
             /\ w = handle_data_path(f, n, x, clock)
    BY <2>a, <2>b
  <2>8. Vouches(w, n, d)
    <3>1. CASE w.out = {} /\ w.reply = {} /\ SameInbox(w.engine, u)
      BY <2>2, <2>5, <3>1 DEF Vouches, After, SameInbox, KeptBy
    <3>2. ASSUME NEW f \in EngineShape, NEW x \in Envelope, SameInbox(f, u),
                 EngineOK(f, n, sent), Genuine(x, sent),
                 w = handle_data_path(f, n, x, clock)
          PROVE  Vouches(w, n, d)
      <4>1. KeptBy(f) = {} /\ Backed(f.m_dedup, d) /\ x.sequence_num = 0
        BY <1>a, <2>2, <2>5, <3>2 DEF SameInbox, KeptBy
      <4>2. QED
        BY <1>0, <2>4, <3>2, <4>1, DataVouches
    <3>3. QED
      BY <2>6, <3>1, <3>2
  <2>9. QED
    BY <2>1, <2>7, <2>8, FinishVouches
<1>5. ASSUME NEW n \in Node, NEW u, Receded(eng[n], u), eng' = [eng EXCEPT ![n] = u],
             delivered' = delivered, sent' = sent,
             \A a \in net' : a \in net \/ a.message_type = "DATA"
      PROVE  Goal
  <2>1. u \in EngineShape /\ KeptBy(u) \subseteq KeptBy(eng[n]) /\ u.m_dedup = eng[n].m_dedup
    BY <1>0, <1>5, InvParts, RecededPasses DEF Receded, Passed
  <2>2. QED
    BY <1>5, <2>1, OthersVouch
<1>6. ASSUME NEW n \in Node, PumpRetries(n) PROVE Goal
  <2> DEFINE r == pump_retries(eng[n], clock)
  <2>1. /\ Receded(eng[n], r.engine)
        /\ \A y \in r.due : \E x \in Retried(eng[n].m_retry_manager) : Copy(y, x)
    BY <1>0, InvParts, PumpOutcome
  <2>2. /\ eng' = [eng EXCEPT ![n] = r.engine] /\ Transmit(net, r.due)
        /\ delivered' = delivered /\ sent' = sent
    BY <1>6 DEF PumpRetries
  <2> HIDE DEF r
  <2>3. \A x \in Retried(eng[n].m_retry_manager) : x \in sent
    BY <1>0, InvParts DEF EngineOK
  <2>4. \A y \in r.due : y.message_type = "DATA"
    BY <1>a, <2>1, <2>3 DEF Genuine
  <2>5. \A a \in net' : a \in net \/ a.message_type = "DATA"
    BY <2>2, <2>4, TransmitAdds
  <2>6. QED
    BY <1>5, <2>1, <2>2, <2>5
<1>7. ASSUME NEW n \in Node, SweepAckTimeouts(n) PROVE Goal
  <2>1. Receded(eng[n], sweep_ack_timeouts(eng[n], clock).engine)
    BY <1>0, InvParts, SweepOutcome
  <2>2. /\ eng' = [eng EXCEPT ![n] = sweep_ack_timeouts(eng[n], clock).engine]
        /\ delivered' = delivered /\ sent' = sent /\ net' = net
    BY <1>7 DEF SweepAckTimeouts
  <2>3. QED
    BY <1>5, <2>1, <2>2
<1>8. ASSUME NEW n \in Node, Restart(n) PROVE Goal
  <2>1. /\ eng' = [eng EXCEPT ![n] = EngineInit] /\ sent' = sent
        /\ delivered' = [delivered EXCEPT ![n] = <<>>]
        /\ net' = {x \in net : ~Involves(x, n)}
    BY <1>8 DEF Restart
  <2>2. eng'[n] = EngineInit /\ \A k \in Node : k # n => eng'[k] = eng[k]
    BY <1>0, <2>1, EngineInitOK, OneEngine DEF IInv
  <2>3. delivered'[n] = <<>> /\ \A k \in Node : k # n => delivered'[k] = delivered[k]
    BY <1>0, <2>1 DEF IInv, Shape
  <2>4. KeptBy(EngineInit) = {} /\ \A src, id : ~DF!is_duplicate(EngineInit.m_dedup, src, id)
    BY EngineInitOK DEF KeptBy, EngineInit, DF!is_duplicate, DF!Valid, DF!init, DF!NoEntry
  <2>5. \A a \in net' : a \in net /\ a.source_id \in Node /\ a.source_id # n
    BY <1>0, <2>1 DEF Involves, IInv, Shape, Envelope
  <2>6. \A a \in net' : a.message_type = "ACK" =>
                          Has(delivered'[a.source_id], a.destination_id, a.message_id)
    BY <2>3, <2>5 DEF AckInv
  <2>7. \A k \in Node : KeptBy(eng'[k]) = {} /\ Backed(eng'[k].m_dedup, delivered'[k])
    BY <2>2, <2>3, <2>4 DEF AckInv, Backed
  <2>8. QED
    BY <2>1, <2>6, <2>7 DEF AckInv
<1>9. ASSUME UNCHANGED <<eng, delivered, sent, net>> PROVE Goal
  BY <1>9 DEF AckInv
<1>10. Goal
  BY <1>1, <1>2, <1>3, <1>4, <1>6, <1>7, <1>8, <1>9 DEF Next, Traffic, Tick, vars
<1>11. IInv'
  BY <1>0, StepOK
<1>12. QED
  BY <1>10, <1>11 DEF AckInv

\* On an unordered channel an ACK under way vouches for its message: the node that sent
\* it has given the message to its application, also when the ACK answers a copy that
\* the DuplicateFilter has dropped, when nodes restart and when the window of the filter
\* has turned over (handle_data_path(): a pair is recorded only with its delivery).
THEOREM AcksVouch == Unnumbered => (Spec => []AckMeansKept)
<1> SUFFICES ASSUME Unnumbered PROVE Spec => []AckMeansKept
  OBVIOUS
<1>1. Init => AckInv
  <2> SUFFICES ASSUME Init PROVE AckInv
    OBVIOUS
  <2>1. /\ \A k \in Node : eng[k] = EngineInit /\ delivered[k] = <<>>
        /\ sent = {} /\ net = {}
    BY DEF Init
  <2>2. KeptBy(EngineInit) = {} /\ \A src, id : ~DF!is_duplicate(EngineInit.m_dedup, src, id)
    BY EngineInitOK DEF KeptBy, EngineInit, DF!is_duplicate, DF!Valid, DF!init, DF!NoEntry
  <2>3. QED
    BY <2>1, <2>2, InitOK DEF AckInv, Backed
<1>2. AckInv /\ [Next]_vars => AckInv'
  BY AckStep
<1>3. AckInv => AckMeansKept
  BY DEF AckInv, AckMeansKept, Has
<1>4. QED
  BY <1>1, <1>2, <1>3, PTL DEF Spec


-----------------------------------------------------------------------------
(* The order of delivery.                                                  *)

(***************************************************************************)
(* Nothing expires, receive() polls once, the table of peers has room for  *)
(* all nodes and no sequence number wraps around.                          *)
(***************************************************************************)
Orderly ==
  /\ ~LongPoll
  /\ Cardinality(Node) <= ORDERING_PEER_COUNT
  /\ \A m \in Workload : m.sequence_num = 0 /\ m.expiry_time_us = 0
  /\ IsFiniteSet(Ids(Workload)) /\ Cardinality(Ids(Workload)) < SEQ_MAX

\* The gate of source src has passed the number q.
Below(o, src, q) == \E i \in OB!find_peer(o, src) : q < o.m_peers[i].next_expected_seq

\* An application's sequence d of messages has those of each source in order, apart
\* from those with ids in Z, which are of sessions that have ended.
InOrder(d, Z) ==
  \A j \in DOMAIN d : \A i \in 1 .. j - 1 :
    /\ d[i].source_id = d[j].source_id
    /\ d[i].sequence_num # 0 /\ d[j].sequence_num # 0
    /\ d[i].message_id \notin Z /\ d[j].message_id \notin Z
    => d[i].sequence_num < d[j].sequence_num

(***************************************************************************)
(* At most one message is staged, it comes after all that the application  *)
(* has been given, and the gate of a source has passed both.               *)
(***************************************************************************)
OrderOK(e, d, Z) ==
  /\ \A x, y \in e.m_held_pending : x = y
  /\ \A x \in e.m_held_pending :
       /\ x.sequence_num # 0 => Below(e.m_ordering, x.source_id, x.sequence_num)
       /\ \A i \in DOMAIN d :
            /\ d[i].source_id = x.source_id
            /\ d[i].sequence_num # 0 /\ x.sequence_num # 0
            /\ d[i].message_id \notin Z
            => d[i].sequence_num < x.sequence_num
  /\ \A i \in DOMAIN d :
       d[i].sequence_num # 0 /\ d[i].message_id \notin Z =>
         Below(e.m_ordering, d[i].source_id, d[i].sequence_num)
  /\ InOrder(d, Z)

\* Where nothing can expire, sweep_expired_holds() does nothing.
LEMMA SweepIdle ==
  ASSUME NEW o \in OB!Buffer, \A x \in Holding(o) : x.expiry_time_us = 0, NEW now, NEW cap
  PROVE  OB!sweep_expired_holds(o, now, cap).buffer = o
<1> DEFINE N == ORDERING_HOLD_COUNT
           s == [freed |-> <<>>, buffer |-> o]
<1>0. N \in Nat /\ N > 0
  BY CapacityAssumption
<1>1. PICK g : /\ g[0] = s
               /\ \A k \in OB!HoldIndex : g[k] = OB!SweepHold(g[k - 1], k, now, cap)
               /\ OB!sweep_expired_holds(o, now, cap) = g[N]
  BY SweepLoop
<1>2. s.buffer = o
  OBVIOUS
<1> HIDE DEF s
<1>3. ASSUME NEW k PROVE OB!SweepHold(s, k, now, cap) = s
  <2>1. OB!ExpiredHolds(o, now) = {}
    BY DEF OB!ExpiredHolds, Holding, OB!timestamp_expired
  <2>2. QED
    BY <1>2, <2>1 DEF OB!SweepHold
<1> DEFINE Bad == {k \in 0 .. N : g[k] # s}
<1>4. Bad = {}
  <2> SUFFICES ASSUME Bad # {} PROVE FALSE
    OBVIOUS
  <2> DEFINE m == Min(Bad)
  <2>1. m \in Bad /\ \A x \in Bad : m <= x
    <3>1. Bad \subseteq Nat
      BY <1>0
    <3> HIDE DEF Bad
    <3>2. QED
      BY <3>1, MinIsLeast
  <2>2. m \in 0 .. N /\ g[m] # s
    BY <2>1
  <2> HIDE DEF m
  <2>3. m # 0
    BY <1>1, <2>2
  <2>4. m - 1 \in 0 .. N /\ m - 1 \notin Bad /\ m \in OB!HoldIndex
    BY <1>0, <2>1, <2>2, <2>3 DEF OB!HoldIndex
  <2>5. g[m - 1] = s
    BY <2>4
  <2>6. QED
    BY <1>1, <1>3, <2>2, <2>4, <2>5
<1>5. g[N] = s
  BY <1>0, <1>4
<1>6. QED
  BY <1>1, <1>2, <1>5

\* A gate is moved to v: the others stay.
LEMMA MoveBelow ==
  ASSUME NEW o \in OB!Buffer, PeersOK(o), NEW n, NEW i \in OB!find_peer(o, n),
         NEW v \in 1 .. SEQ_MAX
  PROVE  LET p == [o EXCEPT !.m_peers[i].next_expected_seq = v]
         IN  /\ \A src, q : src # n => (Below(o, src, q) <=> Below(p, src, q))
             /\ \A q : Below(p, n, q) <=> q < v
             /\ \A q : Below(o, n, q) <=> q < o.m_peers[i].next_expected_seq
<1> DEFINE p == [o EXCEPT !.m_peers[i].next_expected_seq = v]
           s == o.m_peers[i]
           t == [s EXCEPT !.next_expected_seq = v]
<1>1. i \in OB!PeerIndex /\ s.active /\ s.src = n
  BY DEF OB!find_peer
<1>2. s \in [active : {TRUE}, src : Node, next_expected_seq : 1 .. SEQ_MAX]
  <2>1. s \in OB!PeerState
    BY <1>1, SlotFacts
  <2>2. s # OB!NoPeer
    BY <1>1 DEF OB!NoPeer
  <2>3. QED
    BY <2>1, <2>2 DEF OB!PeerState
<1>3. t.next_expected_seq = v
  BY <1>2
<1>4. p.m_peers = [o.m_peers EXCEPT ![i] = t]
  BY DEF OB!Buffer
<1> HIDE DEF t
<1>5. p.m_peers[i] = t /\ \A j \in OB!PeerIndex \ {i} : p.m_peers[j] = o.m_peers[j]
  BY <1>1, <1>4 DEF OB!Buffer
<1>6. Shrunk(o, p)
  BY MoveGate
<1> HIDE DEF p
<1>7. \A src : OB!find_peer(p, src) = OB!find_peer(o, src)
  BY <1>6, ShrunkFacts
<1>8. OB!find_peer(o, n) = {i}
  BY GateFacts
<1>9. ASSUME NEW src, NEW q, src # n PROVE Below(o, src, q) <=> Below(p, src, q)
  <2>1. \A j \in OB!find_peer(o, src) : p.m_peers[j] = o.m_peers[j]
    BY <1>1, <1>5, <1>9 DEF OB!find_peer
  <2>2. QED
    BY <1>7, <2>1 DEF Below
<1>10. \A q : Below(p, n, q) <=> q < v
  BY <1>3, <1>5, <1>7, <1>8 DEF Below
<1>11. \A q : Below(o, n, q) <=> q < s.next_expected_seq
  BY <1>8 DEF Below
<1>12. QED
  BY <1>9, <1>10, <1>11 DEF p

\* With as many peer slots as nodes, none is ever taken from another source.
LEMMA CreateBelow ==
  ASSUME Orderly, NEW o \in OB!Buffer, PeersOK(o), NEW n \in Node
  PROVE  LET p == OB!get_or_create_peer(o, n)
         IN  /\ \A src, q : Below(o, src, q) => Below(p, src, q)
             /\ \A src : \A q \in Nat \ {0} : Below(p, src, q) => Below(o, src, q)
<1> DEFINE p == OB!get_or_create_peer(o, n)
           i == OB!PeerSlotFor(o, n)
           unused == {j \in OB!PeerIndex : ~o.m_peers[j].active}
           s == [active |-> TRUE, src |-> n, next_expected_seq |-> 1]
<1>1. CASE OB!find_peer(o, n) # {}
  BY <1>1 DEF OB!get_or_create_peer
<1>2. CASE OB!find_peer(o, n) = {}
  <2>1. unused # {}
    <3> SUFFICES ASSUME unused = {} PROVE FALSE
      OBVIOUS
    <3> DEFINE f == [j \in OB!PeerIndex |-> o.m_peers[j].src]
               T == Node \ {n}
    <3>1. \A j \in OB!PeerIndex : o.m_peers[j].active /\ o.m_peers[j].src \in T
      BY <1>2, SlotFacts DEF OB!find_peer
    <3>2. f \in [OB!PeerIndex -> T]
      BY <3>1
    <3>3. IsFiniteSet(T) /\ Cardinality(T) < Cardinality(OB!PeerIndex)
      <4>1. IsFiniteSet(Node) /\ Cardinality(Node) \in Nat
        BY SystemAssumption, FS_CardinalityType
      <4>2. IsFiniteSet(T) /\ Cardinality(T) = Cardinality(Node) - 1
        BY <4>1, FS_RemoveElement
      <4>3. ORDERING_PEER_COUNT \in Nat /\ Cardinality(OB!PeerIndex) = ORDERING_PEER_COUNT
        BY CapacityAssumption, FS_Interval DEF OB!PeerIndex
      <4>4. QED
        BY <4>1, <4>2, <4>3 DEF Orderly
    <3> HIDE DEF f, T
    <3>4. PICK j, k \in OB!PeerIndex : j # k /\ f[j] = f[k]
      BY <3>2, <3>3, TableIndices, FS_PigeonHole
    <3>5. o.m_peers[j].src = o.m_peers[k].src
      BY <3>4 DEF f
    <3>6. QED
      BY <3>1, <3>4, <3>5 DEF PeersOK
  <2>2. i = OB!Min(unused)
    BY <1>2, <2>1 DEF OB!PeerSlotFor
  <2>3. i \in unused
    <3>1. unused \subseteq Nat
      BY TableIndices
    <3> HIDE DEF unused, i
    <3>2. QED
      BY <2>1, <2>2, <3>1, FirstIsOne
  <2>4. p = [o EXCEPT !.m_peers[i] = s]
    BY <1>2 DEF OB!get_or_create_peer
  <2> HIDE DEF i, s
  <2>5. p.m_peers = [o.m_peers EXCEPT ![i] = s]
    BY <2>4 DEF OB!Buffer
  <2>6. \A j \in OB!PeerIndex \ {i} : p.m_peers[j] = o.m_peers[j]
    BY <2>3, <2>5 DEF OB!Buffer
  <2> HIDE DEF p
  <2>7. ASSUME NEW src, NEW j \in OB!find_peer(o, src)
        PROVE  j \in OB!find_peer(p, src) /\ p.m_peers[j] = o.m_peers[j]
    <3>1. j \in OB!PeerIndex \ {i}
      BY <2>3 DEF OB!find_peer
    <3>2. QED
      BY <2>6, <3>1 DEF OB!find_peer
  <2>8. /\ p.m_peers[i] = s /\ s.src = n /\ s.next_expected_seq = 1
    BY <2>3, <2>5 DEF OB!Buffer, s
  <2>9. ASSUME NEW src, NEW q \in Nat \ {0}, Below(p, src, q) PROVE Below(o, src, q)
    <3>1. PICK j \in OB!find_peer(p, src) : q < p.m_peers[j].next_expected_seq
      BY <2>9 DEF Below
    <3>2. j # i
      BY <2>8, <3>1
    <3>3. j \in OB!find_peer(o, src) /\ p.m_peers[j] = o.m_peers[j]
      BY <2>6, <3>1, <3>2 DEF OB!find_peer
    <3>4. QED
      BY <3>1, <3>3 DEF Below
  <2>10. QED
    BY <2>7, <2>9 DEF Below, p
<1>3. QED
  BY <1>1, <1>2

\* A message that passes the gate comes after all that have passed it before.
LEMMA IngestOrders ==
  ASSUME Orderly, NEW o \in OB!Buffer, PeersOK(o), NEW x \in Envelope,
         x.sequence_num < SEQ_MAX, NEW r, r = OB!ingest(o, x)
  PROVE  /\ \A src : \A q \in Nat : Below(o, src, q) => Below(r.buffer, src, q)
         /\ r.res = "OK" /\ OB!Ordered(x) =>
              /\ Below(r.buffer, x.source_id, x.sequence_num)
              /\ \A q : Below(o, x.source_id, q) => q < x.sequence_num
         /\ \A src : \A q \in Nat \ {0} :
              Below(r.buffer, src, q) =>
                \/ Below(o, src, q)
                \/ src = x.source_id /\ q = x.sequence_num /\ r.res = "OK"
<1> DEFINE n == x.source_id
           i == OB!PeerSlotFor(o, n)
           p == OB!get_or_create_peer(o, n)
           e == p.m_peers[i].next_expected_seq
           q1 == [p EXCEPT !.m_peers[i].next_expected_seq = OB!advance_next_expected(@)]
<1>1. CASE ~OB!Ordered(x)
  <2>1. r.buffer = o
    BY <1>1 DEF OB!ingest
  <2>2. QED
    BY <1>1, <2>1
<1>2. CASE OB!Ordered(x)
  <2>1. n \in Node /\ x.sequence_num \in Nat /\ SEQ_MAX \in Nat
    BY CapacityAssumption DEF Envelope
  <2>2. p \in OB!Buffer /\ PeersOK(p) /\ p.m_hold = o.m_hold /\ i \in OB!find_peer(p, n)
    BY <2>1, CreatePeer
  <2>3. /\ \A src, q : Below(o, src, q) => Below(p, src, q)
        /\ \A src : \A q \in Nat \ {0} : Below(p, src, q) => Below(o, src, q)
    BY <2>1, CreateBelow
  <2>4. r = CASE x.sequence_num < e -> [res |-> "ERR_AGAIN", buffer |-> p]
              [] x.sequence_num = e -> [res |-> "OK", buffer |-> q1]
              [] x.sequence_num > e -> OB!hold(p, x)
    BY <1>2 DEF OB!ingest
  <2>5. q1 = [p EXCEPT !.m_peers[i].next_expected_seq = OB!advance_next_expected(e)]
    OBVIOUS
  <2> HIDE DEF p, i, q1
  <2>6. e \in 1 .. SEQ_MAX
    BY <2>2, GateFacts
  <2> HIDE DEF e
  <2>7. CASE x.sequence_num < e
    <3>1. r = [res |-> "ERR_AGAIN", buffer |-> p]
      BY <2>1, <2>4, <2>6, <2>7
    <3>2. r.res # "OK" /\ r.buffer = p
      BY <3>1
    <3>3. QED
      BY <2>3, <3>2
  <2>8. CASE x.sequence_num = e
    <3>1. r = [res |-> "OK", buffer |-> q1]
      BY <2>1, <2>4, <2>6, <2>8
    <3>2. OB!advance_next_expected(e) = e + 1 /\ e + 1 \in 1 .. SEQ_MAX
      BY <2>1, <2>6, <2>8 DEF OB!advance_next_expected
    <3>3. /\ \A src, q : src # n => (Below(p, src, q) <=> Below(q1, src, q))
          /\ \A q : Below(q1, n, q) <=> q < e + 1
          /\ \A q : Below(p, n, q) <=> q < e
      BY <2>2, <2>5, <3>2, MoveBelow DEF e
    <3>4. r.res = "OK" /\ r.buffer = q1
      BY <3>1
    <3>5. ASSUME NEW src, NEW q \in Nat, Below(p, src, q) PROVE Below(q1, src, q)
      <4>1. CASE src # n
        BY <3>3, <3>5, <4>1
      <4>2. CASE src = n
        <5>1. q < e
          BY <3>3, <3>5, <4>2
        <5>2. q < e + 1
          BY <2>6, <5>1
        <5>3. QED
          BY <3>3, <4>2, <5>2
      <4>3. QED
        BY <4>1, <4>2
    <3>6. Below(q1, n, x.sequence_num)
      BY <2>1, <2>8, <3>3
    <3>7. \A q : Below(o, n, q) => q < x.sequence_num
      BY <2>3, <2>8, <3>3
    <3>8. ASSUME NEW src, NEW q \in Nat \ {0}, Below(q1, src, q)
          PROVE  Below(o, src, q) \/ (src = n /\ q = x.sequence_num)
      <4>1. CASE src # n
        BY <2>3, <3>3, <3>8, <4>1
      <4>2. CASE src = n /\ q < e
        BY <2>3, <3>3, <4>2
      <4>3. CASE src = n /\ ~(q < e)
        <5>1. q < e + 1
          BY <3>3, <3>8, <4>3
        <5>2. QED
          BY <2>6, <2>8, <4>3, <5>1
      <4>4. QED
        BY <4>1, <4>2, <4>3
    <3>9. QED
      BY <2>3, <3>4, <3>5, <3>6, <3>7, <3>8
  <2>9. CASE x.sequence_num > e
    <3>1. r = OB!hold(p, x)
      BY <2>1, <2>4, <2>6, <2>9
    <3>2. r.res # "OK"
      BY <2>2, <3>1, HoldKeeps
    <3>3. r.buffer.m_peers = p.m_peers
      <4>1. \A h, t : [p EXCEPT !.m_hold[h] = t].m_peers = p.m_peers
        BY <2>2 DEF OB!Buffer
      <4>2. QED
        BY <3>1, <4>1 DEF OB!hold
    <3>4. \A src, q : Below(r.buffer, src, q) <=> Below(p, src, q)
      BY <3>3 DEF Below, OB!find_peer
    <3>5. QED
      BY <2>3, <3>2, <3>4
  <2>10. QED
    BY <2>1, <2>6, <2>7, <2>8, <2>9
<1>3. QED
  BY <1>1, <1>2

\* So does a message that is released.
LEMMA ReleaseOrders ==
  ASSUME NEW o \in OB!Buffer, PeersOK(o), NEW n, NEW r, r = OB!try_release_next(o, n),
         \A x \in Holding(o) : x.sequence_num < SEQ_MAX
  PROVE  /\ \A src : \A q \in Nat : Below(o, src, q) => Below(r.buffer, src, q)
         /\ r.res = "OK" =>
              \E y \in Holding(o) :
                /\ r.out = {y} /\ y.source_id = n /\ y.sequence_num # 0
                /\ Below(r.buffer, n, y.sequence_num)
                /\ \A q : Below(o, n, q) => q < y.sequence_num
                /\ \A src : \A q \in Nat \ {0} :
                     Below(r.buffer, src, q) =>
                       Below(o, src, q) \/ (src = n /\ q = y.sequence_num)
<1> DEFINE h == OB!Min(OB!ReleasableFrom(o, n))
           i == OB!Min(OB!find_peer(o, n))
           e == o.m_peers[i].next_expected_seq
           u == OB!Unhold(o, {h})
           q1 == [u EXCEPT !.m_peers[i].next_expected_seq = OB!advance_next_expected(@)]
           y == o.m_hold[h].env
<1>1. CASE OB!ReleasableFrom(o, n) = {}
  <2>1. r = [res |-> "ERR_AGAIN", out |-> {}, buffer |-> o]
    BY <1>1 DEF OB!try_release_next
  <2>2. QED
    BY <2>1
<1>2. CASE OB!ReleasableFrom(o, n) # {}
  <2>1. r = [res |-> "OK", out |-> {y}, buffer |-> q1]
    BY <1>2 DEF OB!try_release_next
  <2>2. h \in OB!ReleasableFrom(o, n)
    <3>1. OB!ReleasableFrom(o, n) \subseteq Nat
      BY TableIndices DEF OB!ReleasableFrom, OB!HeldAs, OB!HeldFrom, OB!Held
    <3>2. QED
      BY <1>2, <3>1, FirstIsOne
  <2>3. i \in OB!find_peer(o, n) /\ e \in 1 .. SEQ_MAX
    <3>1. OB!find_peer(o, n) # {}
      BY <1>2 DEF OB!ReleasableFrom
    <3>2. QED
      BY <3>1, GateFacts
  <2> HIDE DEF h, i
  <2>4. h \in OB!Held(o) /\ y.source_id = n /\ y.sequence_num = e
    <3>1. PICK j \in OB!find_peer(o, n) : h \in OB!HeldAs(o, n, o.m_peers[j].next_expected_seq)
      BY <2>2 DEF OB!ReleasableFrom
    <3>2. j = i
      BY <2>3, <3>1, GateFacts
    <3>3. QED
      BY <3>1, <3>2 DEF OB!HeldAs, OB!HeldFrom, OB!Held
  <2>5. y \in Holding(o)
    BY <2>4 DEF Holding
  <2>6. /\ Shrunk(o, u) /\ u.m_peers = o.m_peers
    BY UnholdShrinks
  <2>7. u \in OB!Buffer /\ i \in OB!find_peer(u, n) /\ PeersOK(u)
    BY <2>3, <2>6, ShrunkFacts DEF Shrunk, OB!find_peer
  <2>8. q1 = [u EXCEPT !.m_peers[i].next_expected_seq = OB!advance_next_expected(e)]
    BY <2>6
  <2>9. u.m_peers[i].next_expected_seq = e
    BY <2>6
  <2>10. \A src, q : Below(u, src, q) <=> Below(o, src, q)
    BY <2>6 DEF Below, OB!find_peer
  <2> HIDE DEF u, q1, y, e
  <2>11. e < SEQ_MAX /\ SEQ_MAX \in Nat
    BY <2>4, <2>5, CapacityAssumption
  <2>12. OB!advance_next_expected(e) = e + 1 /\ e + 1 \in 1 .. SEQ_MAX
    BY <2>3, <2>11 DEF OB!advance_next_expected
  <2>13. /\ \A src, q : src # n => (Below(u, src, q) <=> Below(q1, src, q))
         /\ \A q : Below(q1, n, q) <=> q < e + 1
         /\ \A q : Below(u, n, q) <=> q < e
    BY <2>7, <2>8, <2>9, <2>12, MoveBelow
  <2>14. r.res = "OK" /\ r.buffer = q1 /\ r.out = {y}
    BY <2>1
  <2>15. ASSUME NEW src, NEW q \in Nat, Below(o, src, q) PROVE Below(q1, src, q)
    <3>1. CASE src # n
      BY <2>10, <2>13, <2>15, <3>1
    <3>2. CASE src = n
      <4>1. q < e
        BY <2>10, <2>13, <2>15, <3>2
      <4>2. q < e + 1
        BY <2>3, <4>1
      <4>3. QED
        BY <2>13, <3>2, <4>2
    <3>3. QED
      BY <3>1, <3>2
  <2>16. e \in Nat /\ e # 0 /\ e < e + 1
    BY <2>3
  <2>17. Below(q1, n, y.sequence_num) /\ y.sequence_num # 0
    BY <2>4, <2>13, <2>16
  <2>18. \A q : Below(o, n, q) => q < y.sequence_num
    BY <2>4, <2>10, <2>13
  <2>19. ASSUME NEW src, NEW q \in Nat \ {0}, Below(q1, src, q)
         PROVE  Below(o, src, q) \/ (src = n /\ q = y.sequence_num)
    <3>1. CASE src # n
      BY <2>10, <2>13, <2>19, <3>1
    <3>2. CASE src = n /\ q < e
      BY <2>10, <2>13, <3>2
    <3>3. CASE src = n /\ ~(q < e)
      <4>1. q < e + 1
        BY <2>13, <2>19, <3>3
      <4>2. QED
        BY <2>4, <2>16, <3>3, <4>1
    <3>4. QED
      BY <3>1, <3>2, <3>3
  <2>20. QED
    BY <2>4, <2>5, <2>14, <2>15, <2>17, <2>18, <2>19
<1>3. QED
  BY <1>1, <1>2

\* reset_peer() moves only the gate of its own source.
LEMMA ResetOrders ==
  ASSUME NEW o \in OB!Buffer, PeersOK(o), NEW n, NEW p, p = OB!reset_peer(o, n)
  PROVE  \A src, q : src # n => (Below(o, src, q) <=> Below(p, src, q))
<1> DEFINE u == OB!Unhold(o, OB!HeldFrom(o, n))
           i == OB!Min(OB!find_peer(o, n))
<1>1. CASE OB!find_peer(o, n) = {}
  BY <1>1 DEF OB!reset_peer
<1>2. CASE OB!find_peer(o, n) # {}
  <2>1. p = [u EXCEPT !.m_peers[i].next_expected_seq = 1]
    BY <1>2 DEF OB!reset_peer
  <2>2. i \in OB!find_peer(o, n)
    BY <1>2, GateFacts
  <2>3. Shrunk(o, u) /\ u.m_peers = o.m_peers
    BY UnholdShrinks
  <2> HIDE DEF u, i
  <2>4. u \in OB!Buffer /\ i \in OB!find_peer(u, n) /\ PeersOK(u)
    BY <2>2, <2>3, ShrunkFacts DEF OB!find_peer
  <2>5. 1 \in 1 .. SEQ_MAX
    BY CapacityAssumption
  <2>6. \A src, q : src # n => (Below(u, src, q) <=> Below(p, src, q))
    BY <2>1, <2>4, <2>5, MoveBelow
  <2>7. \A src, q : Below(u, src, q) <=> Below(o, src, q)
    BY <2>3 DEF Below, OB!find_peer
  <2>8. QED
    BY <2>6, <2>7
<1>3. QED
  BY <1>1, <1>2

\* Numbers that an engine has given to its destinations.
NumbersUpTo(e, c) == \A d \in DOMAIN e.m_seq_state : e.m_seq_state[d] <= c

LEMMA ResetPeerOrders ==
  ASSUME NEW e \in EngineShape, PeersOK(e.m_ordering), NEW p, NEW c \in Nat \ {0},
         NumbersUpTo(e, c), NEW u, u = reset_peer_ordering(e, p)
  PROVE  /\ \A src, q : src # p => (Below(e.m_ordering, src, q) <=> Below(u.m_ordering, src, q))
         /\ NumbersUpTo(u, c)
<1> DEFINE s == e.m_seq_state
           t == [d \in DOMAIN s |-> IF d = p THEN 1 ELSE s[d]]
<1>1. u.m_ordering = OB!reset_peer(e.m_ordering, p) /\ u.m_seq_state = t
  BY DEF reset_peer_ordering, EngineShape
<1>2. e.m_ordering \in OB!Buffer
  BY EngineFields
<1>3. \A src, q : src # p => (Below(e.m_ordering, src, q) <=> Below(u.m_ordering, src, q))
  BY <1>1, <1>2, ResetOrders
<1>4. NumbersUpTo(u, c)
  BY <1>1 DEF NumbersUpTo
<1>5. QED
  BY <1>3, <1>4

\* The whole drain moves only the gates of the nodes in the queue.
LEMMA DrainOrders ==
  ASSUME NEW e \in EngineShape, NEW n, NEW S, EngineOK(e, n, S), NEW H, IsFiniteSet(H),
         NEW c \in Nat \ {0}, NumbersUpTo(e, c)
  PROVE  LET u == drain_hello_reconnects(e, H)
         IN  /\ \A src, q : src \notin H =>
                  (Below(e.m_ordering, src, q) <=> Below(u.m_ordering, src, q))
             /\ NumbersUpTo(u, c)
<1> DEFINE N == Cardinality(H)
           queue == SetToSeq(H)
<1>0. N \in Nat /\ \A k \in 1 .. N : queue[k] \in H
  BY QueueHasAll
<1>1. PICK g : /\ g[0] = e
               /\ \A k \in 1 .. N : g[k] = reset_peer_ordering(g[k - 1], queue[k])
               /\ drain_hello_reconnects(e, H) = g[N]
  BY DrainLoop
<1> HIDE DEF queue
<1> DEFINE Done(k) ==
             /\ Receded(e, g[k]) /\ NumbersUpTo(g[k], c)
             /\ \A src, q : src \notin H =>
                  (Below(e.m_ordering, src, q) <=> Below(g[k].m_ordering, src, q))
           Bad == {k \in 0 .. N : ~Done(k)}
<1>2. Done(0)
  BY <1>1, RecededTwice
<1>3. ASSUME NEW m \in 1 .. N, Done(m - 1) PROVE Done(m)
  <2> DEFINE a == g[m - 1]
             b == g[m]
  <2>1. b = reset_peer_ordering(a, queue[m]) /\ Receded(e, a) /\ a \in EngineShape
    BY <1>1, <1>3 DEF Receded
  <2>2. EngineOK(a, n, S) /\ PeersOK(a.m_ordering)
    BY <2>1, RecededOK DEF EngineOK
  <2>3. /\ NumbersUpTo(a, c)
        /\ \A src, q : src \notin H =>
             (Below(e.m_ordering, src, q) <=> Below(a.m_ordering, src, q))
    BY <1>3
  <2> HIDE DEF a, b
  <2>4. Receded(a, b)
    BY <2>1, <2>2, ResetPeerOrdering
  <2>5. Receded(e, b)
    BY <2>1, <2>4, RecededTwice
  <2>6. /\ NumbersUpTo(b, c)
        /\ \A src, q : src # queue[m] =>
             (Below(a.m_ordering, src, q) <=> Below(b.m_ordering, src, q))
    BY <2>1, <2>2, <2>3, ResetPeerOrders
  <2>7. \A src, q : src \notin H =>
          (Below(e.m_ordering, src, q) <=> Below(b.m_ordering, src, q))
    BY <1>0, <2>3, <2>6
  <2>8. QED
    BY <2>3, <2>5, <2>6, <2>7 DEF b
<1> HIDE DEF Done
<1>4. Bad = {}
  <2> SUFFICES ASSUME Bad # {} PROVE FALSE
    OBVIOUS
  <2> DEFINE m == Min(Bad)
  <2>1. m \in Bad /\ \A x \in Bad : m <= x
    <3>1. Bad \subseteq Nat
      BY <1>0
    <3> HIDE DEF Bad
    <3>2. QED
      BY <3>1, MinIsLeast
  <2>2. m \in 0 .. N /\ ~Done(m)
    BY <2>1
  <2> HIDE DEF m
  <2>3. m # 0
    BY <1>2, <2>2
  <2>4. m - 1 \in 0 .. N /\ m - 1 \notin Bad /\ m \in 1 .. N
    BY <1>0, <2>1, <2>2, <2>3
  <2>5. Done(m - 1)
    BY <2>4
  <2>6. QED
    BY <1>3, <2>2, <2>4, <2>5
<1>5. Done(N)
  BY <1>0, <1>4
<1>6. QED
  BY <1>1, <1>5 DEF Done

\* Numbers that no gate has to wrap around for, of messages that do not expire.
Plain(X) == \A x \in X : x.sequence_num < SEQ_MAX /\ x.expiry_time_us = 0

\* The next message of a source is staged behind what the application has.
LEMMA StageOrders ==
  ASSUME NEW e \in EngineShape, PeersOK(e.m_ordering), e.m_held_pending = {},
         Plain(Holding(e.m_ordering)), NEW d \in Seq(Envelope), NEW Z, OrderOK(e, d, Z),
         NEW src
  PROVE  LET u == StageNext(e, src)
         IN  OrderOK(u, d, Z) /\ u.m_seq_state = e.m_seq_state
<1> DEFINE u == StageNext(e, src)
           o == e.m_ordering
           r == OB!try_release_next(o, src)
<1>1. o \in OB!Buffer
  BY EngineFields
<1>2. CASE r.res # "OK"
  <2>1. u = e
    BY <1>2 DEF StageNext
  <2>2. QED
    BY <2>1
<1>3. CASE r.res = "OK"
  <2>1. \A s : \A q \in Nat : Below(o, s, q) => Below(r.buffer, s, q)
    BY <1>1, ReleaseOrders DEF Plain
  <2>2. \E y \in Holding(o) :
                /\ r.out = {y} /\ y.source_id = src /\ y.sequence_num # 0
                /\ Below(r.buffer, src, y.sequence_num)
                /\ \A q : Below(o, src, q) => q < y.sequence_num
    BY <1>1, <1>3, ReleaseOrders DEF Plain
  <2>3. u = [e EXCEPT !.m_ordering = r.buffer, !.m_held_pending = r.out]
    BY <1>3 DEF StageNext
  <2> HIDE DEF r
  <2>4. u.m_ordering = r.buffer /\ u.m_held_pending = r.out /\ u.m_seq_state = e.m_seq_state
    BY <2>3 DEF EngineShape
  <2> HIDE DEF u
  <2>5. PICK y : /\ r.out = {y} /\ y.source_id = src
                 /\ Below(r.buffer, src, y.sequence_num)
                 /\ \A q : Below(o, src, q) => q < y.sequence_num
    BY <2>2
  <2>6. \A i \in DOMAIN d : d[i].sequence_num \in Nat
    <3>1. \A i \in DOMAIN d : d[i] \in Envelope
      OBVIOUS
    <3>2. QED
      BY <3>1 DEF Envelope
  <2>7. \A i \in DOMAIN d : d[i].sequence_num # 0 /\ d[i].message_id \notin Z =>
                              Below(o, d[i].source_id, d[i].sequence_num)
    BY DEF OrderOK
  <2>8. \A i \in DOMAIN d : d[i].sequence_num # 0 /\ d[i].message_id \notin Z =>
                              Below(u.m_ordering, d[i].source_id, d[i].sequence_num)
    BY <2>1, <2>4, <2>6, <2>7
  <2>9. \A i \in DOMAIN d :
          d[i].source_id = src /\ d[i].sequence_num # 0 /\ d[i].message_id \notin Z =>
            d[i].sequence_num < y.sequence_num
    BY <2>5, <2>7
  <2>10. InOrder(d, Z)
    BY DEF OrderOK
  <2>11. OrderOK(u, d, Z)
    BY <2>4, <2>5, <2>8, <2>9, <2>10 DEF OrderOK
  <2>12. QED
    BY <2>4, <2>11 DEF u
<1>4. QED
  BY <1>2, <1>3

\* One more message is given to the application.
LEMMA OrderAfter ==
  ASSUME NEW e, NEW d \in Seq(Envelope), NEW Z, OrderOK(e, d, Z), e.m_held_pending = {},
         NEW x \in Envelope,
         x.sequence_num # 0 =>
           /\ Below(e.m_ordering, x.source_id, x.sequence_num)
           /\ \A i \in DOMAIN d : /\ d[i].source_id = x.source_id
                                  /\ d[i].sequence_num # 0 /\ d[i].message_id \notin Z
                                  => d[i].sequence_num < x.sequence_num
  PROVE  OrderOK(e, Append(d, x), Z)
<1> DEFINE c == Append(d, x)
<1>1. /\ DOMAIN c = 1 .. Len(d) + 1 /\ DOMAIN d = 1 .. Len(d) /\ Len(d) \in Nat
      /\ c[Len(d) + 1] = x
      /\ \A i \in 1 .. Len(d) : c[i] = d[i]
  OBVIOUS
<1> HIDE DEF c
<1>2. \A i \in DOMAIN c : c[i].sequence_num # 0 /\ c[i].message_id \notin Z =>
                            Below(e.m_ordering, c[i].source_id, c[i].sequence_num)
  <2> TAKE i \in DOMAIN c
  <2>1. CASE i = Len(d) + 1
    BY <1>1, <2>1
  <2>2. CASE i # Len(d) + 1
    BY <1>1, <2>2 DEF OrderOK
  <2>3. QED
    BY <2>1, <2>2
<1>3. ASSUME NEW j \in DOMAIN c, NEW i \in 1 .. j - 1,
             c[i].source_id = c[j].source_id, c[i].sequence_num # 0, c[j].sequence_num # 0,
             c[i].message_id \notin Z, c[j].message_id \notin Z
      PROVE  c[i].sequence_num < c[j].sequence_num
  <2>1. i \in 1 .. Len(d) /\ c[i] = d[i]
    BY <1>1
  <2>2. CASE j = Len(d) + 1
    BY <1>1, <1>3, <2>1, <2>2
  <2>3. CASE j # Len(d) + 1
    <3>1. j \in 1 .. Len(d) /\ c[j] = d[j]
      BY <1>1, <2>3
    <3>2. QED
      BY <1>1, <1>3, <2>1, <3>1 DEF OrderOK, InOrder
  <2>4. QED
    BY <2>2, <2>3
<1>4. InOrder(c, Z)
  BY <1>3 DEF InOrder
<1>5. QED
  BY <1>2, <1>4 DEF OrderOK, c

\* The data path hands out a message in its turn, and stages the next one.
LEMMA DataOrders ==
  ASSUME Orderly, NEW e \in EngineShape, NEW n \in Node, NEW S, EngineOK(e, n, S),
         Plain(Holding(e.m_ordering)), e.m_held_pending = {},
         NEW x \in Envelope, ~envelope_is_control(x), Plain({x}),
         NEW d \in Seq(Envelope), NEW Z, OrderOK(e, d, Z), NEW now \in Nat
  PROVE  LET o == handle_data_path(e, n, x, now)
         IN  /\ OrderOK(o.engine, After(d, o.out), Z)
             /\ o.engine.m_seq_state = e.m_seq_state
<1> DEFINE o == handle_data_path(e, n, x, now)
           dedup == handle_data_dedup(e, x, now)
           g == dedup.filter
           fresh == [e EXCEPT !.m_dedup = g]
           gate == handle_ordering_gate(fresh, x, now)
           p == gate.buffer
           u == [fresh EXCEPT !.m_ordering = p]
           b == e.m_ordering
           src == x.source_id
<1>1. b \in OB!Buffer /\ PeersOK(b)
  BY EngineFields DEF EngineOK
<1>2. CASE dedup.res # "OK"
  <2>1. o = Outcome("ERR_DUPLICATE", e, {}, {envelope_make_ack(x, n)})
    BY <1>2 DEF handle_data_path
  <2>2. o.engine = e /\ o.out = {}
    BY <2>1 DEF Outcome
  <2> HIDE DEF o
  <2>3. QED
    BY <2>2 DEF After, o
<1>3. CASE dedup.res = "OK"
  <2>1. g \in DF!Filter
    <3>1. e.m_dedup \in DF!Filter /\ src \in Node /\ x.message_id \in MessageId
      BY EngineFields DEF Envelope
    <3>2. QED
      BY <3>1, DedupShape DEF handle_data_dedup
  <2> HIDE DEF g
  <2>2. /\ fresh \in EngineShape /\ fresh.m_ordering = b /\ fresh.m_held_pending = {}
        /\ fresh.m_seq_state = e.m_seq_state
    BY <2>1 DEF EngineShape
  <2> HIDE DEF fresh
  <2>3. OB!sweep_expired_holds(b, now, ORDERING_HOLD_COUNT).buffer = b
    BY <1>1, SweepIdle DEF Plain
  <2>4. gate = OB!ingest(b, x)
    BY <2>2, <2>3 DEF handle_ordering_gate
  <2>5. /\ p \in OB!Buffer /\ PeersOK(p)
        /\ \A y \in Holding(p) : y \in Holding(b) \/ (y = x /\ gate.res # "OK")
    BY <1>1, <2>3, <2>4, GateStep
  <2>6. /\ \A s : \A q \in Nat : Below(b, s, q) => Below(p, s, q)
        /\ gate.res = "OK" /\ OB!Ordered(x) =>
             /\ Below(p, src, x.sequence_num)
             /\ \A q : Below(b, src, q) => q < x.sequence_num
    BY <1>1, <2>4, IngestOrders DEF Plain
  <2>7. OB!Ordered(x) <=> x.sequence_num # 0
    BY DEF OB!Ordered, OB!envelope_is_control, envelope_is_control
  <2>b. o = IF gate.res # "OK" THEN Outcome(gate.res, u, {}, {})
            ELSE Outcome("OK", StageNext(u, src), {x}, AcksFor(n, {x}))
    BY <1>3 DEF handle_data_path, fresh, g
  <2> HIDE DEF gate, p
  <2>8. /\ u \in EngineShape /\ u.m_ordering = p /\ u.m_held_pending = {}
        /\ u.m_seq_state = e.m_seq_state
    BY <2>2, <2>5 DEF EngineShape
  <2> HIDE DEF u, o
  <2>9. \A i \in DOMAIN d : d[i].sequence_num \in Nat
    <3>1. \A i \in DOMAIN d : d[i] \in Envelope
      OBVIOUS
    <3>2. QED
      BY <3>1 DEF Envelope
  <2>10. OrderOK(u, d, Z)
    BY <2>6, <2>8, <2>9 DEF OrderOK
  <2>11. CASE gate.res # "OK"
    <3>1. o = Outcome(gate.res, u, {}, {})
      BY <2>b, <2>11
    <3>2. o.engine = u /\ o.out = {}
      BY <3>1 DEF Outcome
    <3>3. QED
      BY <2>8, <2>10, <3>2 DEF After, o
  <2>12. CASE gate.res = "OK"
    <3> DEFINE c == Append(d, x)
    <3>1. o = Outcome("OK", StageNext(u, src), {x}, AcksFor(n, {x}))
      BY <2>b, <2>12
    <3>2. o.engine = StageNext(u, src) /\ o.out = {x}
      BY <3>1 DEF Outcome
    <3>3. After(d, o.out) = c
      BY <3>2 DEF After
    <3>4. ASSUME x.sequence_num # 0
          PROVE  /\ Below(u.m_ordering, src, x.sequence_num)
                 /\ \A i \in DOMAIN d : /\ d[i].source_id = src
                                        /\ d[i].sequence_num # 0 /\ d[i].message_id \notin Z
                                        => d[i].sequence_num < x.sequence_num
      BY <2>6, <2>7, <2>8, <2>12, <3>4 DEF OrderOK
    <3>5. OrderOK(u, c, Z) /\ c \in Seq(Envelope)
      BY <2>8, <2>10, <3>4, OrderAfter
    <3>6. PeersOK(u.m_ordering) /\ Plain(Holding(u.m_ordering))
      BY <2>5, <2>8, <2>12 DEF Plain
    <3>7. OrderOK(StageNext(u, src), c, Z) /\ StageNext(u, src).m_seq_state = u.m_seq_state
      BY <2>8, <3>5, <3>6, StageOrders
    <3>8. QED
      BY <2>8, <3>2, <3>3, <3>7 DEF o
  <2>13. QED
    BY <2>11, <2>12
<1>4. QED
  BY <1>2, <1>3

\* The staged message is handed out, and the next one staged.
LEMMA DeliverOrders ==
  ASSUME NEW e \in EngineShape, NEW n, NEW S, EngineOK(e, n, S), Plain(KeptBy(e)),
         e.m_held_pending # {}, NEW d \in Seq(Envelope), NEW Z, OrderOK(e, d, Z),
         NEW now
  PROVE  LET o == deliver_held_pending(e, n, now)
         IN  /\ o.res = "OK" /\ OrderOK(o.engine, After(d, o.out), Z)
             /\ o.engine.m_seq_state = e.m_seq_state
<1> DEFINE o == deliver_held_pending(e, n, now)
           env == CHOOSE x \in e.m_held_pending : TRUE
           c == [e EXCEPT !.m_held_pending = {}]
           w == StageNext(c, env.source_id)
<1>1. env \in e.m_held_pending /\ env \in Envelope
  BY EngineFields
<1>2. ~timestamp_expired(env.expiry_time_us, now)
  BY <1>1 DEF Plain, KeptBy, timestamp_expired
<1>3. o = Outcome("OK", w, {env}, AcksFor(n, {env}))
  BY <1>2 DEF deliver_held_pending
<1> HIDE DEF env
<1>4. o.res = "OK" /\ o.engine = w /\ o.out = {env}
  BY <1>3 DEF Outcome
<1>5. After(d, o.out) = Append(d, env)
  BY <1>4 DEF After
<1>6. /\ c \in EngineShape /\ c.m_ordering = e.m_ordering /\ c.m_held_pending = {}
      /\ c.m_seq_state = e.m_seq_state
  BY DEF EngineShape
<1> HIDE DEF c, o
<1>7. OrderOK(c, d, Z)
  BY <1>6 DEF OrderOK
<1>8. OrderOK(c, Append(d, env), Z) /\ Append(d, env) \in Seq(Envelope)
  <2>1. ASSUME env.sequence_num # 0
        PROVE  /\ Below(c.m_ordering, env.source_id, env.sequence_num)
               /\ \A i \in DOMAIN d : /\ d[i].source_id = env.source_id
                                      /\ d[i].sequence_num # 0 /\ d[i].message_id \notin Z
                                      => d[i].sequence_num < env.sequence_num
    BY <1>1, <1>6, <2>1 DEF OrderOK
  <2>2. QED
    BY <1>1, <1>6, <1>7, <2>1, OrderAfter
<1>9. PeersOK(c.m_ordering) /\ Plain(Holding(c.m_ordering))
  BY <1>6 DEF EngineOK, Plain, KeptBy
<1>10. OrderOK(w, Append(d, env), Z) /\ w.m_seq_state = e.m_seq_state
  BY <1>6, <1>8, <1>9, StageOrders
<1>11. QED
  BY <1>4, <1>5, <1>10 DEF o

\* The sequence number of a message, and the numbers left for later ones.
LEMMA SendNumbers ==
  ASSUME NEW e \in EngineShape, NEW m \in Envelope, m.sequence_num = 0,
         NEW c \in Nat \ {0}, NumbersUpTo(e, c), NEW now, NEW accepted
  PROVE  LET r == send(e, m, now, accepted)
         IN  r.stamped.sequence_num <= c /\ NumbersUpTo(r.engine, c + 1)
<1> DEFINE r == send(e, m, now, accepted)
           numbers == envelope_is_data(m) /\ m.sequence_num = 0 /\ ordering = "ORDERED"
           dst == m.destination_id
           q == IF numbers THEN next_seq_for(e, dst) ELSE m.sequence_num
           s == [m EXCEPT !.sequence_num = q, !.fragment_index = 0, !.fragment_count = 1,
                          !.total_payload_length = Len(m.payload)]
           Q == IF numbers THEN TakeSeq(e, dst) ELSE e.m_seq_state
           t == [e EXCEPT !.m_last_now_us = now, !.m_seq_state = Q]
           book == reserve_bookkeeping(t, s, now)
           out == send_fragments(s, now, accepted)
           failure == handle_send_fragments_failure(book.engine, s, out.res)
           Result(res, engine, wire) ==
             [res |-> res, engine |-> engine, wire |-> wire, stamped |-> s]
<1>1. dst \in Node \union {NODE_ID_INVALID}
  BY DEF Envelope
<1>2. next_seq_for(e, dst) \in Nat /\ next_seq_for(e, dst) <= c
  <2>1. next_seq_for(e, dst) \in Nat
    BY <1>1, SequenceNumbers
  <2>2. next_seq_for(e, dst) <= c
    BY DEF next_seq_for, NumbersUpTo
  <2>3. QED
    BY <2>1, <2>2
<1>3. s.sequence_num = q /\ q <= c
  BY <1>2 DEF Envelope
<1>4. \A d \in DOMAIN Q : Q[d] <= c + 1
  <2>1. PICK D \in SUBSET (Node \union {NODE_ID_INVALID}) : e.m_seq_state \in [D -> 1 .. SEQ_MAX]
    BY EngineFields DEF SeqState
  <2>2. \A d \in DOMAIN e.m_seq_state : e.m_seq_state[d] \in Nat /\ e.m_seq_state[d] <= c + 1
    BY <2>1, CapacityAssumption DEF NumbersUpTo
  <2> DEFINE v == next_seq_for(e, dst)
             nx == IF v = SEQ_MAX THEN 1 ELSE v + 1
             T == [d \in DOMAIN e.m_seq_state \union {dst} |->
                     IF d # dst THEN e.m_seq_state[d] ELSE nx]
  <2>3. nx <= c + 1
    BY <1>2
  <2>4. TakeSeq(e, dst) = IF v = 0 THEN e.m_seq_state ELSE T
    BY DEF TakeSeq
  <2> HIDE DEF nx, v
  <2>5. \A d \in DOMAIN T : T[d] <= c + 1
    BY <2>2, <2>3
  <2> HIDE DEF T
  <2>6. Q = e.m_seq_state \/ Q = T
    BY <2>4
  <2> HIDE DEF Q
  <2>7. QED
    BY <2>2, <2>5, <2>6
<1>5. r = CASE ClockWentBack(e, now) -> Result("ERR_INVALID", e, {})
            [] ~ClockWentBack(e, now) /\ book.res # "OK" -> Result(book.res, book.engine, {})
            [] ~ClockWentBack(e, now) /\ book.res = "OK" /\ out.res = "OK" ->
                 Result("OK", book.engine, out.wire)
            [] OTHER -> Result(failure.res, failure.engine, out.wire)
  BY DEF send
<1> HIDE DEF Q, s, out, q
<1>6. t.m_seq_state = Q /\ \A k : k \in {"m_ack_tracker", "m_retry_manager"} => k \in DOMAIN t
  BY DEF EngineShape
<1> DEFINE Same(u) == u.m_seq_state = Q /\ DOMAIN u = DOMAIN t
<1>7. \A u, a, b : Same(u) => /\ Same([u EXCEPT !.m_ack_tracker = a])
                              /\ Same([u EXCEPT !.m_retry_manager = b])
                              /\ Same([u EXCEPT !.m_ack_tracker = a, !.m_retry_manager = b])
  OBVIOUS
<1> HIDE DEF t
<1>8. Same(t)
  BY <1>6
<1> HIDE DEF Same
<1>9. Same(book.engine)
  BY <1>7, <1>8 DEF reserve_bookkeeping
<1> HIDE DEF book
<1>10. Same(failure.engine)
  BY <1>7, <1>9 DEF handle_send_fragments_failure, rollback_on_transport_failure
<1> HIDE DEF failure
<1>11. r.stamped = s /\ (r.engine = e \/ r.engine = book.engine \/ r.engine = failure.engine)
  BY <1>5
<1> HIDE DEF r
<1>12. NumbersUpTo(e, c + 1)
  <2>1. PICK D \in SUBSET (Node \union {NODE_ID_INVALID}) : e.m_seq_state \in [D -> 1 .. SEQ_MAX]
    BY EngineFields DEF SeqState
  <2>2. QED
    BY <2>1, CapacityAssumption DEF NumbersUpTo
<1>13. NumbersUpTo(r.engine, c + 1)
  BY <1>4, <1>9, <1>10, <1>11, <1>12 DEF NumbersUpTo, Same
<1>14. QED
  BY <1>3, <1>11, <1>13 DEF r

\* Whatever comes from a node in D and was given to the application or waits for its
\* turn has an id in Z.
Untouched(e, d, D, Z) ==
  /\ \A x \in KeptBy(e) : x.source_id \in D => x.message_id \in Z
  /\ \A i \in DOMAIN d : d[i].source_id \in D => d[i].message_id \in Z

\* What is of a session that has ended in the view of node k: a client that restarts
\* forgets all, and only the server is told of the restart of another.
Ended(k) == IF k = Server THEN Ids(stale) ELSE {}

(***************************************************************************)
(* The part of the invariant about order.  A gate that receive() resets is *)
(* one of a client of whose new session nothing has been delivered yet,    *)
(* and a message has no greater number than there have been calls of       *)
(* send().                                                                 *)
(***************************************************************************)
OrderPart ==
  /\ \A k \in Node : OrderOK(eng[k], delivered[k], Ended(k))
  /\ \A k \in Node : NumbersUpTo(eng[k], Cardinality(Used) + 1)
  /\ \A s \in sent : s.sequence_num <= Cardinality(Used)
  /\ failed \subseteq Ids(Workload)
  /\ \A k \in Node \ {Server} : hello[k] = {}
  /\ Untouched(eng[Server], delivered[Server], Unreset, Ids(stale))

LEMMA UsedBound ==
  ASSUME Orderly, IInv, OrderPart
  PROVE  /\ IsFiniteSet(Used) /\ Cardinality(Used) \in Nat /\ Cardinality(Used) < SEQ_MAX
         /\ \A x : Genuine(x, sent) => x.sequence_num < SEQ_MAX /\ x.expiry_time_us = 0
<1> DEFINE W == Ids(Workload)
<1>1. Ids(sent) \subseteq W
  BY DEF IInv, HistoryOK, Alike, Ids
<1>2. Used \subseteq W
  BY <1>1 DEF Used, Ids, OrderPart
<1>3. IsFiniteSet(W) /\ Cardinality(W) < SEQ_MAX /\ Cardinality(W) \in Nat
  BY FS_CardinalityType DEF Orderly
<1> HIDE DEF W
<1>4. /\ IsFiniteSet(Used) /\ Cardinality(Used) \in Nat
      /\ Cardinality(Used) <= Cardinality(W)
  BY <1>2, <1>3, FS_Subset, FS_CardinalityType
<1>5. SEQ_MAX \in Nat
  BY CapacityAssumption
<1>6. ASSUME NEW x, Genuine(x, sent)
      PROVE  x.sequence_num < SEQ_MAX /\ x.expiry_time_us = 0
  <2>1. PICK s \in sent : Copy(x, s)
    BY <1>6 DEF Genuine
  <2>2. s.sequence_num <= Cardinality(Used) /\ s.sequence_num \in Nat
    BY DEF OrderPart, IInv, Shape, Envelope
  <2>3. s.expiry_time_us = 0
    BY DEF Orderly, IInv, HistoryOK, Alike
  <2>4. QED
    BY <1>3, <1>4, <1>5, <2>1, <2>2, <2>3 DEF Copy, Alike
<1>7. QED
  BY <1>3, <1>4, <1>5, <1>6

LEMMA FreshOrder ==
  /\ \A Z : OrderOK(EngineInit, <<>>, Z)
  /\ \A c : NumbersUpTo(EngineInit, c)
<1>1. EngineInit.m_held_pending = {} /\ DOMAIN EngineInit.m_seq_state = {}
  BY EngineInitOK DEF EngineInit
<1>2. QED
  BY <1>1 DEF OrderOK, InOrder, NumbersUpTo

\* The engine when receive() has acted upon the HELLOs.
LEMMA DrainedOrder ==
  ASSUME Orderly, IInv, OrderPart, NEW n \in Node,
         receive_staged(eng[n], n, hello[n], clock).res # "ERR_INVALID"
  PROVE  \E u : /\ receive_staged(eng[n], n, hello[n], clock) =
                     IF u.m_held_pending # {} THEN deliver_held_pending(u, n, clock)
                                              ELSE Outcome("ERR_EMPTY", u, {}, {})
                /\ Receded(eng[n], u) /\ EngineOK(u, n, sent)
                /\ OrderOK(u, delivered[n], Ended(n)) /\ Plain(KeptBy(u))
                /\ NumbersUpTo(u, Cardinality(Used) + 1)
<1> DEFINE e == eng[n]
           t == [e EXCEPT !.m_last_now_us = clock]
           H == hello[n]
           u == drain_hello_reconnects(t, H)
           d == delivered[n]
           Z == Ended(n)
           c == Cardinality(Used) + 1
<1>1. /\ e \in EngineShape /\ EngineOK(e, n, sent) /\ clock \in Nat
      /\ IsFiniteSet(H)
  BY InvParts, FS_Subset, SystemAssumption DEF IInv, Shape
<1>2. /\ OrderOK(e, d, Z) /\ NumbersUpTo(e, c) /\ c \in Nat \ {0}
  BY UsedBound DEF OrderPart
<1>3. Untouched(e, d, H, Z)
  <2>1. CASE n = Server
    BY <2>1 DEF OrderPart, Untouched, Unreset, Ended
  <2>2. CASE n # Server
    BY <2>2 DEF OrderPart, Untouched
  <2>3. QED
    BY <2>1, <2>2
<1>4. ~ClockWentBack(e, clock)
  BY DEF receive_staged, Outcome
<1>5. receive_staged(e, n, H, clock) =
        IF u.m_held_pending # {} THEN deliver_held_pending(u, n, clock)
                                 ELSE Outcome("ERR_EMPTY", u, {}, {})
  <2> HIDE DEF u
  <2>1. u = drain_hello_reconnects([e EXCEPT !.m_last_now_us = clock], H)
    BY DEF u
  <2>2. QED
    BY <1>4, <2>1 DEF receive_staged
<1> HIDE DEF e, c, Z
<1>6. Receded(e, t) /\ t.m_ordering = e.m_ordering /\ t.m_held_pending = e.m_held_pending
  BY <1>1, RecededTime
<1>7. t \in EngineShape /\ EngineOK(t, n, sent) /\ NumbersUpTo(t, c)
  <2>1. t.m_seq_state = e.m_seq_state
    BY <1>1 DEF EngineShape
  <2>2. QED
    BY <1>1, <1>2, <1>6, <2>1, RecededOK DEF Receded, NumbersUpTo
<1> HIDE DEF t, H
<1>8. Receded(t, u) /\ \A h \in H : Forgotten(u, h)
  BY <1>1, <1>7, DrainForgets
<1>9. /\ \A src, q : src \notin H =>
           (Below(t.m_ordering, src, q) <=> Below(u.m_ordering, src, q))
      /\ NumbersUpTo(u, c)
  BY <1>1, <1>2, <1>7, DrainOrders
<1> HIDE DEF u
<1>10. Receded(e, u)
  BY <1>6, <1>8, RecededTwice
<1>11. EngineOK(u, n, sent) /\ Passed(e, u, {}) /\ u.m_held_pending \subseteq e.m_held_pending
  BY <1>1, <1>10, RecededOK, RecededPasses DEF Receded
<1>12. OrderOK(u, d, Z)
  <2>1. \A x \in u.m_held_pending :
          x \in e.m_held_pending /\ x.source_id \notin H
    BY <1>8, <1>11 DEF Forgotten
  <2>2. \A i \in DOMAIN d : d[i].message_id \notin Z => d[i].source_id \notin H
    BY <1>3 DEF Untouched
  <2> HIDE DEF d
  <2>3. QED
    BY <1>2, <1>6, <1>9, <2>1, <2>2 DEF OrderOK
<1>13. Plain(KeptBy(u))
  <2>1. \A x \in KeptBy(u) : Genuine(x, sent)
    BY <1>11 DEF EngineOK, KeptBy
  <2>2. QED
    BY <2>1, UsedBound DEF Plain
<1>14. QED
  BY <1>5, <1>9, <1>10, <1>11, <1>12, <1>13 DEF e, c, d, H, Z

\* The end of receive().
LEMMA FinishOrder ==
  ASSUME IInv, OrderPart, NEW n \in Node, NEW o, NEW read, NEW hellos \in Hellos(n),
         Finish(n, o, read, hellos), o.engine \in EngineShape,
         OrderOK(o.engine, After(delivered[n], o.out), Ended(n)),
         NumbersUpTo(o.engine, Cardinality(Used) + 1),
         n = Server => Untouched(o.engine, After(delivered[n], o.out), connecting, Ids(stale))
  PROVE  OrderPart'
<1> DEFINE c == After(delivered[n], o.out)
<1>1. /\ eng' = [eng EXCEPT ![n] = o.engine]
      /\ delivered' = [delivered EXCEPT ![n] = c]
      /\ hello' = [hello EXCEPT ![n] = hellos] /\ connecting' = connecting \ hellos
      /\ UNCHANGED <<sent, failed, stale>>
  BY DEF Finish, After
<1>2. eng'[n] = o.engine /\ \A k \in Node : k # n => eng'[k] = eng[k]
  BY <1>1, OneEngine DEF IInv
<1>3. /\ delivered'[n] = c /\ \A k \in Node : k # n => delivered'[k] = delivered[k]
      /\ hello'[n] = hellos /\ \A k \in Node : k # n => hello'[k] = hello[k]
  BY <1>1 DEF IInv, Shape
<1>4. hellos \subseteq connecting /\ (n # Server => hellos = {})
  BY DEF Hellos
<1>5. Used' = Used /\ \A k \in Node : Ended(k)' = Ended(k)
  BY <1>1 DEF Used, Ended, Ids
<1> HIDE DEF c
<1>6. \A k \in Node : OrderOK(eng'[k], delivered'[k], Ended(k)')
  <2>1. \A k \in Node : OrderOK(eng'[k], delivered'[k], Ended(k))
    BY <1>2, <1>3 DEF OrderPart, c
  <2>2. QED
    BY <1>5, <2>1
<1>7. \A k \in Node : NumbersUpTo(eng'[k], Cardinality(Used) + 1)
  BY <1>2 DEF OrderPart
<1>8. \A k \in Node \ {Server} : hello'[k] = {}
  BY <1>3, <1>4 DEF OrderPart
<1>9. Untouched(eng'[Server], delivered'[Server], Unreset', Ids(stale))
  <2>1. CASE n = Server
    <3>1. Unreset' = connecting
      BY <1>1, <1>3, <1>4, <2>1 DEF Unreset
    <3>2. QED
      BY <1>2, <1>3, <2>1, <3>1 DEF c
  <2>2. CASE n # Server
    <3>1. Unreset' = Unreset
      BY <1>1, <1>3, <1>4, <2>2, SystemAssumption DEF Unreset
    <3>2. QED
      BY <1>2, <1>3, <2>2, <3>1, SystemAssumption DEF OrderPart
  <2>3. QED
    BY <2>1, <2>2
<1>10. /\ \A s \in sent' : s.sequence_num <= Cardinality(Used')
       /\ failed' \subseteq Ids(Workload) /\ Ids(stale') = Ids(stale)
  BY <1>1, <1>5 DEF OrderPart
<1>11. QED
  BY <1>5, <1>6, <1>7, <1>8, <1>9, <1>10 DEF OrderPart

\* What remains untouched when messages of X arrive.
LEMMA AnsweredUntouched ==
  ASSUME NEW e, NEW d \in Seq(Envelope), NEW D, NEW Z, Untouched(e, d, D, Z),
         NEW o, NEW n, NEW S, NEW X, Answered(o, e, n, S, X), \A x \in X : x.source_id \notin D
  PROVE  Untouched(o.engine, After(d, o.out), D, Z)
<1>1. \A x \in KeptBy(e) \union X : x.source_id \in D => x.message_id \in Z
  BY DEF Untouched
<1>2. \A x \in KeptBy(o.engine) : x.source_id \in D => x.message_id \in Z
  BY <1>1 DEF Answered, Passed
<1>3. CASE o.out = {}
  BY <1>2, <1>3 DEF After, Untouched
<1>4. ASSUME NEW x \in KeptBy(e) \union X, o.out = {x}
      PROVE  \A i \in DOMAIN After(d, o.out) :
               After(d, o.out)[i].source_id \in D => After(d, o.out)[i].message_id \in Z
  <2> DEFINE c == Append(d, x)
  <2>1. After(d, o.out) = c
    BY <1>4 DEF After
  <2>2. /\ DOMAIN c = 1 .. Len(d) + 1 /\ DOMAIN d = 1 .. Len(d) /\ Len(d) \in Nat
        /\ c[Len(d) + 1] = x
        /\ \A i \in 1 .. Len(d) : c[i] = d[i]
    OBVIOUS
  <2> HIDE DEF c
  <2>3. \A i \in DOMAIN c : i = Len(d) + 1 \/ i \in 1 .. Len(d)
    BY <2>2
  <2>4. \A i \in DOMAIN c : c[i].source_id \in D => c[i].message_id \in Z
    BY <1>1, <1>4, <2>2, <2>3 DEF Untouched
  <2>5. QED
    BY <2>1, <2>4
<1>5. QED
  BY <1>2, <1>3, <1>4 DEF Answered, Untouched


\* A step of node n that leaves the gates and the staged message alone.
LEMMA OthersOrder ==
  ASSUME IInv, OrderPart, NEW n \in Node, NEW u \in EngineShape, eng' = [eng EXCEPT ![n] = u],
         u.m_ordering = eng[n].m_ordering, u.m_held_pending = eng[n].m_held_pending,
         UNCHANGED <<connecting, hello, delivered, stale>>,
         NumbersUpTo(u, Cardinality(Used') + 1),
         \A k \in Node : NumbersUpTo(eng[k], Cardinality(Used') + 1),
         \A s \in sent' : s.sequence_num <= Cardinality(Used'),
         failed' \subseteq Ids(Workload)
  PROVE  OrderPart'
<1>1. eng'[n] = u /\ \A k \in Node : k # n => eng'[k] = eng[k]
  BY OneEngine DEF IInv
<1>2. \A k \in Node : /\ eng'[k].m_ordering = eng[k].m_ordering
                      /\ eng'[k].m_held_pending = eng[k].m_held_pending
  BY <1>1
<1>3. \A k \in Node : OrderOK(eng'[k], delivered'[k], Ended(k)')
  <2>1. ASSUME NEW k \in Node, NEW d, NEW Z, OrderOK(eng[k], d, Z) PROVE OrderOK(eng'[k], d, Z)
    BY <1>2, <2>1 DEF OrderOK
  <2>2. \A k \in Node : Ended(k)' = Ended(k)
    BY DEF Ended, Ids
  <2>3. QED
    BY <2>1, <2>2 DEF OrderPart
<1>4. \A k \in Node : NumbersUpTo(eng'[k], Cardinality(Used') + 1)
  BY <1>1
<1>5. Untouched(eng'[Server], delivered'[Server], Unreset', Ids(stale'))
  <2>1. KeptBy(eng'[Server]) = KeptBy(eng[Server])
    BY <1>2, SystemAssumption DEF KeptBy
  <2>2. Unreset' = Unreset
    BY DEF Unreset
  <2>3. QED
    BY <2>1, <2>2 DEF Untouched, OrderPart
<1>6. QED
  BY <1>3, <1>4, <1>5 DEF OrderPart

\* send() numbers a message.
LEMMA SendOrder ==
  ASSUME Orderly, IInv, OrderPart, NEW m \in Workload, NEW accepted \in Nat,
         Send(m, accepted)
  PROVE  OrderPart'
<1> DEFINE n == m.source_id
           e == eng[n]
           r == send(e, m, clock, accepted)
           s == r.stamped
           c == Cardinality(Used) + 1
<1>1. /\ m.message_id \notin Used
      /\ eng' = [eng EXCEPT ![n] = r.engine]
      /\ sent' = IF r.wire # {} THEN sent \union {s} ELSE sent
      /\ failed' = IF r.wire = {} THEN failed \union {m.message_id} ELSE failed
      /\ UNCHANGED <<connecting, hello, stale, delivered>>
  BY DEF Send
<1>2. m \in Envelope /\ n \in Node /\ m.sequence_num = 0
  BY SystemAssumption DEF Envelope, Orderly
<1>3. e \in EngineShape /\ EngineOK(e, n, sent) /\ clock \in Nat
  BY <1>2, InvParts DEF IInv, Shape
<1>4. NewTo(e, m) /\ RetriedOnce(e.m_retry_manager)
  BY <1>1, <1>3 DEF NewTo, EngineOK, Used
<1>5. c \in Nat \ {0} /\ NumbersUpTo(e, c) /\ Cardinality(Used) \in Nat /\ IsFiniteSet(Used)
  BY <1>2, UsedBound DEF OrderPart
<1> HIDE DEF e, c
<1>6. /\ Alike(s, m) /\ SameRest(r.engine, e) /\ r.engine \in EngineShape
  <2>1. /\ Alike(s, m) /\ SameRest(r.engine, e)
        /\ Receded(e, r.engine) \/ Booked(e, r.engine, s)
    BY <1>2, <1>3, <1>4, SendBooks
  <2>2. QED
    BY <2>1 DEF Receded, Booked
<1>7. s.sequence_num <= c /\ NumbersUpTo(r.engine, c + 1)
  BY <1>2, <1>3, <1>5, SendNumbers
<1> HIDE DEF r
<1>8. Used' = Used \union {m.message_id}
  <2>1. s.message_id = m.message_id
    BY <1>6 DEF Alike
  <2>2. CASE r.wire = {}
    BY <1>1, <2>2 DEF Used
  <2>3. CASE r.wire # {}
    BY <1>1, <2>1, <2>3 DEF Used
  <2>4. QED
    BY <2>2, <2>3
<1>9. Cardinality(Used') = c
  BY <1>1, <1>5, <1>8, FS_AddElement DEF c
<1>10. \A k \in Node : NumbersUpTo(eng[k], c + 1)
  <2>1. ASSUME NEW k \in Node, NEW d \in DOMAIN eng[k].m_seq_state
        PROVE  eng[k].m_seq_state[d] <= c + 1
    <3>1. eng[k].m_seq_state[d] \in Nat
      BY InvParts, EngineFields, CapacityAssumption DEF SeqState
    <3>2. eng[k].m_seq_state[d] <= c
      BY DEF OrderPart, NumbersUpTo, c
    <3>3. QED
      BY <1>5, <3>1, <3>2
  <2>2. QED
    BY <2>1 DEF NumbersUpTo
<1>11. \A x \in sent' : x.sequence_num <= c
  <2>1. ASSUME NEW x \in sent PROVE x.sequence_num <= c
    <3>1. x.sequence_num \in Nat /\ x.sequence_num <= Cardinality(Used)
      BY DEF OrderPart, IInv, Shape, Envelope
    <3>2. QED
      BY <1>5, <3>1 DEF c
  <2>2. QED
    BY <1>1, <1>7, <2>1
<1>12. failed' \subseteq Ids(Workload)
  BY <1>1 DEF OrderPart, Ids
<1>13. r.engine.m_ordering = e.m_ordering /\ r.engine.m_held_pending = e.m_held_pending
  BY <1>6 DEF SameRest
<1>14. QED
  BY <1>1, <1>2, <1>6, <1>7, <1>9, <1>10, <1>11, <1>12, <1>13, OthersOrder DEF e

\* receive() returns what it had staged, or nothing.
LEMMA StagedOrder ==
  ASSUME Orderly, IInv, OrderPart, NEW n \in Node, NEW hellos \in Hellos(n),
         receive_staged(eng[n], n, hello[n], clock).res # "ERR_INVALID",
         Finish(n, receive_staged(eng[n], n, hello[n], clock), {}, hellos)
  PROVE  OrderPart'
<1> DEFINE o == receive_staged(eng[n], n, hello[n], clock)
           d == delivered[n]
           Z == Ended(n)
           c == Cardinality(Used) + 1
<1>1. Answered(o, eng[n], n, sent, {}) /\ o.engine \in EngineShape
  BY StagedFacts
<1>2. PICK u : /\ o = IF u.m_held_pending # {} THEN deliver_held_pending(u, n, clock)
                                               ELSE Outcome("ERR_EMPTY", u, {}, {})
               /\ Receded(eng[n], u) /\ EngineOK(u, n, sent)
               /\ OrderOK(u, d, Z) /\ Plain(KeptBy(u)) /\ NumbersUpTo(u, c)
  BY DrainedOrder
<1>3. Finish(n, o, {}, hellos)
  OBVIOUS
<1> HIDE DEF o
<1>4. u \in EngineShape /\ d \in Seq(Envelope)
  BY <1>2 DEF Receded, IInv, Shape
<1> HIDE DEF d, c, Z
<1>5. OrderOK(o.engine, After(d, o.out), Z) /\ NumbersUpTo(o.engine, c)
  <2>1. CASE u.m_held_pending # {}
    <3>1. o = deliver_held_pending(u, n, clock)
      BY <1>2, <2>1
    <3>2. /\ OrderOK(o.engine, After(d, o.out), Z)
          /\ o.engine.m_seq_state = u.m_seq_state
      BY <1>2, <1>4, <2>1, <3>1, DeliverOrders
    <3>3. QED
      BY <1>2, <3>2 DEF NumbersUpTo
  <2>2. CASE u.m_held_pending = {}
    <3>1. o.engine = u /\ o.out = {}
      BY <1>2, <2>2 DEF Outcome
    <3>2. QED
      BY <1>2, <3>1 DEF After
  <2>3. QED
    BY <2>1, <2>2
<1>6. n = Server => Untouched(o.engine, After(d, o.out), connecting, Ids(stale))
  <2>1. n = Server => Untouched(eng[n], d, connecting, Ids(stale))
    BY DEF OrderPart, Untouched, Unreset, d
  <2>2. QED
    BY <1>1, <1>4, <2>1, AnsweredUntouched
<1>7. QED
  BY <1>1, <1>3, <1>5, <1>6, FinishOrder DEF c, d, Z


\* receive() takes a frame from the transport: nothing was staged, since what is staged
\* cannot have expired.
LEMMA WireOrder ==
  ASSUME Orderly, IInv, OrderPart, NEW n \in Node, NEW m \in net, NEW copies,
         NEW hellos \in Hellos(n), ReceiveWire(n, m, copies, hellos)
  PROVE  OrderPart'
<1> DEFINE o == receive_staged(eng[n], n, hello[n], clock)
           w == receive_wire(handle_fragment_ingest(o.engine, m, clock), n, clock)
           read == IF copies = 0 THEN {m} ELSE {}
           d == delivered[n]
           Z == Ended(n)
           c == Cardinality(Used) + 1
<1>1. /\ m.source_id # n /\ o.res \in {"ERR_EMPTY", "ERR_EXPIRED"}
      /\ Finish(n, w, read, hellos) /\ m.source_id \notin connecting
  BY DEF ReceiveWire, Orderly
<1>2. Answered(o, eng[n], n, sent, {}) /\ o.out = {}
  BY <1>1, StagedFacts
<1>3. PICK u : /\ o = IF u.m_held_pending # {} THEN deliver_held_pending(u, n, clock)
                                               ELSE Outcome("ERR_EMPTY", u, {}, {})
               /\ Receded(eng[n], u) /\ EngineOK(u, n, sent)
               /\ OrderOK(u, d, Z) /\ Plain(KeptBy(u)) /\ NumbersUpTo(u, c)
  BY <1>1, DrainedOrder
<1> HIDE DEF o
<1>4. /\ m \in Envelope /\ d \in Seq(Envelope) /\ clock \in Nat /\ u \in EngineShape
      /\ (Genuine(m, sent) /\ Fresh(m, stale)) \/ MadeAck(m, sent)
      /\ UniqueIds(sent) /\ Traced(sent)
  BY <1>3, InvParts DEF IInv, Shape, TrafficOK, Receded
<1> HIDE DEF d, c, Z
<1>5. u.m_held_pending = {} /\ o.engine = u
  <2>1. CASE u.m_held_pending # {}
    <3>1. o.res = "OK"
      BY <1>3, <1>4, <2>1, DeliverOrders
    <3>2. QED
      BY <1>1, <3>1
  <2>2. CASE u.m_held_pending = {}
    BY <1>3, <2>2 DEF Outcome
  <2>3. QED
    BY <2>1, <2>2
<1> DEFINE v == receive_wire(handle_fragment_ingest(u, m, clock), n, clock)
<1>6. w = v
  BY <1>5
<1>7. \/ v.out = {} /\ v.reply = {} /\ SameInbox(v.engine, u)
      \/ \E f \in EngineShape, x \in Envelope :
           /\ SameInbox(f, u) /\ EngineOK(f, n, sent)
           /\ Genuine(x, sent) /\ x.source_id = m.source_id /\ ~envelope_is_control(x)
           /\ v = handle_data_path(f, n, x, clock)
  BY <1>3, <1>4, WirePaths
<1>8. \E X : Arrives(X, m, n, sent) /\ Answered(v, u, n, sent, X)
  BY <1>3, <1>4, WireOutcome
<1> HIDE DEF w, v
<1>9. PICK X : Arrives(X, m, n, sent) /\ Answered(w, u, n, sent, X)
  BY <1>6, <1>8
<1>10. w.engine \in EngineShape
  BY <1>9 DEF Answered, Passed
<1>11. OrderOK(w.engine, After(d, w.out), Z) /\ NumbersUpTo(w.engine, c)
  <2>1. CASE v.out = {} /\ v.reply = {} /\ SameInbox(v.engine, u)
    BY <1>3, <1>6, <2>1 DEF SameInbox, After, OrderOK, NumbersUpTo
  <2>2. ASSUME NEW f \in EngineShape, NEW x \in Envelope, SameInbox(f, u),
               EngineOK(f, n, sent), Genuine(x, sent), ~envelope_is_control(x),
               v = handle_data_path(f, n, x, clock)
        PROVE  /\ OrderOK(w.engine, After(d, w.out), Z)
               /\ NumbersUpTo(w.engine, c)
    <3>1. /\ f.m_held_pending = {} /\ OrderOK(f, d, Z)
          /\ Plain(Holding(f.m_ordering)) /\ NumbersUpTo(f, c)
      BY <1>3, <1>5, <2>2 DEF SameInbox, OrderOK, Plain, KeptBy, NumbersUpTo
    <3>2. Plain({x})
      BY <2>2, UsedBound DEF Plain
    <3>3. /\ OrderOK(v.engine, After(d, v.out), Z)
          /\ v.engine.m_seq_state = f.m_seq_state
      BY <1>4, <2>2, <3>1, <3>2, DataOrders
    <3>4. QED
      BY <1>6, <3>1, <3>3 DEF NumbersUpTo
  <2>3. QED
    BY <1>7, <2>1, <2>2
<1>12. n = Server => Untouched(w.engine, After(d, w.out), connecting, Ids(stale))
  <2>1. n = Server => Untouched(eng[n], d, connecting, Ids(stale))
    BY DEF OrderPart, Untouched, Unreset, d
  <2>2. n = Server => Untouched(o.engine, After(d, o.out), connecting, Ids(stale))
    BY <1>2, <1>4, <2>1, AnsweredUntouched
  <2>3. n = Server => Untouched(u, d, connecting, Ids(stale))
    BY <1>2, <1>5, <2>2 DEF After
  <2>4. \A x \in X : x.source_id \notin connecting
    <3>1. ASSUME NEW x \in X PROVE x.source_id = m.source_id
      <4>1. Genuine(x, sent) /\ Genuine(m, sent) /\ x.message_id = m.message_id
        BY <1>4, <1>9 DEF Arrives
      <4>2. QED
        BY <1>4, <4>1, TwiceBothWays DEF Copy, Alike
    <3>2. QED
      BY <1>1, <3>1
  <2>5. QED
    BY <1>4, <1>9, <2>3, <2>4, AnsweredUntouched
<1>13. QED
  BY <1>1, <1>10, <1>11, <1>12, FinishOrder DEF c, d, Z

\* A client starts again, and the server learns of it later.
LEMMA RestartOrder ==
  ASSUME IInv, OrderPart, NEW n \in Node, Restart(n)
  PROVE  OrderPart'
<1>1. /\ n # Server /\ eng' = [eng EXCEPT ![n] = EngineInit]
      /\ connecting' = connecting \union {n} /\ hello' = [hello EXCEPT ![n] = {}]
      /\ stale' = stale \union {m \in sent : Involves(m, n)}
      /\ delivered' = [delivered EXCEPT ![n] = <<>>]
      /\ UNCHANGED <<sent, failed>>
  BY DEF Restart
<1>2. eng'[n] = EngineInit /\ \A k \in Node : k # n => eng'[k] = eng[k]
  BY <1>1, OneEngine, EngineInitOK DEF IInv
<1>3. /\ delivered'[n] = <<>> /\ \A k \in Node : k # n => delivered'[k] = delivered[k]
      /\ hello'[n] = {} /\ \A k \in Node : k # n => hello'[k] = hello[k]
  BY <1>1 DEF IInv, Shape
<1>4. Used' = Used
  BY <1>1 DEF Used
<1>5. Ids(stale) \subseteq Ids(stale') /\ \A k \in Node : Ended(k) \subseteq Ended(k)'
  BY <1>1 DEF Ids, Ended
<1>6. /\ \A Z : OrderOK(EngineInit, <<>>, Z)
      /\ NumbersUpTo(EngineInit, Cardinality(Used) + 1)
  BY FreshOrder
<1>7. \A k \in Node : OrderOK(eng'[k], delivered'[k], Ended(k)')
  <2>1. ASSUME NEW k \in Node, k # n
        PROVE  OrderOK(eng'[k], delivered'[k], Ended(k)')
    <3>1. OrderOK(eng[k], delivered[k], Ended(k))
      BY DEF OrderPart
    <3>2. QED
      BY <1>2, <1>3, <1>5, <2>1, <3>1 DEF OrderOK, InOrder
  <2>2. QED
    BY <1>2, <1>3, <1>6, <2>1
<1>8. \A k \in Node : NumbersUpTo(eng'[k], Cardinality(Used) + 1)
  BY <1>2, <1>6 DEF OrderPart
<1>9. Untouched(eng'[Server], delivered'[Server], Unreset', Ids(stale'))
  <2>1. /\ eng'[Server] = eng[Server] /\ delivered'[Server] = delivered[Server]
        /\ Unreset' = Unreset \union {n}
    BY <1>1, <1>2, <1>3, SystemAssumption DEF Unreset
  <2>2. \A x : Genuine(x, sent) /\ x.source_id = n => x.message_id \in Ids(stale')
    BY <1>1 DEF Genuine, Copy, Alike, Involves, Ids
  <2>3. /\ \A x \in KeptBy(eng[Server]) : Genuine(x, sent)
        /\ \A i \in DOMAIN delivered[Server] : Genuine(delivered[Server][i], sent)
    BY InvParts, SystemAssumption DEF EngineOK, KeptBy, IInv, TrafficOK
  <2>4. Untouched(eng[Server], delivered[Server], Unreset, Ids(stale))
    BY DEF OrderPart
  <2>5. QED
    BY <1>5, <2>1, <2>2, <2>3, <2>4 DEF Untouched
<1>10. /\ \A k \in Node \ {Server} : hello'[k] = {}
       /\ \A s \in sent' : s.sequence_num <= Cardinality(Used')
       /\ failed' \subseteq Ids(Workload)
  BY <1>1, <1>3, <1>4 DEF OrderPart
<1>11. QED
  BY <1>4, <1>7, <1>8, <1>9, <1>10 DEF OrderPart

LEMMA OrderStep ==
  ASSUME Orderly, IInv, OrderPart, [Next]_vars
  PROVE  OrderPart'
<1>1. ASSUME NEW m \in Workload, NEW accepted \in 0 .. FrameCount(m), Send(m, accepted)
      PROVE  OrderPart'
  <2>1. accepted \in Nat
    OBVIOUS
  <2>2. QED
    BY <1>1, <2>1, SendOrder
<1>2. ASSUME NEW n \in Node, ReceiveStaged(n) PROVE OrderPart'
  <2>1. /\ receive_staged(eng[n], n, hello[n], clock).res = "OK"
        /\ Finish(n, receive_staged(eng[n], n, hello[n], clock), {}, {})
    BY <1>2 DEF ReceiveStaged
  <2>2. {} \in Hellos(n)
    BY DEF Hellos
  <2>3. QED
    BY <2>1, <2>2, StagedOrder
<1>3. ASSUME NEW n \in Node, NEW h \in Hellos(n), ReceiveTimeout(n, h) PROVE OrderPart'
  <2>1. /\ receive_staged(eng[n], n, hello[n], clock).res \in {"ERR_EMPTY", "ERR_EXPIRED"}
        /\ Finish(n, receive_staged(eng[n], n, hello[n], clock), {}, h)
    BY <1>3 DEF ReceiveTimeout
  <2>2. QED
    BY <2>1, StagedOrder
<1>4. ASSUME NEW n \in Node, NEW m \in net, NEW copies \in {0, 1}, NEW h \in Hellos(n),
             ReceiveWire(n, m, copies, h)
      PROVE  OrderPart'
  BY <1>4, WireOrder
<1>5. ASSUME NEW n \in Node, NEW u \in EngineShape, eng' = [eng EXCEPT ![n] = u],
             u.m_ordering = eng[n].m_ordering, u.m_held_pending = eng[n].m_held_pending,
             u.m_seq_state = eng[n].m_seq_state,
             UNCHANGED <<connecting, hello, delivered, stale, sent, failed>>
      PROVE  OrderPart'
  <2>1. Used' = Used
    BY <1>5 DEF Used
  <2>2. NumbersUpTo(u, Cardinality(Used) + 1)
    BY <1>5 DEF OrderPart, NumbersUpTo
  <2>3. /\ \A k \in Node : NumbersUpTo(eng[k], Cardinality(Used) + 1)
        /\ \A s \in sent' : s.sequence_num <= Cardinality(Used)
        /\ failed' \subseteq Ids(Workload)
    BY <1>5 DEF OrderPart
  <2>4. QED
    BY <1>5, <2>1, <2>2, <2>3, OthersOrder
<1>6. ASSUME NEW n \in Node, PumpRetries(n) PROVE OrderPart'
  <2> DEFINE e == eng[n]
             u == pump_retries(e, clock).engine
  <2>1. /\ eng' = [eng EXCEPT ![n] = u]
        /\ UNCHANGED <<connecting, hello, delivered, stale, sent, failed>>
    BY <1>6 DEF PumpRetries
  <2>2. e \in EngineShape /\ EngineOK(e, n, sent) /\ clock \in Nat
    BY InvParts DEF IInv, Shape
  <2> HIDE DEF e
  <2>3. u \in EngineShape
    BY <2>2, PumpOutcome DEF Receded
  <2>4. /\ u.m_ordering = e.m_ordering /\ u.m_held_pending = e.m_held_pending
        /\ u.m_seq_state = e.m_seq_state
    BY <2>2 DEF pump_retries, EngineShape
  <2> HIDE DEF u
  <2>5. QED
    BY <1>5, <2>1, <2>3, <2>4 DEF e
<1>7. ASSUME NEW n \in Node, SweepAckTimeouts(n) PROVE OrderPart'
  <2> DEFINE e == eng[n]
             u == sweep_ack_timeouts(e, clock).engine
             p == OB!sweep_expired_holds(e.m_ordering, clock, ORDERING_HOLD_COUNT)
  <2>1. /\ eng' = [eng EXCEPT ![n] = u]
        /\ UNCHANGED <<connecting, hello, delivered, stale, sent, failed>>
    BY <1>7 DEF SweepAckTimeouts
  <2>2. e \in EngineShape /\ EngineOK(e, n, sent) /\ clock \in Nat
    BY InvParts DEF IInv, Shape
  <2> HIDE DEF e
  <2>3. u \in EngineShape
    BY <2>2, SweepOutcome DEF Receded
  <2>4. p.buffer = e.m_ordering
    <3>1. \A x \in Holding(e.m_ordering) : x.expiry_time_us = 0
      BY <2>2, UsedBound DEF EngineOK
    <3>2. QED
      BY <2>2, <3>1, EngineFields, SweepIdle
  <2>5. /\ u.m_ordering = e.m_ordering \/ u.m_ordering = p.buffer
        /\ u.m_held_pending = e.m_held_pending
        /\ u.m_seq_state = e.m_seq_state
    BY <2>2 DEF sweep_ack_timeouts, EngineShape
  <2> HIDE DEF u
  <2>6. QED
    BY <1>5, <2>1, <2>3, <2>4, <2>5 DEF e
<1>8. ASSUME NEW n \in Node, Restart(n) PROVE OrderPart'
  BY <1>8, RestartOrder
<1>9. ASSUME UNCHANGED <<eng, connecting, hello, delivered, stale, sent, failed>>
      PROVE  OrderPart'
  <2>1. Used' = Used /\ Unreset' = Unreset /\ \A k \in Node : Ended(k)' = Ended(k)
    BY <1>9 DEF Used, Unreset, Ended, Ids
  <2>2. QED
    BY <1>9, <2>1 DEF OrderPart
<1>10. QED
  BY <1>1, <1>2, <1>3, <1>4, <1>6, <1>7, <1>8, <1>9 DEF Next, Traffic, Tick, vars

OrderInv == IInv /\ OrderPart

LEMMA OrderInvariance == Orderly => (Spec => []OrderInv)
<1> SUFFICES ASSUME Orderly PROVE Spec => []OrderInv
  OBVIOUS
<1>1. Init => OrderInv
  <2> SUFFICES ASSUME Init PROVE OrderInv
    OBVIOUS
  <2>1. /\ \A k \in Node : eng[k] = EngineInit /\ delivered[k] = <<>> /\ hello[k] = {}
        /\ sent = {} /\ failed = {}
    BY DEF Init
  <2>2. KeptBy(EngineInit) = {}
    BY EngineInitOK DEF KeptBy
  <2>3. Untouched(EngineInit, <<>>, Unreset, Ids(stale))
    BY <2>2 DEF Untouched
  <2>4. OrderPart
    BY <2>1, <2>3, FreshOrder, SystemAssumption DEF OrderPart
  <2>5. QED
    BY <2>4, InitOK DEF OrderInv
<1>2. OrderInv /\ [Next]_vars => OrderInv'
  BY StepOK, OrderStep DEF OrderInv
<1>3. QED
  BY <1>1, <1>2, PTL DEF Spec

\* Messages of which the server has a copy, and which are not of an old session.
LEMMA NotOfOld ==
  ASSUME IInv, NEW x, ~OfOldSession(x), Genuine(x, sent)
  PROVE  x.message_id \notin Ids(stale)
<1> SUFFICES ASSUME NEW y \in stale, x.message_id = y.message_id PROVE FALSE
  BY DEF Ids
<1>1. PICK s \in sent : Copy(x, s)
  BY DEF Genuine
<1>2. y \in sent /\ UniqueIds(sent)
  BY InvParts DEF IInv, Shape
<1>3. s = y
  BY <1>1, <1>2 DEF Copy, Alike, UniqueIds
<1>4. QED
  BY <1>1, <1>3 DEF Copy, Alike, OfOldSession, SameMessage

\* An application gets the numbered messages of each sender's session in increasing
\* order, whatever the network loses, repeats and reorders and however often clients
\* restart: the gate passes a number only when it hands the message out or stages it,
\* receive() hands out what is staged before it reads the transport, and the reset that
\* a HELLO brings comes after the last message of the client's old session and before the
\* first of the new one (handle_ordering_gate(), deliver_held_pending(),
\* drain_hello_reconnects()).
THEOREM DeliveredInOrder == Orderly => (Spec => []InOrderDelivery)
<1> SUFFICES ASSUME Orderly PROVE Spec => []InOrderDelivery
  OBVIOUS
<1>1. OrderInv => InOrderDelivery
  <2> SUFFICES ASSUME OrderInv, NEW n \in Node,
                      NEW j \in DOMAIN delivered[n], NEW i \in 1 .. j - 1,
                      delivered[n][i].source_id = delivered[n][j].source_id,
                      delivered[n][i].sequence_num # 0, delivered[n][j].sequence_num # 0,
                      ~OfOldSession(delivered[n][i]), ~OfOldSession(delivered[n][j])
               PROVE  delivered[n][i].sequence_num < delivered[n][j].sequence_num
    BY DEF InOrderDelivery
  <2>1. i \in DOMAIN delivered[n]
    <3>1. delivered[n] \in Seq(Envelope)
      BY DEF OrderInv, IInv, Shape
    <3>2. QED
      BY <3>1
  <2>2. Genuine(delivered[n][i], sent) /\ Genuine(delivered[n][j], sent)
    BY <2>1 DEF OrderInv, IInv, TrafficOK
  <2>3. /\ delivered[n][i].message_id \notin Ended(n)
        /\ delivered[n][j].message_id \notin Ended(n)
    BY <2>2, NotOfOld DEF OrderInv, Ended
  <2>4. InOrder(delivered[n], Ended(n))
    BY DEF OrderInv, OrderPart, OrderOK
  <2>5. QED
    BY <2>3, <2>4 DEF InOrder
<1>2. QED
  BY <1>1, OrderInvariance, PTL

-----------------------------------------------------------------------------
(* What waits is not lost.                                                 *)

\* m_held_pending is a single place.
OneStaged(e) == \A x, y \in e.m_held_pending : x = y

\* What a node keeps before a step, it keeps after it or hands out, apart from that of
\* the sources in H.
KeepsBut(e, u, out, H) ==
  \A x \in KeptBy(e) : x \in KeptBy(u) \/ x \in out \/ x.source_id \in H

\* A held message of the source of y that is not before y has expired.
Outlived(o, y, now) ==
  \E x \in Holding(o) : /\ x.source_id = y.source_id
                        /\ x.sequence_num >= y.sequence_num
                        /\ timestamp_expired(x.expiry_time_us, now)

\* One iteration of sweep_expired_holds() frees the expired message and those of its
\* source before it.
LEMMA SweepStepKeeps ==
  ASSUME NEW b \in OB!Buffer, PeersOK(b), NEW s, s.buffer = b, NEW k \in OB!HoldIndex,
         NEW now, NEW cap, NEW y \in Holding(b)
  PROVE  y \in Holding(OB!SweepHold(s, k, now, cap).buffer) \/ Outlived(b, y, now)
<1> DEFINE env == b.m_hold[k].env
           v == OB!seq_next_guarded(env.sequence_num)
           n == env.source_id
           i == OB!Min(OB!find_peer(b, n))
           old == {h \in OB!HeldFrom(b, n) : b.m_hold[h].env.sequence_num < v}
           u == OB!Unhold(b, old)
           a == OB!advance_sequence(b, n, v)
           c == OB!Unhold(a, {k})
<1>1. CASE k \notin OB!ExpiredHolds(b, now)
  BY <1>1 DEF OB!SweepHold
<1>2. CASE k \in OB!ExpiredHolds(b, now)
  <2>1. OB!SweepHold(s, k, now, cap).buffer = c
    BY <1>2 DEF OB!SweepHold
  <2>2. /\ k \in OB!Held(b) /\ env \in Holding(b) /\ env.sequence_num \in Nat
        /\ timestamp_expired(env.expiry_time_us, now)
    BY <1>2, SlotFacts DEF OB!ExpiredHolds, OB!Held, Holding, Envelope,
       OB!timestamp_expired, timestamp_expired
  <2>3. PICK h \in OB!Held(b) : y = b.m_hold[h].env
    BY DEF Holding
  <2>4. y.sequence_num \in Nat /\ h \in OB!HoldIndex
    BY <2>3, SlotFacts DEF OB!Held, Envelope
  <2>5. v \in 1 .. SEQ_MAX
    BY <2>2, NextNumbers
  <2>6. a \in OB!Buffer
    BY <2>5, AdvanceShrinks, ShrunkFacts
  <2>7. CASE h = k
    BY <2>2, <2>3, <2>4, <2>7 DEF Outlived
  <2>8. CASE h # k /\ h \in old
    <3>1. y.source_id = env.source_id /\ y.sequence_num < v
      BY <2>3, <2>8 DEF OB!HeldFrom
    <3>2. y.sequence_num <= env.sequence_num
      BY <2>2, <2>4, <3>1, CapacityAssumption DEF OB!seq_next_guarded
    <3>3. QED
      BY <2>2, <2>4, <3>1, <3>2 DEF Outlived
  <2>9. CASE h # k /\ h \notin old
    <3> HIDE DEF n, v, env
    <3>1. a = b \/ a = [u EXCEPT !.m_peers[i].next_expected_seq = v]
      <4>1. CASE OB!find_peer(b, n) = {} \/ ~(v > b.m_peers[i].next_expected_seq)
        BY <4>1 DEF OB!advance_sequence
      <4>2. CASE OB!find_peer(b, n) # {} /\ v > b.m_peers[i].next_expected_seq
        BY <4>2 DEF OB!advance_sequence
      <4>3. QED
        BY <4>1, <4>2
    <3>2. u \in OB!Buffer /\ u.m_hold[h] = b.m_hold[h]
      BY <2>4, <2>9, UnholdShrinks DEF Shrunk
    <3> HIDE DEF u, a, i
    <3>3. a.m_hold[h] = b.m_hold[h]
      BY <3>1, <3>2 DEF OB!Buffer
    <3>4. c.m_hold[h] = a.m_hold[h]
      BY <2>4, <2>6, <2>9, UnholdShrinks
    <3> HIDE DEF c
    <3>5. h \in OB!Held(c) /\ y = c.m_hold[h].env
      BY <2>3, <2>4, <3>3, <3>4 DEF OB!Held
    <3>6. QED
      BY <2>1, <3>5 DEF Holding
  <2>10. QED
    BY <2>7, <2>8, <2>9
<1>3. QED
  BY <1>1, <1>2

\* The sweep drops a held message only for one of its source that has expired.
LEMMA SweepKeeps ==
  ASSUME NEW o \in OB!Buffer, PeersOK(o), NEW now, NEW cap
  PROVE  \A y \in Holding(o) :
           y \in Holding(OB!sweep_expired_holds(o, now, cap).buffer) \/ Outlived(o, y, now)
<1> DEFINE N == ORDERING_HOLD_COUNT
           Done(b) == /\ Shrunk(o, b)
                      /\ \A y \in Holding(o) : y \in Holding(b) \/ Outlived(o, y, now)
<1>0. N \in Nat /\ N > 0
  BY CapacityAssumption
<1>1. PICK g : /\ g[0] = [freed |-> <<>>, buffer |-> o]
               /\ \A k \in OB!HoldIndex : g[k] = OB!SweepHold(g[k - 1], k, now, cap)
               /\ OB!sweep_expired_holds(o, now, cap) = g[N]
  BY SweepLoop
<1> DEFINE Bad == {k \in 0 .. N : ~Done(g[k].buffer)}
<1>2. Done(g[0].buffer)
  BY <1>1, ShrunkTwice
<1>3. ASSUME NEW m \in OB!HoldIndex, Done(g[m - 1].buffer)
      PROVE  Done(g[m].buffer)
  <2> DEFINE s == g[m - 1]
             b == s.buffer
             t == OB!SweepHold(s, m, now, cap).buffer
  <2>1. g[m].buffer = t
    BY <1>1
  <2>2. b \in OB!Buffer /\ PeersOK(b) /\ Holding(b) \subseteq Holding(o) /\ Shrunk(o, b)
    BY <1>3, ShrunkFacts
  <2>3. Shrunk(o, t)
    BY <2>2, SweepStep
  <2>4. \A y \in Holding(b) : y \in Holding(t) \/ Outlived(b, y, now)
    BY <2>2, SweepStepKeeps
  <2>5. \A y \in Holding(o) : y \in Holding(b) \/ Outlived(o, y, now)
    BY <1>3
  <2> HIDE DEF b, t
  <2>6. \A y : Outlived(b, y, now) => Outlived(o, y, now)
    BY <2>2 DEF Outlived
  <2>7. QED
    BY <2>1, <2>3, <2>4, <2>5, <2>6
<1> HIDE DEF Done
<1>4. Bad = {}
  <2> SUFFICES ASSUME Bad # {} PROVE FALSE
    OBVIOUS
  <2> DEFINE m == Min(Bad)
  <2>1. m \in Bad /\ \A x \in Bad : m <= x
    <3>1. Bad \subseteq Nat
      BY <1>0
    <3> HIDE DEF Bad
    <3>2. QED
      BY <3>1, MinIsLeast
  <2>2. m \in 0 .. N /\ ~Done(g[m].buffer)
    BY <2>1
  <2> HIDE DEF m
  <2>3. m # 0
    BY <1>2, <2>2
  <2>4. m - 1 \in 0 .. N /\ m - 1 \notin Bad /\ m \in OB!HoldIndex
    BY <1>0, <2>1, <2>2, <2>3 DEF OB!HoldIndex
  <2>5. Done(g[m - 1].buffer)
    BY <2>4
  <2>6. QED
    BY <1>3, <2>2, <2>4, <2>5
<1>5. Done(g[N].buffer)
  BY <1>0, <1>4
<1>6. QED
  BY <1>1, <1>5 DEF Done

LEMMA ReleaseKeeps ==
  ASSUME NEW o \in OB!Buffer, PeersOK(o), NEW n, NEW r, r = OB!try_release_next(o, n),
         r.res = "OK"
  PROVE  /\ \A x, y \in r.out : x = y
         /\ \A x \in Holding(o) : x \in Holding(r.buffer) \/ x \in r.out
<1> DEFINE h == OB!Min(OB!ReleasableFrom(o, n))
           i == OB!Min(OB!find_peer(o, n))
           u == OB!Unhold(o, {h})
           q == [u EXCEPT !.m_peers[i].next_expected_seq = OB!advance_next_expected(@)]
           y == o.m_hold[h].env
<1>1. OB!ReleasableFrom(o, n) # {}
  BY DEF OB!try_release_next
<1>2. r = [res |-> "OK", out |-> {y}, buffer |-> q]
  BY <1>1 DEF OB!try_release_next
<1>3. u.m_hold = [k \in OB!HoldIndex |-> IF k \in {h} THEN OB!NoHold ELSE o.m_hold[k]]
  BY DEF OB!Unhold, OB!Buffer
<1> HIDE DEF h, i
<1>4. u \in OB!Buffer
  BY UnholdShrinks DEF Shrunk
<1> HIDE DEF u
<1>5. q.m_hold = u.m_hold
  BY <1>4 DEF OB!Buffer
<1> HIDE DEF q, y
<1>6. r.buffer.m_hold = u.m_hold /\ r.out = {y}
  BY <1>2, <1>5
<1>7. ASSUME NEW k \in OB!Held(o), k # h
      PROVE  k \in OB!Held(r.buffer) /\ r.buffer.m_hold[k] = o.m_hold[k]
  BY <1>3, <1>6, <1>7 DEF OB!Held
<1>8. ASSUME NEW x \in Holding(o) PROVE x \in Holding(r.buffer) \/ x = y
  <2>1. PICK k \in OB!Held(o) : x = o.m_hold[k].env
    BY DEF Holding
  <2>2. CASE k = h
    BY <2>1, <2>2 DEF y
  <2>3. CASE k # h
    BY <1>7, <2>1, <2>3 DEF Holding
  <2>4. QED
    BY <2>2, <2>3
<1>9. QED
  BY <1>6, <1>8

\* Staging moves a message of the source from its hold slot to the place of the staged
\* one, and overwrites what is there.
LEMMA StageKeeps ==
  ASSUME NEW e \in EngineShape, PeersOK(e.m_ordering), OneStaged(e), NEW src
  PROVE  LET u == StageNext(e, src)
         IN  /\ OneStaged(u)
             /\ \A y \in KeptBy(e) : y \in KeptBy(u) \/ y \in e.m_held_pending
             /\ \A y \in u.m_held_pending : y \in e.m_held_pending \/ y.source_id = src
<1> DEFINE u == StageNext(e, src)
           o == e.m_ordering
           r == OB!try_release_next(o, src)
<1>1. o \in OB!Buffer
  BY EngineFields
<1>2. CASE r.res # "OK"
  <2>1. u = e
    BY <1>2 DEF StageNext
  <2>2. QED
    BY <2>1 DEF OneStaged
<1>3. CASE r.res = "OK"
  <2>1. /\ \A x, y \in r.out : x = y
        /\ \A x \in Holding(o) : x \in Holding(r.buffer) \/ x \in r.out
    BY <1>1, <1>3, ReleaseKeeps
  <2>2. \A x \in r.out : x.source_id = src
    BY <1>1, <1>3, ReleaseShrinks
  <2>3. u = [e EXCEPT !.m_ordering = r.buffer, !.m_held_pending = r.out]
    BY <1>3 DEF StageNext
  <2> HIDE DEF r
  <2>4. u.m_ordering = r.buffer /\ u.m_held_pending = r.out
    BY <2>3 DEF EngineShape
  <2> HIDE DEF u
  <2>5. /\ OneStaged(u)
        /\ \A y \in KeptBy(e) : y \in KeptBy(u) \/ y \in e.m_held_pending
        /\ \A y \in u.m_held_pending : y \in e.m_held_pending \/ y.source_id = src
    BY <2>1, <2>2, <2>4 DEF OneStaged, KeptBy
  <2>6. QED
    BY <2>5 DEF u
<1>4. QED
  BY <1>2, <1>3

\* The staged message is handed out or, if it has expired, dropped; the next one of its
\* source takes its place.
LEMMA DeliverKeeps ==
  ASSUME NEW e \in EngineShape, PeersOK(e.m_ordering), OneStaged(e),
         e.m_held_pending # {}, NEW n, NEW now
  PROVE  LET o == deliver_held_pending(e, n, now)
         IN  /\ OneStaged(o.engine)
             /\ \E env \in e.m_held_pending :
                  /\ \A y \in KeptBy(e) : y \in KeptBy(o.engine) \/ y = env
                  /\ \A y \in o.engine.m_held_pending : y.source_id = env.source_id
                  /\ o.out = {env} \/ (/\ o.out = {}
                                      /\ timestamp_expired(env.expiry_time_us, now))
                  /\ o.res # "OK" => timestamp_expired(env.expiry_time_us, now)
<1> DEFINE o == deliver_held_pending(e, n, now)
           env == CHOOSE x \in e.m_held_pending : TRUE
           c == [e EXCEPT !.m_held_pending = {}]
           w == StageNext(c, env.source_id)
<1>1. env \in e.m_held_pending
  OBVIOUS
<1>2. o = IF timestamp_expired(env.expiry_time_us, now)
            THEN Outcome("ERR_EXPIRED", w, {}, {})
            ELSE Outcome("OK", w, {env}, AcksFor(n, {env}))
  BY DEF deliver_held_pending
<1> HIDE DEF env
<1>3. /\ o.engine = w
      /\ o.out = {env} \/ (o.out = {} /\ timestamp_expired(env.expiry_time_us, now))
      /\ o.res # "OK" => timestamp_expired(env.expiry_time_us, now)
  BY <1>2 DEF Outcome
<1>4. c \in EngineShape /\ c.m_ordering = e.m_ordering /\ c.m_held_pending = {}
  BY DEF EngineShape
<1> HIDE DEF c, o
<1>5. /\ OneStaged(w) /\ KeptBy(c) \subseteq KeptBy(w)
      /\ \A y \in w.m_held_pending : y.source_id = env.source_id
  <2>1. OneStaged(c)
    BY <1>4 DEF OneStaged
  <2>2. QED
    BY <1>4, <2>1, StageKeeps
<1> HIDE DEF w
<1>6. \A y \in KeptBy(e) : y \in KeptBy(c) \/ y = env
  BY <1>1, <1>4 DEF KeptBy, OneStaged
<1>7. QED
  BY <1>1, <1>3, <1>5, <1>6 DEF o

\* Neither a new gate nor a message that is held displaces one that is held.
LEMMA IngestHolds ==
  ASSUME NEW o \in OB!Buffer, PeersOK(o), NEW x \in Envelope, NEW r, r = OB!ingest(o, x)
  PROVE  Holding(o) \subseteq Holding(r.buffer)
<1> DEFINE n == x.source_id
           i == OB!PeerSlotFor(o, n)
           p == OB!get_or_create_peer(o, n)
           e == p.m_peers[i].next_expected_seq
           q == [p EXCEPT !.m_peers[i].next_expected_seq = OB!advance_next_expected(@)]
<1>1. CASE ~OB!Ordered(x)
  BY <1>1 DEF OB!ingest
<1>2. CASE OB!Ordered(x)
  <2>1. n \in Node /\ x.sequence_num \in Nat
    BY DEF Envelope
  <2>2. p \in OB!Buffer /\ PeersOK(p) /\ p.m_hold = o.m_hold /\ i \in OB!find_peer(p, n)
    BY <2>1, CreatePeer
  <2>3. r = CASE x.sequence_num < e -> [res |-> "ERR_AGAIN", buffer |-> p]
              [] x.sequence_num = e -> [res |-> "OK", buffer |-> q]
              [] x.sequence_num > e -> OB!hold(p, x)
    BY <1>2 DEF OB!ingest
  <2>4. q.m_hold = p.m_hold
    BY <2>2 DEF OB!Buffer
  <2> HIDE DEF p, i, q
  <2>5. e \in Nat
    BY <2>2, GateFacts, CapacityAssumption
  <2> HIDE DEF e
  <2>6. CASE x.sequence_num < e \/ x.sequence_num = e
    <3>1. r.buffer.m_hold = o.m_hold
      BY <2>1, <2>2, <2>3, <2>4, <2>5, <2>6
    <3>2. QED
      BY <3>1 DEF Holding, OB!Held
  <2>7. CASE x.sequence_num > e
    <3> DEFINE k == OB!Min(OB!HoldIndex \ OB!Held(p))
               t == [active |-> TRUE, env |-> x]
               b == [p EXCEPT !.m_hold[k] = t]
    <3>1. r = OB!hold(p, x)
      BY <2>1, <2>3, <2>5, <2>7
    <3>2. r.buffer = p \/ (OB!Held(p) # OB!HoldIndex /\ r.buffer = b)
      BY <3>1 DEF OB!hold
    <3>3. CASE r.buffer = p
      BY <2>2, <3>3 DEF Holding, OB!Held
    <3>4. CASE OB!Held(p) # OB!HoldIndex /\ r.buffer = b
      <4>1. k \notin OB!Held(p)
        <5>1. OB!HoldIndex \ OB!Held(p) # {} /\ OB!HoldIndex \ OB!Held(p) \subseteq Nat
          BY <3>4, TableIndices DEF OB!Held
        <5>2. QED
          BY <5>1, FirstIsOne
      <4> HIDE DEF k, t
      <4>2. \A h \in OB!HoldIndex : h # k => b.m_hold[h] = p.m_hold[h]
        BY <2>2 DEF OB!Buffer
      <4> HIDE DEF b
      <4>3. \A h \in OB!Held(p) : h \in OB!Held(b) /\ b.m_hold[h] = p.m_hold[h]
        BY <4>1, <4>2 DEF OB!Held
      <4>4. Holding(p) \subseteq Holding(b)
        BY <4>3 DEF Holding
      <4>5. Holding(p) = Holding(o)
        BY <2>2 DEF Holding, OB!Held
      <4>6. QED
        BY <3>4, <4>4, <4>5
    <3>5. QED
      BY <3>2, <3>3, <3>4
  <2>8. QED
    BY <2>1, <2>5, <2>6, <2>7
<1>3. QED
  BY <1>1, <1>2

\* The data path drops a held message only for one that has expired, and overwrites
\* what is staged.
LEMMA DataKeeps ==
  ASSUME NEW e \in EngineShape, PeersOK(e.m_ordering), OneStaged(e),
         NEW x \in Envelope, NEW n, NEW now \in Nat
  PROVE  LET o == handle_data_path(e, n, x, now)
         IN  /\ OneStaged(o.engine)
             /\ \A y \in KeptBy(e) : \/ y \in KeptBy(o.engine) \/ y \in e.m_held_pending
                                     \/ Outlived(e.m_ordering, y, now)
<1> DEFINE o == handle_data_path(e, n, x, now)
           dedup == handle_data_dedup(e, x, now)
           g == dedup.filter
           fresh == [e EXCEPT !.m_dedup = g]
           gate == handle_ordering_gate(fresh, x, now)
           p == gate.buffer
           u == [fresh EXCEPT !.m_ordering = p]
           b == e.m_ordering
           q == OB!sweep_expired_holds(b, now, ORDERING_HOLD_COUNT).buffer
<1>1. b \in OB!Buffer /\ PeersOK(b)
  BY EngineFields
<1>2. CASE dedup.res # "OK"
  <2>1. o = Outcome("ERR_DUPLICATE", e, {}, {envelope_make_ack(x, n)})
    BY <1>2 DEF handle_data_path
  <2>2. o.engine = e
    BY <2>1 DEF Outcome
  <2> HIDE DEF o
  <2>3. QED
    BY <2>2 DEF OneStaged, o
<1>3. CASE dedup.res = "OK"
  <2>1. g \in DF!Filter
    <3>1. e.m_dedup \in DF!Filter /\ x.source_id \in Node /\ x.message_id \in MessageId
      BY EngineFields DEF Envelope
    <3>2. QED
      BY <3>1, DedupShape DEF handle_data_dedup
  <2> HIDE DEF g
  <2>2. /\ fresh \in EngineShape /\ fresh.m_ordering = b
        /\ fresh.m_held_pending = e.m_held_pending
    BY <2>1 DEF EngineShape
  <2> HIDE DEF fresh
  <2>3. gate = OB!ingest(q, x)
    BY <2>2 DEF handle_ordering_gate
  <2>4. p \in OB!Buffer /\ PeersOK(p)
    BY <1>1, <2>3, GateStep
  <2>5. \A y \in Holding(b) : y \in Holding(q) \/ Outlived(b, y, now)
    BY <1>1, SweepKeeps
  <2>6. q \in OB!Buffer /\ PeersOK(q)
    BY <1>1, SweepShrinks, ShrunkFacts
  <2> HIDE DEF q
  <2>7. Holding(q) \subseteq Holding(p)
    BY <2>3, <2>6, IngestHolds
  <2>8. o = IF gate.res # "OK" THEN Outcome(gate.res, u, {}, {})
            ELSE Outcome("OK", StageNext(u, x.source_id), {x}, AcksFor(n, {x}))
    BY <1>3 DEF handle_data_path, fresh, g
  <2> HIDE DEF gate, p
  <2>9. u \in EngineShape /\ u.m_ordering = p /\ u.m_held_pending = e.m_held_pending
    BY <2>2, <2>4 DEF EngineShape
  <2> HIDE DEF u, o, b
  <2>10. OneStaged(u) /\ \A y \in KeptBy(e) : y \in KeptBy(u) \/ Outlived(b, y, now)
    BY <2>5, <2>7, <2>9 DEF OneStaged, KeptBy, b
  <2>11. o.engine = u \/ o.engine = StageNext(u, x.source_id)
    BY <2>8 DEF Outcome
  <2>12. /\ OneStaged(StageNext(u, x.source_id))
         /\ \A y \in KeptBy(u) : \/ y \in KeptBy(StageNext(u, x.source_id))
                                 \/ y \in e.m_held_pending
    BY <2>4, <2>9, <2>10, StageKeeps
  <2>13. QED
    BY <2>10, <2>11, <2>12 DEF o, b
<1>4. QED
  BY <1>2, <1>3

\* The reset for a HELLO drops what its source had sent, and nothing else.
LEMMA ResetKeeps ==
  ASSUME NEW e \in EngineShape, PeersOK(e.m_ordering), NEW p, NEW u,
         u = reset_peer_ordering(e, p)
  PROVE  KeepsBut(e, u, {}, {p})
<1> DEFINE o == e.m_ordering
           q == OB!reset_peer(o, p)
           v == OB!Unhold(o, OB!HeldFrom(o, p))
           i == OB!Min(OB!find_peer(o, p))
<1>1. u.m_ordering = q /\ u.m_held_pending = {h \in e.m_held_pending : h.source_id # p}
  BY DEF reset_peer_ordering, EngineShape
<1>2. o \in OB!Buffer
  BY EngineFields
<1>3. q = o \/ q = [v EXCEPT !.m_peers[i].next_expected_seq = 1]
  BY DEF OB!reset_peer
<1>4. /\ v \in OB!Buffer
      /\ \A h \in OB!HoldIndex : v.m_hold[h] = IF h \in OB!HeldFrom(o, p) THEN OB!NoHold
                                                                          ELSE o.m_hold[h]
  BY <1>2, UnholdShrinks DEF Shrunk
<1> HIDE DEF v, i, q
<1>5. q.m_hold = o.m_hold \/ q.m_hold = v.m_hold
  BY <1>3, <1>4 DEF OB!Buffer
<1>6. ASSUME NEW h \in OB!Held(o), o.m_hold[h].env.source_id # p
      PROVE  h \in OB!Held(q) /\ q.m_hold[h] = o.m_hold[h]
  <2>1. h \in OB!HoldIndex /\ h \notin OB!HeldFrom(o, p)
    BY <1>6 DEF OB!HeldFrom, OB!Held
  <2>2. q.m_hold[h] = o.m_hold[h]
    BY <1>4, <1>5, <2>1
  <2>3. QED
    BY <1>6, <2>1, <2>2 DEF OB!Held
<1>7. \A x \in Holding(o) : x \in Holding(q) \/ x.source_id = p
  BY <1>6 DEF Holding
<1>8. QED
  BY <1>1, <1>7 DEF KeepsBut, KeptBy

LEMMA DrainKeeps ==
  ASSUME NEW e \in EngineShape, NEW n, NEW S, EngineOK(e, n, S), NEW H, IsFiniteSet(H)
  PROVE  KeepsBut(e, drain_hello_reconnects(e, H), {}, H)
<1> DEFINE N == Cardinality(H)
           queue == SetToSeq(H)
<1>0. N \in Nat /\ \A k \in 1 .. N : queue[k] \in H
  BY QueueHasAll
<1>1. PICK g : /\ g[0] = e
               /\ \A k \in 1 .. N : g[k] = reset_peer_ordering(g[k - 1], queue[k])
               /\ drain_hello_reconnects(e, H) = g[N]
  BY DrainLoop
<1> HIDE DEF queue
<1> DEFINE Done(k) == Receded(e, g[k]) /\ KeepsBut(e, g[k], {}, H)
           Bad == {k \in 0 .. N : ~Done(k)}
<1>2. Done(0)
  BY <1>1, RecededTwice DEF KeepsBut
<1>3. ASSUME NEW m \in 1 .. N, Done(m - 1) PROVE Done(m)
  <2> DEFINE a == g[m - 1]
             b == g[m]
  <2>1. b = reset_peer_ordering(a, queue[m]) /\ Receded(e, a) /\ a \in EngineShape
    BY <1>1, <1>3 DEF Receded
  <2>2. EngineOK(a, n, S) /\ PeersOK(a.m_ordering)
    BY <2>1, RecededOK DEF EngineOK
  <2>3. KeepsBut(e, a, {}, H)
    BY <1>3
  <2> HIDE DEF a, b
  <2>4. Receded(a, b)
    BY <2>1, <2>2, ResetPeerOrdering
  <2>5. Receded(e, b)
    BY <2>1, <2>4, RecededTwice
  <2>6. KeepsBut(a, b, {}, {queue[m]})
    BY <2>1, <2>2, ResetKeeps
  <2>7. KeepsBut(e, b, {}, H)
    BY <1>0, <2>3, <2>6 DEF KeepsBut
  <2>8. QED
    BY <2>5, <2>7 DEF b
<1> HIDE DEF Done
<1>4. Bad = {}
  <2> SUFFICES ASSUME Bad # {} PROVE FALSE
    OBVIOUS
  <2> DEFINE m == Min(Bad)
  <2>1. m \in Bad /\ \A x \in Bad : m <= x
    <3>1. Bad \subseteq Nat
      BY <1>0
    <3> HIDE DEF Bad
    <3>2. QED
      BY <3>1, MinIsLeast
  <2>2. m \in 0 .. N /\ ~Done(m)
    BY <2>1
  <2> HIDE DEF m
  <2>3. m # 0
    BY <1>2, <2>2
  <2>4. m - 1 \in 0 .. N /\ m - 1 \notin Bad /\ m \in 1 .. N
    BY <1>0, <2>1, <2>2, <2>3
  <2>5. Done(m - 1)
    BY <2>4
  <2>6. QED
    BY <1>3, <2>2, <2>4, <2>5
<1>5. Done(N)
  BY <1>0, <1>4
<1>6. QED
  BY <1>1, <1>5 DEF Done

AllStaged == \A k \in Node : OneStaged(eng[k])

\* A message that e keeps has expired, and with it y is given up.
Lapsed(e, y, now) ==
  \E x \in KeptBy(e) : /\ x.source_id = y.source_id
                       /\ timestamp_expired(x.expiry_time_us, now)
                       /\ x.sequence_num >= y.sequence_num \/ x \in e.m_held_pending

\* No step loses what a node keeps, unless its source has sent a HELLO, a node starts
\* again or it is given up.
Retained ==
  \A k \in Node : \A x \in KeptBy(eng[k]) :
    \/ x \in KeptBy(eng'[k])
    \/ \E i \in DOMAIN delivered'[k] : delivered'[k][i] = x
    \/ x.source_id \in hello[k]
    \/ restarts' # restarts
    \/ Lapsed(eng[k], x, clock)

\* The first part of receive().  When it goes on to the transport, what it leaves staged
\* is of a source whose staged message has expired.
LEMMA StagedKeeps ==
  ASSUME IInv, AllStaged, NEW n \in Node,
         receive_staged(eng[n], n, hello[n], clock).res # "ERR_INVALID"
  PROVE  LET o == receive_staged(eng[n], n, hello[n], clock)
         IN  /\ OneStaged(o.engine)
             /\ \A x \in KeptBy(eng[n]) :
                  \/ x \in KeptBy(o.engine) \/ o.out = {x} \/ x.source_id \in hello[n]
                  \/ Lapsed(eng[n], x, clock)
             /\ o.res # "OK" => \A x \in o.engine.m_held_pending : Lapsed(eng[n], x, clock)
<1> DEFINE e == eng[n]
           t == [e EXCEPT !.m_last_now_us = clock]
           H == hello[n]
           u == drain_hello_reconnects(t, H)
           o == receive_staged(e, n, H, clock)
<1>1. e \in EngineShape /\ EngineOK(e, n, sent) /\ clock \in Nat /\ IsFiniteSet(H)
  BY InvParts, FS_Subset, SystemAssumption DEF IInv, Shape
<1>2. OneStaged(e)
  BY DEF AllStaged
<1>3. ~ClockWentBack(e, clock)
  BY DEF receive_staged, Outcome
<1>4. o = IF u.m_held_pending # {} THEN deliver_held_pending(u, n, clock)
                                   ELSE Outcome("ERR_EMPTY", u, {}, {})
  <2> HIDE DEF u
  <2>1. u = drain_hello_reconnects([e EXCEPT !.m_last_now_us = clock], H)
    BY DEF u
  <2>2. QED
    BY <1>3, <2>1 DEF receive_staged
<1> HIDE DEF o, e
<1>5. Receded(e, t) /\ t.m_ordering = e.m_ordering /\ t.m_held_pending = e.m_held_pending
  BY <1>1, RecededTime
<1>6. t \in EngineShape /\ EngineOK(t, n, sent)
  BY <1>1, <1>5, RecededOK DEF Receded
<1> HIDE DEF t, H
<1>7. Receded(t, u) /\ KeepsBut(t, u, {}, H)
  BY <1>1, <1>6, DrainForgets, DrainKeeps
<1> HIDE DEF u
<1>8. /\ u \in EngineShape /\ EngineOK(u, n, sent) /\ OneStaged(u)
      /\ u.m_held_pending \subseteq e.m_held_pending
  BY <1>2, <1>5, <1>6, <1>7, RecededOK DEF Receded, OneStaged
<1>9. \A x \in KeptBy(e) : x \in KeptBy(u) \/ x.source_id \in H
  BY <1>5, <1>7 DEF KeepsBut, KeptBy
<1>10. CASE u.m_held_pending # {}
  <2>1. o = deliver_held_pending(u, n, clock)
    BY <1>4, <1>10
  <2>2. PeersOK(u.m_ordering)
    BY <1>8 DEF EngineOK
  <2>3. OneStaged(o.engine)
    BY <1>8, <1>10, <2>1, <2>2, DeliverKeeps
  <2>4. PICK env \in u.m_held_pending :
          /\ \A y \in KeptBy(u) : y \in KeptBy(o.engine) \/ y = env
          /\ \A y \in o.engine.m_held_pending : y.source_id = env.source_id
          /\ o.out = {env} \/ (o.out = {} /\ timestamp_expired(env.expiry_time_us, clock))
          /\ o.res # "OK" => timestamp_expired(env.expiry_time_us, clock)
    BY <1>8, <1>10, <2>1, <2>2, DeliverKeeps
  <2>5. ASSUME timestamp_expired(env.expiry_time_us, clock), NEW y,
               y.source_id = env.source_id
        PROVE  Lapsed(e, y, clock)
    BY <1>8, <2>5 DEF Lapsed, KeptBy
  <2>6. QED
    BY <1>9, <2>3, <2>4, <2>5 DEF o, e, H
<1>11. CASE u.m_held_pending = {}
  <2>1. o.engine = u
    BY <1>4, <1>11 DEF Outcome
  <2>2. QED
    BY <1>8, <1>9, <1>11, <2>1 DEF o, e, H
<1>12. QED
  BY <1>10, <1>11

\* The end of receive().
LEMMA FinishKeeps ==
  ASSUME IInv, AllStaged, NEW n \in Node, NEW o, NEW read, NEW hellos,
         Finish(n, o, read, hellos), o.engine \in EngineShape, OneStaged(o.engine),
         \A x \in KeptBy(eng[n]) :
           \/ x \in KeptBy(o.engine) \/ o.out = {x} \/ x.source_id \in hello[n]
           \/ Lapsed(eng[n], x, clock)
  PROVE  AllStaged' /\ Retained
<1> DEFINE c == After(delivered[n], o.out)
<1>1. /\ eng' = [eng EXCEPT ![n] = o.engine]
      /\ delivered' = [delivered EXCEPT ![n] = c]
  BY DEF Finish, After
<1>2. eng'[n] = o.engine /\ \A k \in Node : k # n => eng'[k] = eng[k]
  BY <1>1, OneEngine DEF IInv
<1>3. delivered'[n] = c /\ delivered[n] \in Seq(Envelope)
  BY <1>1 DEF IInv, Shape
<1>4. ASSUME NEW x, o.out = {x} PROVE \E i \in DOMAIN c : c[i] = x
  <2>1. c = Append(delivered[n], x)
    BY <1>4 DEF After
  <2>2. LET i == Len(delivered[n]) + 1 IN i \in DOMAIN c /\ c[i] = x
    BY <1>3, <2>1
  <2>3. QED
    BY <2>2
<1> HIDE DEF c
<1>5. AllStaged'
  BY <1>2 DEF AllStaged
<1>6. ASSUME NEW k \in Node, NEW x \in KeptBy(eng[k])
      PROVE  \/ x \in KeptBy(eng'[k])
             \/ \E i \in DOMAIN delivered'[k] : delivered'[k][i] = x
             \/ x.source_id \in hello[k]
             \/ Lapsed(eng[k], x, clock)
  <2>1. CASE k # n
    BY <1>2, <2>1
  <2>2. CASE k = n
    BY <1>2, <1>3, <1>4, <2>2
  <2>3. QED
    BY <2>1, <2>2
<1>7. QED
  BY <1>5, <1>6 DEF Retained

LEMMA WireKeeps ==
  ASSUME IInv, AllStaged, NEW n \in Node, NEW m \in net, NEW copies,
         NEW hellos, ReceiveWire(n, m, copies, hellos)
  PROVE  AllStaged' /\ Retained
<1> DEFINE o == receive_staged(eng[n], n, hello[n], clock)
           u == o.engine
           w == receive_wire(handle_fragment_ingest(u, m, clock), n, clock)
           read == IF copies = 0 THEN {m} ELSE {}
<1>1. o.res \in {"ERR_EMPTY", "ERR_EXPIRED"} /\ Finish(n, w, read, hellos)
  BY DEF ReceiveWire
<1>2. /\ OneStaged(u) /\ o.out = {}
      /\ \A x \in KeptBy(eng[n]) :
           x \in KeptBy(u) \/ x.source_id \in hello[n] \/ Lapsed(eng[n], x, clock)
      /\ \A x \in u.m_held_pending : Lapsed(eng[n], x, clock)
  BY <1>1, StagedKeeps, StagedFacts
<1>3. /\ u \in EngineShape /\ EngineOK(u, n, sent)
      /\ KeptBy(u) \subseteq KeptBy(eng[n])
  BY <1>1, StagedFacts DEF Answered, Passed
<1> HIDE DEF o, u
<1>4. m \in Envelope /\ clock \in Nat /\ (Genuine(m, sent) \/ MadeAck(m, sent))
  BY InvParts DEF IInv, Shape, TrafficOK
<1>5. \/ w.out = {} /\ w.reply = {} /\ SameInbox(w.engine, u)
      \/ \E f \in EngineShape, x \in Envelope :
           /\ SameInbox(f, u) /\ EngineOK(f, n, sent)
           /\ w = handle_data_path(f, n, x, clock)
  BY <1>3, <1>4, WirePaths
<1>6. w.engine \in EngineShape
  <2>1. \E X : Answered(w, u, n, sent, X)
    BY <1>3, <1>4, InvParts, WireOutcome
  <2>2. QED
    BY <2>1 DEF Answered, Passed
<1> HIDE DEF w
<1>7. /\ OneStaged(w.engine)
      /\ \A y \in KeptBy(u) : \/ y \in KeptBy(w.engine) \/ y \in u.m_held_pending
                              \/ Outlived(u.m_ordering, y, clock)
  <2>1. CASE SameInbox(w.engine, u)
    BY <1>2, <2>1 DEF SameInbox, OneStaged, KeptBy
  <2>2. ASSUME NEW f \in EngineShape, NEW x \in Envelope, SameInbox(f, u),
               EngineOK(f, n, sent), w = handle_data_path(f, n, x, clock)
        PROVE  /\ OneStaged(w.engine)
               /\ \A y \in KeptBy(u) : \/ y \in KeptBy(w.engine) \/ y \in u.m_held_pending
                                       \/ Outlived(u.m_ordering, y, clock)
    <3>1. /\ f.m_held_pending = u.m_held_pending /\ f.m_ordering = u.m_ordering
          /\ KeptBy(f) = KeptBy(u) /\ PeersOK(f.m_ordering) /\ OneStaged(f)
      BY <1>2, <2>2 DEF SameInbox, KeptBy, EngineOK, OneStaged
    <3>2. QED
      BY <1>4, <2>2, <3>1, DataKeeps
  <2>3. QED
    BY <1>5, <2>1, <2>2
<1>8. \A y : Outlived(u.m_ordering, y, clock) => Lapsed(eng[n], y, clock)
  <2>1. Holding(u.m_ordering) \subseteq KeptBy(eng[n])
    BY <1>3 DEF KeptBy
  <2>2. QED
    BY <2>1 DEF Outlived, Lapsed
<1>9. \A x \in KeptBy(eng[n]) : \/ x \in KeptBy(w.engine) \/ x.source_id \in hello[n]
                                \/ Lapsed(eng[n], x, clock)
  BY <1>2, <1>7, <1>8
<1>10. QED
  BY <1>1, <1>6, <1>7, <1>9, FinishKeeps

LEMMA KeepsStep ==
  ASSUME IInv, AllStaged, [Next]_vars
  PROVE  AllStaged' /\ Retained
<1>1. ASSUME NEW n \in Node, NEW u \in EngineShape, eng' = [eng EXCEPT ![n] = u],
             u.m_held_pending = eng[n].m_held_pending,
             \A y \in Holding(eng[n].m_ordering) : \/ y \in Holding(u.m_ordering)
                                                   \/ Outlived(eng[n].m_ordering, y, clock)
      PROVE  AllStaged' /\ Retained
  <2>1. eng'[n] = u /\ \A k \in Node : k # n => eng'[k] = eng[k]
    BY <1>1, OneEngine DEF IInv
  <2>2. \A y : Outlived(eng[n].m_ordering, y, clock) => Lapsed(eng[n], y, clock)
    BY DEF Outlived, Lapsed, KeptBy
  <2>3. \A k \in Node : /\ OneStaged(eng'[k])
                        /\ \A y \in KeptBy(eng[k]) : \/ y \in KeptBy(eng'[k])
                                                      \/ Lapsed(eng[k], y, clock)
    BY <1>1, <2>1, <2>2 DEF KeptBy, OneStaged, AllStaged
  <2>4. QED
    BY <2>3 DEF AllStaged, Retained
<1>2. ASSUME NEW m \in Workload, NEW accepted \in 0 .. FrameCount(m), Send(m, accepted)
      PROVE  AllStaged' /\ Retained
  <2> DEFINE n == m.source_id
             e == eng[n]
             r == send(e, m, clock, accepted)
  <2>1. m.message_id \notin Used /\ eng' = [eng EXCEPT ![n] = r.engine]
    BY <1>2 DEF Send
  <2>2. m \in Envelope /\ n \in Node /\ accepted \in Nat
    BY SystemAssumption DEF Envelope
  <2>3. e \in EngineShape /\ EngineOK(e, n, sent) /\ clock \in Nat
    BY <2>2, InvParts DEF IInv, Shape
  <2>4. NewTo(e, m) /\ RetriedOnce(e.m_retry_manager)
    BY <2>1, <2>3 DEF NewTo, EngineOK, Used
  <2> HIDE DEF e
  <2>5. /\ SameRest(r.engine, e)
        /\ Receded(e, r.engine) \/ Booked(e, r.engine, r.stamped)
    BY <2>2, <2>3, <2>4, SendBooks
  <2>6. r.engine \in EngineShape
    BY <2>5 DEF Receded, Booked
  <2> HIDE DEF r
  <2>7. QED
    BY <1>1, <2>1, <2>2, <2>5, <2>6 DEF SameRest, e
<1>3. ASSUME NEW n \in Node, NEW h, Finish(n, receive_staged(eng[n], n, hello[n], clock), {}, h),
             receive_staged(eng[n], n, hello[n], clock).res # "ERR_INVALID"
      PROVE  AllStaged' /\ Retained
  BY <1>3, StagedFacts, StagedKeeps, FinishKeeps
<1>4. ASSUME NEW n \in Node, ReceiveStaged(n) PROVE AllStaged' /\ Retained
  BY <1>3, <1>4 DEF ReceiveStaged
<1>5. ASSUME NEW n \in Node, NEW h \in Hellos(n), ReceiveTimeout(n, h)
      PROVE  AllStaged' /\ Retained
  BY <1>3, <1>5 DEF ReceiveTimeout
<1>6. ASSUME NEW n \in Node, NEW m \in net, NEW copies \in {0, 1}, NEW h \in Hellos(n),
             ReceiveWire(n, m, copies, h)
      PROVE  AllStaged' /\ Retained
  BY <1>6, WireKeeps
<1>7. ASSUME NEW n \in Node, PumpRetries(n) PROVE AllStaged' /\ Retained
  <2> DEFINE e == eng[n]
             u == pump_retries(e, clock).engine
  <2>1. eng' = [eng EXCEPT ![n] = u]
    BY <1>7 DEF PumpRetries
  <2>2. e \in EngineShape /\ EngineOK(e, n, sent) /\ clock \in Nat
    BY InvParts DEF IInv, Shape
  <2> HIDE DEF e
  <2>3. u \in EngineShape
    BY <2>2, PumpOutcome DEF Receded
  <2>4. u.m_ordering = e.m_ordering /\ u.m_held_pending = e.m_held_pending
    BY <2>2 DEF pump_retries, EngineShape
  <2> HIDE DEF u
  <2>5. QED
    BY <1>1, <2>1, <2>3, <2>4 DEF e
<1>8. ASSUME NEW n \in Node, SweepAckTimeouts(n) PROVE AllStaged' /\ Retained
  <2> DEFINE e == eng[n]
             u == sweep_ack_timeouts(e, clock).engine
             p == OB!sweep_expired_holds(e.m_ordering, clock, ORDERING_HOLD_COUNT)
  <2>1. eng' = [eng EXCEPT ![n] = u]
    BY <1>8 DEF SweepAckTimeouts
  <2>2. e \in EngineShape /\ EngineOK(e, n, sent) /\ clock \in Nat
    BY InvParts DEF IInv, Shape
  <2> HIDE DEF e
  <2>3. u \in EngineShape
    BY <2>2, SweepOutcome DEF Receded
  <2>4. \A y \in Holding(e.m_ordering) : \/ y \in Holding(p.buffer)
                                          \/ Outlived(e.m_ordering, y, clock)
    BY <2>2, EngineFields, SweepKeeps DEF EngineOK
  <2>5. /\ u.m_ordering = e.m_ordering \/ u.m_ordering = p.buffer
        /\ u.m_held_pending = e.m_held_pending
    BY <2>2 DEF sweep_ack_timeouts, EngineShape
  <2> HIDE DEF u
  <2>6. QED
    BY <1>1, <2>1, <2>3, <2>4, <2>5 DEF e
<1>9. ASSUME NEW n \in Node, Restart(n) PROVE AllStaged' /\ Retained
  <2>1. /\ eng' = [eng EXCEPT ![n] = EngineInit] /\ EngineInit \in EngineShape
        /\ EngineInit.m_held_pending = {}
    BY <1>9, EngineInitOK DEF Restart
  <2>2. eng'[n] = EngineInit /\ \A k \in Node : k # n => eng'[k] = eng[k]
    BY <2>1, OneEngine DEF IInv
  <2>3. AllStaged'
    BY <2>1, <2>2 DEF AllStaged, OneStaged
  <2>4. restarts' # restarts
    BY <1>9 DEF Restart, IInv, Shape
  <2>5. QED
    BY <2>3, <2>4 DEF Retained
<1>10. ASSUME UNCHANGED eng PROVE AllStaged' /\ Retained
  BY <1>10 DEF AllStaged, Retained
<1>11. QED
  BY <1>2, <1>4, <1>5, <1>6, <1>7, <1>8, <1>9, <1>10 DEF Next, Traffic, Tick, vars

StagedInv == IInv /\ AllStaged

\* What a node holds or has staged, it keeps until it hands it to the application, unless
\* the source has connected anew, a node has started again, or a message of the source
\* that waits too has expired and is itself staged or not before it: no message that
\* comes from the transport takes the place of a staged one that has not expired, and
\* neither the reset for a HELLO nor the sweep takes anything of another source
\* (deliver_held_pending(), handle_ordering_gate(), reset_peer_ordering(),
\* sweep_expired_holds()).
THEOREM NothingIsLost == Spec => WaitingNotLost
<1> DEFINE A == \A n \in Node : \A m \in Waiting(n) :
                  \/ m \in Waiting(n)'
                  \/ \E i \in DOMAIN delivered'[n] : delivered'[n][i] = m
                  \/ m.source_id \in hello[n]
                  \/ restarts' # restarts
                  \/ GivenUp(n, m)
<1>1. Init => StagedInv
  <2> SUFFICES ASSUME Init PROVE StagedInv
    OBVIOUS
  <2>1. \A k \in Node : eng[k] = EngineInit
    BY DEF Init
  <2>2. QED
    BY <2>1, InitOK, EngineInitOK DEF StagedInv, AllStaged, OneStaged
<1>2. StagedInv /\ [Next]_vars => StagedInv'
  BY StepOK, KeepsStep DEF StagedInv
<1>3. ASSUME StagedInv, [Next]_vars PROVE [A]_vars
  <2>1. Retained
    BY <1>3, KeepsStep DEF StagedInv
  <2>2. \A n \in Node : Waiting(n) = KeptBy(eng[n]) /\ Waiting(n)' = KeptBy(eng'[n])
    BY DEF Waiting, KeptBy, Holding
  <2>3. \A n \in Node : \A m : Lapsed(eng[n], m, clock) => GivenUp(n, m)
    BY <2>2 DEF Lapsed, GivenUp
  <2>4. QED
    BY <2>1, <2>2, <2>3 DEF Retained
<1> HIDE DEF A
<1>4. StagedInv /\ [Next]_vars => [A]_vars
  BY <1>3
<1>5. Spec => [][A]_vars
  BY <1>1, <1>2, <1>4, PTL DEF Spec
<1>6. QED
  BY <1>5 DEF WaitingNotLost, A
=============================================================================
