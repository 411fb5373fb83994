------------------------ MODULE OrderingBufferProofs ------------------------
(***************************************************************************)
(* Proofs about OrderingBufferSpec, for every size of the hold pool and of *)
(* the peer table, every width of the sequence number, every set of nodes  *)
(* and of messages.                                                        *)
(***************************************************************************)
EXTENDS OrderingBufferSpec, FiniteSetTheorems, SequenceTheorems,
        WellFoundedInduction, TLAPS

\* A non-empty set of naturals has a least element: the order of the naturals is
\* well-founded.
LEMMA MinIsLeast ==
  ASSUME NEW S, S \subseteq Nat, S # {}
  PROVE  Min(S) \in S /\ \A y \in S : Min(S) <= y
<1> DEFINE R == OpToRel(<, Nat)
<1>1. IsWellFoundedOn(R, Nat)
  BY NatLessThanWellFounded, Zenon
<1>2. \A x, y \in Nat : y < x => <<y, x>> \in R
  BY DEF OpToRel
<1> HIDE DEF R
<1>3. PICK x \in S : \A y \in S : ~ (<<y, x>> \in R)
  BY <1>1, WFMin
<1>4. ASSUME NEW y \in S PROVE x <= y
  <2>1. x \in Nat /\ y \in Nat /\ ~ (<<y, x>> \in R)
    BY <1>3
  <2>2. ~ (y < x)
    BY <1>2, <2>1, Zenon
  <2>3. QED
    BY <2>1, <2>2
<1>5. QED
  BY <1>4 DEF Min

(***************************************************************************)
(* The inductive invariant.                                                *)
(*                                                                         *)
(* Of the buffer (with the current sessions): a source has one peer slot   *)
(* at most, a held message is numbered and has a peer, shares are          *)
(* respected, no message is held twice, and what is held belongs to the    *)
(* current session.                                                        *)
(***************************************************************************)
OneSlot(o) ==
  \A i, j \in PeerIndex :
    /\ o.m_peers[i].active
    /\ o.m_peers[j].active
    /\ o.m_peers[i].src = o.m_peers[j].src
    => i = j

HeldOnce(o) ==
  \A g, h \in Held(o) :
    /\ o.m_hold[g].env.source_id = o.m_hold[h].env.source_id
    /\ o.m_hold[g].env.sequence_num = o.m_hold[h].env.sequence_num
    => g = h

Good(o, ses) ==
  /\ o \in Buffer
  /\ OneSlot(o)
  /\ HeldOnce(o)
  /\ \A h \in Held(o) :
       /\ find_peer(o, o.m_hold[h].env.source_id) # {}
       /\ o.m_hold[h].env.message_id = ses[o.m_hold[h].env.source_id]
       /\ Ordered(o.m_hold[h].env)
  /\ \A n \in Node : Cardinality(HeldFrom(o, n)) <= k_hold_per_peer_max

(***************************************************************************)
(* Of the history of one source, with its gate at e: the numbers delivered *)
(* increase and lie below the gate, and what lies below the gate and was   *)
(* not delivered is covered by an expiry report.                           *)
(***************************************************************************)
Past(e, d, r) ==
  /\ \A j \in 1 .. Len(d) :
       0 < d[j] /\ d[j] < e /\ \A i \in 1 .. j - 1 : d[i] < d[j]
  /\ \A s \in 1 .. e - 1 :
       \/ \E j \in 1 .. Len(d) : d[j] = s
       \/ \E t \in r : s <= t

IInv ==
  /\ TypeOK
  /\ Good(buffer, session)
  /\ \A n \in Node : Past(Expected(buffer, n), delivered[n], reported[n])

-----------------------------------------------------------------------------
(* The tables. *)

\* The index sets are finite sets of numbers.
LEMMA TableIndices ==
  /\ HoldIndex \subseteq Nat /\ PeerIndex \subseteq Nat
  /\ IsFiniteSet(HoldIndex) /\ IsFiniteSet(PeerIndex)
  /\ Cardinality(HoldIndex) = ORDERING_HOLD_COUNT
  /\ Cardinality(PeerIndex) = ORDERING_PEER_COUNT
  /\ \A S \in SUBSET HoldIndex : IsFiniteSet(S) /\ Cardinality(S) \in Nat
<1>1. /\ ORDERING_HOLD_COUNT \in Nat /\ ORDERING_PEER_COUNT \in Nat
      /\ ORDERING_HOLD_COUNT >= 1 /\ ORDERING_PEER_COUNT >= 1
  BY OrderingAssumption
<1>2. /\ IsFiniteSet(HoldIndex) /\ IsFiniteSet(PeerIndex)
      /\ Cardinality(HoldIndex) = ORDERING_HOLD_COUNT
      /\ Cardinality(PeerIndex) = ORDERING_PEER_COUNT
  BY <1>1, FS_Interval DEF HoldIndex, PeerIndex
<1>3. HoldIndex \subseteq Nat /\ PeerIndex \subseteq Nat
  BY <1>1 DEF HoldIndex, PeerIndex
<1>4. QED
  BY <1>2, <1>3, FS_Subset, FS_CardinalityType

\* What a slot of either table is.
LEMMA SlotFacts ==
  ASSUME NEW o \in Buffer
  PROVE  /\ \A h \in HoldIndex : /\ o.m_hold[h] \in HoldSlot
                                 /\ o.m_hold[h].active \in BOOLEAN
                                 /\ ~o.m_hold[h].active => o.m_hold[h] = NoHold
                                 /\ o.m_hold[h].active => o.m_hold[h].env \in Envelope
         /\ \A i \in PeerIndex : /\ o.m_peers[i] \in PeerState
                                 /\ o.m_peers[i].active \in BOOLEAN
                                 /\ o.m_peers[i].active =>
                                      /\ o.m_peers[i].src \in Node
                                      /\ o.m_peers[i].next_expected_seq \in 1 .. SEQ_MAX
<1>1. ASSUME NEW s \in HoldSlot
      PROVE  /\ s.active \in BOOLEAN
             /\ ~s.active => s = NoHold
             /\ s.active => s.env \in Envelope
  <2>1. CASE s = NoHold
    <3>1. s.active = FALSE
      BY <2>1 DEF NoHold
    <3>2. QED
      BY <2>1, <3>1
  <2>2. CASE s \in [active : {TRUE}, env : Envelope]
    <3>1. s.active = TRUE /\ s.env \in Envelope
      BY <2>2
    <3>2. QED
      BY <3>1
  <2>3. QED
    BY <2>1, <2>2 DEF HoldSlot
<1>2. ASSUME NEW s \in PeerState
      PROVE  /\ s.active \in BOOLEAN
             /\ s.active => s.src \in Node /\ s.next_expected_seq \in 1 .. SEQ_MAX
  <2>1. CASE s = NoPeer
    <3>1. s.active = FALSE
      BY <2>1 DEF NoPeer
    <3>2. QED
      BY <3>1
  <2>2. CASE s \in [active : {TRUE}, src : Node, next_expected_seq : 1 .. SEQ_MAX]
    <3>1. /\ s.active = TRUE /\ s.src \in Node
          /\ s.next_expected_seq \in 1 .. SEQ_MAX
      BY <2>2
    <3>2. QED
      BY <3>1
  <2>3. QED
    BY <2>1, <2>2 DEF PeerState
<1>3. o.m_hold \in [HoldIndex -> HoldSlot] /\ o.m_peers \in [PeerIndex -> PeerState]
  BY DEF Buffer
<1>4. QED
  BY <1>1, <1>2, <1>3

\* The gate of a source, whichever of its slots is looked at.
LEMMA ExpectedIs ==
  ASSUME NEW o \in Buffer, OneSlot(o), NEW n
  PROVE  /\ \A i \in find_peer(o, n) : /\ find_peer(o, n) = {i}
                                       /\ Expected(o, n) = o.m_peers[i].next_expected_seq
         /\ find_peer(o, n) = {} => Expected(o, n) = 1
         /\ Expected(o, n) \in 1 .. SEQ_MAX
         /\ find_peer(o, n) # {} => /\ Min(find_peer(o, n)) \in find_peer(o, n)
                                    /\ Min(find_peer(o, n)) \in PeerIndex
<1>1. ASSUME NEW i \in find_peer(o, n)
      PROVE  find_peer(o, n) = {i} /\ Expected(o, n) = o.m_peers[i].next_expected_seq
  <2>1. find_peer(o, n) = {i}
    BY <1>1 DEF find_peer, OneSlot
  <2>2. (CHOOSE k \in find_peer(o, n) : TRUE) = i
    BY <2>1
  <2>3. QED
    BY <2>1, <2>2 DEF Expected
<1>2. find_peer(o, n) = {} => Expected(o, n) = 1
  BY DEF Expected
<1>3. Expected(o, n) \in 1 .. SEQ_MAX
  <2>1. CASE find_peer(o, n) = {}
    BY <2>1, <1>2, OrderingAssumption
  <2>2. CASE find_peer(o, n) # {}
    <3>1. PICK i \in find_peer(o, n) : TRUE
      BY <2>2
    <3>2. QED
      BY <3>1, <1>1, SlotFacts DEF find_peer
  <2>3. QED
    BY <2>1, <2>2
<1>4. find_peer(o, n) # {} => Min(find_peer(o, n)) \in find_peer(o, n)
  BY TableIndices, MinIsLeast DEF find_peer
<1>5. QED
  BY <1>1, <1>2, <1>3, <1>4 DEF find_peer

\* Slots of the types the tables have.
LEMMA NewSlots ==
  /\ NoHold \in HoldSlot /\ NoHold.active = FALSE
  /\ \A e \in Envelope : /\ [active |-> TRUE, env |-> e] \in HoldSlot
                         /\ [active |-> TRUE, env |-> e].active = TRUE
                         /\ [active |-> TRUE, env |-> e].env = e
  /\ \A n \in Node : \A s \in 1 .. SEQ_MAX :
       [active |-> TRUE, src |-> n, next_expected_seq |-> s] \in PeerState
BY DEF HoldSlot, NoHold, PeerState

\* The successors of a sequence number.
LEMMA NextNumbers ==
  /\ \A s \in 1 .. SEQ_MAX : /\ advance_next_expected(s) \in 1 .. SEQ_MAX
                             /\ s # SEQ_MAX => advance_next_expected(s) = s + 1
                             /\ s = SEQ_MAX => advance_next_expected(s) = 1
  /\ \A s \in Nat : /\ seq_next_guarded(s) \in 1 .. SEQ_MAX
                    /\ seq_next_guarded(s) = s + 1 \/ seq_next_guarded(s) = 1
BY OrderingAssumption DEF advance_next_expected, seq_next_guarded

(***************************************************************************)
(* Most operations release held messages and move gates: the messages held *)
(* afterwards are some of those held before, and the peer slots belong to  *)
(* the same sources.                                                       *)
(***************************************************************************)
Shrunk(o, p) ==
  /\ p \in Buffer
  /\ \A h \in HoldIndex : p.m_hold[h] = o.m_hold[h] \/ p.m_hold[h] = NoHold
  /\ \A i \in PeerIndex : /\ p.m_peers[i].active <=> o.m_peers[i].active
                          /\ p.m_peers[i].active =>
                               p.m_peers[i].src = o.m_peers[i].src

\* The gates of a shrunken buffer are those of the same sources.
LEMMA ShrunkPeers ==
  ASSUME NEW o \in Buffer, NEW p, Shrunk(o, p), NEW n
  PROVE  find_peer(p, n) = find_peer(o, n)
BY DEF Shrunk, find_peer

\* Its holds are some of the holds.
LEMMA ShrunkHolds ==
  ASSUME NEW o \in Buffer, NEW p, Shrunk(o, p)
  PROVE  /\ Held(p) \subseteq Held(o)
         /\ \A h \in Held(p) : p.m_hold[h] = o.m_hold[h]
         /\ \A n : HeldFrom(p, n) \subseteq HeldFrom(o, n)
<1>1. \A h \in HoldIndex : p.m_hold[h].active => p.m_hold[h] = o.m_hold[h]
  BY NewSlots DEF Shrunk
<1>2. QED
  BY <1>1 DEF Held, HeldFrom

\* Releasing messages and moving gates keeps a buffer good.
LEMMA ShrunkGood ==
  ASSUME NEW o, NEW ses, Good(o, ses), NEW p, Shrunk(o, p)
  PROVE  Good(p, ses)
<1>1. o \in Buffer /\ p \in Buffer
  BY DEF Good, Shrunk
<1>2. OneSlot(p)
  BY DEF Good, Shrunk, OneSlot
<1>3. HeldOnce(p)
  BY <1>1, ShrunkHolds DEF Good, HeldOnce
<1>4. ASSUME NEW h \in Held(p)
      PROVE  /\ find_peer(p, p.m_hold[h].env.source_id) # {}
             /\ p.m_hold[h].env.message_id = ses[p.m_hold[h].env.source_id]
             /\ Ordered(p.m_hold[h].env)
  <2>1. h \in Held(o) /\ p.m_hold[h] = o.m_hold[h]
    BY <1>1, ShrunkHolds
  <2>2. QED
    BY <1>1, <2>1, ShrunkPeers DEF Good
<1>5. ASSUME NEW n \in Node
      PROVE  Cardinality(HeldFrom(p, n)) <= k_hold_per_peer_max
  <2>1. HeldFrom(p, n) \subseteq HeldFrom(o, n) /\ HeldFrom(o, n) \subseteq HoldIndex
    BY <1>1, ShrunkHolds DEF HeldFrom, Held
  <2>2. /\ Cardinality(HeldFrom(p, n)) <= Cardinality(HeldFrom(o, n))
        /\ Cardinality(HeldFrom(p, n)) \in Nat /\ Cardinality(HeldFrom(o, n)) \in Nat
    BY <2>1, TableIndices, FS_Subset
  <2>3. k_hold_per_peer_max \in Nat /\ Cardinality(HeldFrom(o, n)) <= k_hold_per_peer_max
    BY OrderingAssumption DEF Good, k_hold_per_peer_max
  <2>4. QED
    BY <2>2, <2>3
<1>6. QED
  BY <1>1, <1>2, <1>3, <1>4, <1>5 DEF Good

\* A gate is moved.
LEMMA MoveGate ==
  ASSUME NEW o \in Buffer, OneSlot(o), NEW n, NEW i \in find_peer(o, n),
         NEW v \in 1 .. SEQ_MAX
  PROVE  LET p == [o EXCEPT !.m_peers[i].next_expected_seq = v]
         IN  /\ Shrunk(o, p)
             /\ p.m_hold = o.m_hold
             /\ Expected(p, n) = v
             /\ \A m : m # n => Expected(p, m) = Expected(o, m)
<1> DEFINE p == [o EXCEPT !.m_peers[i].next_expected_seq = v]
           s == o.m_peers[i]
           t == [s EXCEPT !.next_expected_seq = v]
<1>1. i \in PeerIndex /\ s.active /\ s.src = n
  BY DEF find_peer
<1>2. s \in [active : {TRUE}, src : Node, next_expected_seq : 1 .. SEQ_MAX]
  <2>1. s \in PeerState
    BY <1>1, SlotFacts
  <2>2. s # NoPeer
    BY <1>1 DEF NoPeer
  <2>3. QED
    BY <2>1, <2>2 DEF PeerState
<1>3. t \in PeerState /\ t.active = s.active /\ t.src = s.src /\ t.next_expected_seq = v
  BY <1>2 DEF PeerState
<1>4. /\ p.m_hold = o.m_hold /\ p.m_peers = [o.m_peers EXCEPT ![i] = t]
      /\ p = [m_hold |-> o.m_hold, m_peers |-> [o.m_peers EXCEPT ![i] = t]]
  BY DEF Buffer
<1> HIDE DEF t
<1>5. p.m_peers[i] = t /\ \A j \in PeerIndex \ {i} : p.m_peers[j] = o.m_peers[j]
  BY <1>1, <1>4 DEF Buffer
<1>6. p \in Buffer
  BY <1>1, <1>3, <1>4 DEF Buffer
<1> HIDE DEF p, s
<1>7. Shrunk(o, p)
  BY <1>3, <1>4, <1>5, <1>6 DEF Shrunk, s
<1>8. OneSlot(p)
  BY <1>7 DEF OneSlot, Shrunk
<1>9. Expected(p, n) = v
  <2>1. i \in find_peer(p, n)
    BY <1>7, ShrunkPeers
  <2>2. QED
    BY <2>1, <1>3, <1>5, <1>6, <1>8, ExpectedIs
<1>10. ASSUME NEW m, m # n PROVE Expected(p, m) = Expected(o, m)
  <2>1. find_peer(p, m) = find_peer(o, m) /\ i \notin find_peer(o, m)
    BY <1>1, <1>7, <1>10, ShrunkPeers DEF find_peer, s
  <2>2. CASE find_peer(o, m) = {}
    BY <2>1, <2>2, <1>6, <1>8, ExpectedIs
  <2>3. CASE find_peer(o, m) # {}
    <3>1. PICK j \in find_peer(o, m) : TRUE
      BY <2>3
    <3>2. p.m_peers[j] = o.m_peers[j]
      BY <2>1, <3>1, <1>5 DEF find_peer
    <3>3. QED
      BY <2>1, <3>1, <3>2, <1>6, <1>8, ExpectedIs
  <2>4. QED
    BY <2>2, <2>3
<1>11. QED
  BY <1>4, <1>7, <1>9, <1>10 DEF p

\* Messages are released.
LEMMA UnholdShrinks ==
  ASSUME NEW o \in Buffer, NEW S
  PROVE  /\ Shrunk(o, Unhold(o, S))
         /\ Unhold(o, S).m_peers = o.m_peers
         /\ \A h \in HoldIndex : Unhold(o, S).m_hold[h] =
                                   IF h \in S THEN NoHold ELSE o.m_hold[h]
         /\ \A n : Expected(Unhold(o, S), n) = Expected(o, n)
<1> DEFINE u == Unhold(o, S)
           H == [h \in HoldIndex |-> IF h \in S THEN NoHold ELSE o.m_hold[h]]
<1>1. H \in [HoldIndex -> HoldSlot]
  BY SlotFacts, NewSlots
<1>2. u = [m_hold |-> H, m_peers |-> o.m_peers]
  BY DEF Unhold, Buffer
<1>3. u \in Buffer /\ u.m_peers = o.m_peers /\ u.m_hold = H
  BY <1>1, <1>2 DEF Buffer
<1> HIDE DEF u
<1>4. \A h \in HoldIndex : u.m_hold[h] = IF h \in S THEN NoHold ELSE o.m_hold[h]
  BY <1>3
<1>5. Shrunk(o, u)
  BY <1>3, <1>4 DEF Shrunk
<1>6. \A n : Expected(u, n) = Expected(o, n)
  BY <1>3 DEF Expected, find_peer
<1>7. QED
  BY <1>3, <1>4, <1>5, <1>6 DEF u

\* Two such steps in a row are one.
LEMMA ShrunkTwice ==
  ASSUME NEW o, NEW p, NEW q, Shrunk(o, p), Shrunk(p, q)
  PROVE  Shrunk(o, q)
BY DEF Shrunk

\* A full peer table always has a peer to evict: there are more peers than
\* held messages, so some peer holds none.
LEMMA EvictionPossible ==
  ASSUME NEW o, NEW ses, Good(o, ses), \A i \in PeerIndex : o.m_peers[i].active
  PROVE  PeersWithoutHolds(o) # {}
<1> SUFFICES ASSUME PeersWithoutHolds(o) = {} PROVE FALSE
  OBVIOUS
<1>1. \A i \in PeerIndex : HeldFrom(o, o.m_peers[i].src) # {}
  BY DEF PeersWithoutHolds
<1> DEFINE f == [i \in PeerIndex |-> CHOOSE h \in HeldFrom(o, o.m_peers[i].src) : TRUE]
<1>2. ASSUME NEW i \in PeerIndex
      PROVE  f[i] \in HoldIndex /\ o.m_hold[f[i]].env.source_id = o.m_peers[i].src
  <2>1. f[i] \in HeldFrom(o, o.m_peers[i].src)
    BY <1>1
  <2>2. QED
    BY <2>1 DEF HeldFrom, Held
<1>3. f \in [PeerIndex -> HoldIndex]
  BY <1>2
<1> HIDE DEF f
<1>4. Cardinality(HoldIndex) < Cardinality(PeerIndex)
  BY TableIndices, OrderingAssumption
<1>5. PICK i, j \in PeerIndex : i # j /\ f[i] = f[j]
  BY <1>3, <1>4, TableIndices, FS_PigeonHole
<1>6. o.m_peers[i].src = o.m_peers[j].src
  BY <1>2, <1>5
<1>7. QED
  BY <1>5, <1>6 DEF Good, OneSlot

\* get_or_create_peer(): the source has a gate afterwards, where it was or at 1;
\* another source keeps its gate unless it is evicted, and only a source that
\* holds nothing is.
LEMMA CreatePeer ==
  ASSUME NEW o, NEW ses, Good(o, ses), NEW n \in Node
  PROVE  LET p == get_or_create_peer(o, n)
             i == PeerSlotFor(o, n)
         IN  /\ Good(p, ses)
             /\ p.m_hold = o.m_hold
             /\ i \in find_peer(p, n)
             /\ Expected(p, n) = Expected(o, n)
             /\ \A m : m # n /\ find_peer(p, m) # {} =>
                         Expected(p, m) = Expected(o, m)
             /\ \A m : find_peer(o, m) = {} /\ m # n => find_peer(p, m) = {}
<1> DEFINE p == get_or_create_peer(o, n)
           i == PeerSlotFor(o, n)
           unused == {j \in PeerIndex : ~o.m_peers[j].active}
           s == [active |-> TRUE, src |-> n, next_expected_seq |-> 1]
<1>1. o \in Buffer /\ OneSlot(o)
  BY DEF Good
<1>2. CASE find_peer(o, n) # {}
  <2>1. p = o
    BY <1>2 DEF get_or_create_peer
  <2>2. i = Min(find_peer(o, n))
    BY <1>2 DEF PeerSlotFor
  <2>3. i \in find_peer(o, n)
    BY <1>1, <1>2, <2>2, ExpectedIs
  <2>4. QED
    BY <2>1, <2>3
<1>3. CASE find_peer(o, n) = {}
  <2>1. i \in PeerIndex /\ (o.m_peers[i].active => HeldFrom(o, o.m_peers[i].src) = {})
    <3>1. CASE unused # {}
      <4>1. i = Min(unused)
        BY <1>3, <3>1 DEF PeerSlotFor
      <4>2. i \in unused
        <5>1. unused \subseteq Nat
          BY TableIndices
        <5> HIDE DEF unused, i
        <5>2. QED
          BY <3>1, <4>1, <5>1, MinIsLeast
      <4>3. QED
        BY <4>2
    <3>2. CASE unused = {}
      <4>1. i = Min(PeersWithoutHolds(o))
        BY <1>3, <3>2 DEF PeerSlotFor
      <4>2. PeersWithoutHolds(o) # {} /\ PeersWithoutHolds(o) \subseteq Nat
        BY <3>2, EvictionPossible, TableIndices DEF PeersWithoutHolds
      <4>3. i \in PeersWithoutHolds(o)
        BY <4>1, <4>2, MinIsLeast
      <4>4. QED
        BY <4>3 DEF PeersWithoutHolds
    <3>3. QED
      BY <3>1, <3>2
  <2>2. p = [o EXCEPT !.m_peers[i] = s]
    BY <1>3 DEF get_or_create_peer
  <2> HIDE DEF i
  <2>3. s \in PeerState /\ s.active = TRUE /\ s.src = n /\ s.next_expected_seq = 1
    <3>1. 1 \in 1 .. SEQ_MAX
      BY OrderingAssumption
    <3>2. QED
      BY <3>1, NewSlots
  <2> HIDE DEF s
  <2>4. /\ p = [m_hold |-> o.m_hold, m_peers |-> [o.m_peers EXCEPT ![i] = s]]
        /\ p.m_hold = o.m_hold /\ p.m_peers = [o.m_peers EXCEPT ![i] = s]
    BY <1>1, <2>2 DEF Buffer
  <2>5. p.m_peers[i] = s /\ \A j \in PeerIndex \ {i} : p.m_peers[j] = o.m_peers[j]
    BY <1>1, <2>1, <2>4 DEF Buffer
  <2>6. p \in Buffer
    BY <1>1, <2>1, <2>3, <2>4 DEF Buffer
  <2> HIDE DEF p
  <2>7. OneSlot(p)
    <3>1. \A j \in PeerIndex : o.m_peers[j].active => o.m_peers[j].src # n
      BY <1>3 DEF find_peer
    <3>2. QED
      BY <1>1, <2>3, <2>5, <3>1 DEF OneSlot
  <2>8. i \in find_peer(p, n)
    BY <2>1, <2>3, <2>5 DEF find_peer
  <2>9. Expected(p, n) = 1 /\ Expected(o, n) = 1
    BY <1>1, <1>3, <2>3, <2>5, <2>6, <2>7, <2>8, ExpectedIs
  <2>10. ASSUME NEW m, m # n PROVE find_peer(p, m) = find_peer(o, m) \ {i}
    BY <2>3, <2>5, <2>10 DEF find_peer
  <2>11. ASSUME NEW m, m # n, find_peer(p, m) # {}
         PROVE  Expected(p, m) = Expected(o, m)
    <3>1. PICK j \in find_peer(p, m) : TRUE
      BY <2>11
    <3>2. j \in find_peer(o, m) /\ j # i
      BY <2>10, <2>11, <3>1
    <3>3. p.m_peers[j] = o.m_peers[j]
      BY <2>5, <3>2 DEF find_peer
    <3>4. QED
      BY <1>1, <2>6, <2>7, <3>1, <3>2, <3>3, ExpectedIs
  <2>12. Held(p) = Held(o) /\ \A m : HeldFrom(p, m) = HeldFrom(o, m)
    BY <2>4 DEF Held, HeldFrom
  <2>13. ASSUME NEW h \in Held(p)
         PROVE  find_peer(p, p.m_hold[h].env.source_id) # {}
    <3> DEFINE m == p.m_hold[h].env.source_id
    <3>1. h \in Held(o) /\ m = o.m_hold[h].env.source_id
      BY <2>4, <2>12
    <3>2. h \in HeldFrom(o, m)
      BY <3>1 DEF HeldFrom
    <3>3. PICK j \in find_peer(o, m) : TRUE
      BY <3>1 DEF Good
    <3>4. m # n
      BY <1>3, <3>3
    <3>5. j # i
      BY <2>1, <3>2, <3>3 DEF find_peer
    <3> HIDE DEF m
    <3>6. j \in find_peer(p, m)
      BY <2>10, <3>3, <3>4, <3>5
    <3>7. QED
      BY <3>6 DEF m
  <2>14. Good(p, ses)
    BY <2>4, <2>6, <2>7, <2>12, <2>13 DEF Good, HeldOnce
  <2>15. QED
    BY <2>4, <2>8, <2>9, <2>10, <2>11, <2>14 DEF p, i
<1>4. QED
  BY <1>2, <1>3

\* Holding a message of a source below its share takes one free slot.
LEMMA HoldGood ==
  ASSUME NEW p, NEW ses, Good(p, ses), NEW msg \in Envelope,
         find_peer(p, msg.source_id) # {},
         msg.message_id = ses[msg.source_id], Ordered(msg)
  PROVE  /\ Good(hold(p, msg).buffer, ses)
         /\ hold(p, msg).buffer.m_peers = p.m_peers
         /\ hold(p, msg).res # "OK"
<1> DEFINE r == hold(p, msg)
           n == msg.source_id
           dup == HeldAs(p, n, msg.sequence_num) # {}
           full == \/ Cardinality(HeldFrom(p, n)) >= k_hold_per_peer_max
                   \/ Held(p) = HoldIndex
           h == Min(HoldIndex \ Held(p))
           slot == [active |-> TRUE, env |-> msg]
           q == [p EXCEPT !.m_hold[h] = slot]
<1>1. CASE dup
  BY <1>1 DEF hold
<1>2. CASE ~dup /\ full
  BY <1>2 DEF hold
<1>3. CASE ~dup /\ ~full
  <2>1. r.buffer = q /\ r.res = "ERR_AGAIN"
    BY <1>3 DEF hold
  <2>2. p \in Buffer
    BY DEF Good
  <2>3. h \in HoldIndex /\ h \notin Held(p)
    <3>1. HoldIndex \ Held(p) # {} /\ HoldIndex \ Held(p) \subseteq Nat
      BY <1>3, TableIndices DEF Held
    <3>2. QED
      BY <3>1, MinIsLeast
  <2>4. slot \in HoldSlot /\ slot.active = TRUE /\ slot.env = msg
    BY NewSlots
  <2> HIDE DEF h, slot
  <2>5. /\ q = [m_hold |-> [p.m_hold EXCEPT ![h] = slot], m_peers |-> p.m_peers]
        /\ q.m_peers = p.m_peers /\ q.m_hold = [p.m_hold EXCEPT ![h] = slot]
    BY <2>2 DEF Buffer
  <2>6. q.m_hold[h] = slot /\ \A g \in HoldIndex \ {h} : q.m_hold[g] = p.m_hold[g]
    BY <2>2, <2>3, <2>5 DEF Buffer
  <2>7. q \in Buffer
    BY <2>2, <2>3, <2>4, <2>5 DEF Buffer
  <2> HIDE DEF q
  <2>8. OneSlot(q) /\ \A m : find_peer(q, m) = find_peer(p, m)
    BY <2>5 DEF OneSlot, find_peer, Good
  <2>9. Held(q) = Held(p) \union {h}
    BY <2>3, <2>4, <2>6 DEF Held
  <2>10. /\ HeldFrom(q, n) = HeldFrom(p, n) \union {h}
         /\ \A m \in Node : m # n => HeldFrom(q, m) = HeldFrom(p, m)
    <3>1. \A g \in Held(p) : q.m_hold[g] = p.m_hold[g]
      BY <2>3, <2>6 DEF Held
    <3>2. q.m_hold[h].env.source_id = n
      BY <2>4, <2>6
    <3>3. QED
      BY <2>9, <3>1, <3>2, <2>3 DEF HeldFrom
  <2>11. HeldOnce(q)
    <3>1. \A g \in Held(p) : q.m_hold[g] = p.m_hold[g]
      BY <2>3, <2>6 DEF Held
    <3>2. q.m_hold[h].env = msg
      BY <2>4, <2>6
    <3>3. ASSUME NEW g \in Held(p), p.m_hold[g].env.source_id = n
          PROVE  p.m_hold[g].env.sequence_num # msg.sequence_num
      BY <1>3, <3>3 DEF HeldAs, HeldFrom
    <3>4. HeldOnce(p)
      BY DEF Good
    <3>5. QED
      BY <2>9, <3>1, <3>2, <3>3, <3>4 DEF HeldOnce
  <2>12. ASSUME NEW g \in Held(q)
         PROVE  /\ find_peer(q, q.m_hold[g].env.source_id) # {}
                /\ q.m_hold[g].env.message_id = ses[q.m_hold[g].env.source_id]
                /\ Ordered(q.m_hold[g].env)
    <3>1. CASE g = h
      BY <2>4, <2>6, <2>8, <3>1
    <3>2. CASE g # h
      <4>1. g \in Held(p) /\ q.m_hold[g] = p.m_hold[g]
        BY <2>6, <2>9, <3>2 DEF Held
      <4>2. QED
        BY <4>1, <2>8 DEF Good
    <3>3. QED
      BY <3>1, <3>2
  <2>13. ASSUME NEW m \in Node
         PROVE  Cardinality(HeldFrom(q, m)) <= k_hold_per_peer_max
    <3>1. CASE m # n
      BY <2>10, <3>1 DEF Good
    <3>2. CASE m = n
      <4>1. HeldFrom(p, n) \subseteq HoldIndex
        BY DEF HeldFrom, Held
      <4>2. IsFiniteSet(HeldFrom(p, n)) /\ Cardinality(HeldFrom(p, n)) \in Nat
        BY <4>1, TableIndices
      <4>3. Cardinality(HeldFrom(q, n)) = Cardinality(HeldFrom(p, n)) + 1
        <5> DEFINE F == HeldFrom(p, n)
        <5>1. h \notin F
          BY <2>3 DEF HeldFrom
        <5> HIDE DEF F
        <5>2. Cardinality(F \union {h}) = Cardinality(F) + 1
          BY <4>2, <5>1, FS_AddElement DEF F
        <5>3. QED
          BY <2>10, <5>2 DEF F
      <4>4. k_hold_per_peer_max \in Nat
        BY OrderingAssumption DEF k_hold_per_peer_max
      <4>5. QED
        BY <1>3, <3>2, <4>2, <4>3, <4>4
    <3>3. QED
      BY <3>1, <3>2
  <2>14. Good(q, ses)
    BY <2>7, <2>8, <2>11, <2>12, <2>13 DEF Good
  <2>15. QED
    BY <2>1, <2>5, <2>14
<1>4. QED
  BY <1>1, <1>2, <1>3

-----------------------------------------------------------------------------
(* The methods. *)

\* What a call of ingest() with result r leaves behind: only the message the
\* gate waits for is handed out, and moves it; the gates of the other sources
\* stay or are evicted.
Ingested(o, ses, msg, r) ==
  LET n == msg.source_id
  IN  /\ Good(r.buffer, ses)
      /\ ~Ordered(msg) => r.buffer = o
      /\ Ordered(msg) => find_peer(r.buffer, n) # {}
      /\ Ordered(msg) /\ r.res = "OK" =>
           /\ msg.sequence_num = Expected(o, n)
           /\ Expected(r.buffer, n) = advance_next_expected(Expected(o, n))
      /\ Ordered(msg) /\ r.res # "OK" => Expected(r.buffer, n) = Expected(o, n)
      /\ \A m : m # n => \/ Expected(r.buffer, m) = Expected(o, m)
                         \/ find_peer(o, m) # {} /\ find_peer(r.buffer, m) = {}

\* ingest() does so.
LEMMA IngestGood ==
  ASSUME NEW o, NEW ses, Good(o, ses), NEW msg \in Envelope,
         msg.message_id = ses[msg.source_id]
  PROVE  Ingested(o, ses, msg, ingest(o, msg))
<1> DEFINE r == ingest(o, msg)
           n == msg.source_id
           i == PeerSlotFor(o, n)
           p == get_or_create_peer(o, n)
           e == p.m_peers[i].next_expected_seq
           q == [p EXCEPT !.m_peers[i].next_expected_seq = advance_next_expected(@)]
<1>1. CASE ~Ordered(msg)
  BY <1>1 DEF ingest, Ingested
<1>2. CASE Ordered(msg)
  <2>1. n \in Node /\ msg.sequence_num \in Nat
    BY DEF Envelope
  <2>2. /\ Good(p, ses) /\ p.m_hold = o.m_hold
        /\ i \in find_peer(p, n) /\ Expected(p, n) = Expected(o, n)
        /\ \A m : m # n /\ find_peer(p, m) # {} => Expected(p, m) = Expected(o, m)
        /\ \A m : find_peer(o, m) = {} /\ m # n => find_peer(p, m) = {}
    BY <2>1, CreatePeer
  <2>3. r = CASE msg.sequence_num < e -> [res |-> "ERR_AGAIN", buffer |-> p]
              [] msg.sequence_num = e -> [res |-> "OK", buffer |-> q]
              [] msg.sequence_num > e -> hold(p, msg)
    BY <1>2 DEF ingest
  <2>4. q = [p EXCEPT !.m_peers[i].next_expected_seq = advance_next_expected(e)]
    OBVIOUS
  <2> HIDE DEF r, p, i, q
  <2>5. p \in Buffer /\ OneSlot(p) /\ o \in Buffer /\ OneSlot(o)
    BY <2>2 DEF Good
  <2>6. e = Expected(o, n) /\ e \in 1 .. SEQ_MAX
    BY <2>2, <2>5, ExpectedIs
  <2> HIDE DEF e
  <2>7. ASSUME NEW m, m # n
        PROVE  \/ Expected(p, m) = Expected(o, m)
               \/ find_peer(o, m) # {} /\ find_peer(p, m) = {}
    BY <2>2, <2>5, <2>7, ExpectedIs
  <2>8. CASE msg.sequence_num < e
    <3>1. r = [res |-> "ERR_AGAIN", buffer |-> p]
      BY <2>1, <2>3, <2>6, <2>8
    <3>2. QED
      BY <1>2, <2>2, <2>7, <3>1 DEF r, Ingested
  <2>9. CASE msg.sequence_num = e
    <3>1. r = [res |-> "OK", buffer |-> q]
      BY <2>1, <2>3, <2>6, <2>9
    <3>2. advance_next_expected(e) \in 1 .. SEQ_MAX
      BY <2>6, NextNumbers
    <3>3. /\ Shrunk(p, q) /\ Expected(q, n) = advance_next_expected(e)
          /\ \A m : m # n => Expected(q, m) = Expected(p, m)
      BY <2>2, <2>4, <2>5, <3>2, MoveGate
    <3>4. Good(q, ses) /\ \A m : find_peer(q, m) = find_peer(p, m)
      BY <2>2, <2>5, <3>3, ShrunkGood, ShrunkPeers
    <3>5. QED
      BY <1>2, <2>2, <2>6, <2>7, <2>9, <3>1, <3>3, <3>4 DEF r, Ingested
  <2>10. CASE msg.sequence_num > e
    <3>1. r = hold(p, msg)
      BY <2>1, <2>3, <2>6, <2>10
    <3>2. Good(r.buffer, ses) /\ r.buffer.m_peers = p.m_peers /\ r.res # "OK"
      BY <1>2, <2>2, <3>1, HoldGood
    <3>3. \A m : /\ find_peer(r.buffer, m) = find_peer(p, m)
                 /\ Expected(r.buffer, m) = Expected(p, m)
      BY <3>2 DEF find_peer, Expected
    <3>4. QED
      BY <1>2, <2>2, <2>7, <3>2, <3>3 DEF r, Ingested
  <2>11. QED
    BY <2>1, <2>6, <2>8, <2>9, <2>10
<1>3. QED
  BY <1>1, <1>2

\* try_release_next(): what it hands out is the held message the gate waits for.
LEMMA ReleaseGood ==
  ASSUME NEW o, NEW ses, Good(o, ses), NEW n
  PROVE  LET r == try_release_next(o, n)
         IN  /\ Shrunk(o, r.buffer)
             /\ \A m : m # n => Expected(r.buffer, m) = Expected(o, m)
             /\ \/ r.res # "OK" /\ r.out = {} /\ r.buffer = o
                \/ /\ r.res = "OK"
                   /\ Expected(r.buffer, n) = advance_next_expected(Expected(o, n))
                   /\ \E e \in Envelope : /\ r.out = {e} /\ Ordered(e)
                                          /\ e.source_id = n
                                          /\ e.sequence_num = Expected(o, n)
<1> DEFINE r == try_release_next(o, n)
           h == Min(ReleasableFrom(o, n))
           i == Min(find_peer(o, n))
           v == advance_next_expected(o.m_peers[i].next_expected_seq)
           q == [Unhold(o, {h})
                   EXCEPT !.m_peers[i].next_expected_seq = advance_next_expected(@)]
<1>0. o \in Buffer /\ OneSlot(o)
  BY DEF Good
<1>1. CASE ReleasableFrom(o, n) = {}
  <2>1. r = [res |-> "ERR_AGAIN", out |-> {}, buffer |-> o]
    BY <1>1 DEF try_release_next
  <2>2. Shrunk(o, o)
    BY <1>0 DEF Shrunk
  <2>3. QED
    BY <2>1, <2>2
<1>2. CASE ReleasableFrom(o, n) # {}
  <2>1. r = [res |-> "OK", out |-> {o.m_hold[h].env}, buffer |-> q]
    BY <1>2 DEF try_release_next
  <2>2. h \in ReleasableFrom(o, n)
    <3>1. ReleasableFrom(o, n) \subseteq Nat
      BY TableIndices DEF ReleasableFrom, HeldAs, HeldFrom, Held
    <3>2. QED
      BY <1>2, <3>1, MinIsLeast
  <2>3. /\ find_peer(o, n) = {i}
        /\ o.m_peers[i].next_expected_seq = Expected(o, n)
        /\ Expected(o, n) \in 1 .. SEQ_MAX
    <3>1. find_peer(o, n) # {}
      BY <1>2 DEF ReleasableFrom
    <3>2. i \in find_peer(o, n)
      BY <1>0, <3>1, ExpectedIs
    <3>3. QED
      BY <1>0, <3>2, ExpectedIs
  <2> HIDE DEF h, i
  <2>4. h \in HeldAs(o, n, Expected(o, n))
    BY <2>2, <2>3 DEF ReleasableFrom
  <2>5. /\ h \in HoldIndex /\ h \in Held(o) /\ o.m_hold[h].env.source_id = n
        /\ o.m_hold[h].env.sequence_num = Expected(o, n)
    BY <2>4 DEF HeldAs, HeldFrom, Held
  <2>6. o.m_hold[h].env \in Envelope /\ Ordered(o.m_hold[h].env)
    BY <1>0, <2>5, SlotFacts DEF Good, Held
  <2>7. v \in 1 .. SEQ_MAX /\ v = advance_next_expected(Expected(o, n))
    BY <2>3, NextNumbers
  <2> DEFINE u == Unhold(o, {h})
  <2>8. Shrunk(o, u) /\ u.m_peers = o.m_peers /\ \A m : Expected(u, m) = Expected(o, m)
    BY <1>0, UnholdShrinks
  <2>9. u \in Buffer /\ OneSlot(u) /\ i \in find_peer(u, n)
    BY <1>0, <2>3, <2>8 DEF Shrunk, OneSlot, find_peer
  <2>10. q = [u EXCEPT !.m_peers[i].next_expected_seq = v]
    BY <2>8 DEF u
  <2> HIDE DEF u, q, v
  <2>11. /\ Shrunk(u, q) /\ Expected(q, n) = v
         /\ \A m : m # n => Expected(q, m) = Expected(u, m)
    BY <2>7, <2>9, <2>10, MoveGate
  <2>12. Shrunk(o, q)
    BY <2>8, <2>11, ShrunkTwice
  <2>13. QED
    BY <2>1, <2>5, <2>6, <2>7, <2>8, <2>11, <2>12
<1>3. QED
  BY <1>1, <1>2

\* reset_peer(): the gate is back at 1 and nothing of the old session is held.
LEMMA ResetGood ==
  ASSUME NEW o, NEW ses \in [Node -> Nat], Good(o, ses), NEW n \in Node
  PROVE  LET p == reset_peer(o, n)
         IN  /\ Good(p, [ses EXCEPT ![n] = @ + 1])
             /\ Expected(p, n) = 1
             /\ \A m : m # n => Expected(p, m) = Expected(o, m)
<1> DEFINE p == reset_peer(o, n)
           u == Unhold(o, HeldFrom(o, n))
           i == Min(find_peer(o, n))
           new == [ses EXCEPT ![n] = @ + 1]
<1>0. o \in Buffer /\ OneSlot(o)
  BY DEF Good
<1>1. /\ Shrunk(o, p) /\ HeldFrom(p, n) = {} /\ Expected(p, n) = 1
      /\ \A m : m # n => Expected(p, m) = Expected(o, m)
  <2>1. CASE find_peer(o, n) = {}
    <3>1. p = o
      BY <2>1 DEF reset_peer
    <3>2. Shrunk(o, o)
      BY <1>0 DEF Shrunk
    <3>3. HeldFrom(o, n) = {}
      BY <2>1 DEF Good, HeldFrom
    <3>4. QED
      BY <1>0, <2>1, <3>1, <3>2, <3>3, ExpectedIs
  <2>2. CASE find_peer(o, n) # {}
    <3>1. p = [u EXCEPT !.m_peers[i].next_expected_seq = 1]
      BY <2>2 DEF reset_peer
    <3>2. i \in find_peer(o, n)
      BY <1>0, <2>2, ExpectedIs
    <3>3. /\ Shrunk(o, u) /\ u.m_peers = o.m_peers
          /\ \A h \in HoldIndex : u.m_hold[h] = IF h \in HeldFrom(o, n) THEN NoHold
                                                ELSE o.m_hold[h]
          /\ \A m : Expected(u, m) = Expected(o, m)
      BY <1>0, UnholdShrinks
    <3> HIDE DEF u, i, p
    <3>4. u \in Buffer /\ OneSlot(u) /\ i \in find_peer(u, n)
      BY <1>0, <3>2, <3>3 DEF Shrunk, OneSlot, find_peer
    <3>5. 1 \in 1 .. SEQ_MAX
      BY OrderingAssumption
    <3>6. /\ Shrunk(u, p) /\ p.m_hold = u.m_hold /\ Expected(p, n) = 1
          /\ \A m : m # n => Expected(p, m) = Expected(u, m)
      BY <3>1, <3>4, <3>5, MoveGate
    <3>7. HeldFrom(p, n) = {}
      <4> SUFFICES ASSUME NEW h \in HeldFrom(p, n) PROVE FALSE
        OBVIOUS
      <4>1. h \in HoldIndex /\ u.m_hold[h].active /\ u.m_hold[h].env.source_id = n
        BY <3>6 DEF HeldFrom, Held
      <4>2. h \notin HeldFrom(o, n)
        BY <3>3, <4>1, NewSlots
      <4>3. QED
        BY <3>3, <4>1, <4>2 DEF HeldFrom, Held
    <3>8. QED
      BY <3>3, <3>6, <3>7, ShrunkTwice
  <2>3. QED
    BY <2>1, <2>2
<1> HIDE DEF p
<1>2. Good(p, ses)
  BY <1>1, ShrunkGood
<1>3. ASSUME NEW h \in Held(p)
      PROVE  p.m_hold[h].env.message_id = new[p.m_hold[h].env.source_id]
  <2> DEFINE m == p.m_hold[h].env.source_id
  <2>1. m # n
    BY <1>1 DEF HeldFrom
  <2>2. m \in Node
    BY <1>2, SlotFacts DEF Good, Held, Envelope
  <2>3. new[m] = ses[m]
    BY <2>1, <2>2
  <2>4. QED
    BY <1>2, <2>3 DEF Good
<1>4. Good(p, new)
  BY <1>2, <1>3 DEF Good
<1>5. QED
  BY <1>1, <1>4 DEF p

\* advance_sequence(): a gate moves forward or stays.
LEMMA AdvanceGood ==
  ASSUME NEW o \in Buffer, OneSlot(o), NEW n, NEW v \in 1 .. SEQ_MAX
  PROVE  LET p == advance_sequence(o, n, v)
         IN  /\ Shrunk(o, p)
             /\ Expected(p, n) = Expected(o, n) \/ (Expected(p, n) = v /\ v > Expected(o, n))
             /\ \A m : m # n => Expected(p, m) = Expected(o, m)
<1> DEFINE p == advance_sequence(o, n, v)
           i == Min(find_peer(o, n))
           stale == {h \in HeldFrom(o, n) : o.m_hold[h].env.sequence_num < v}
           u == Unhold(o, stale)
<1>1. Shrunk(o, o)
  BY DEF Shrunk
<1>2. CASE find_peer(o, n) = {} \/ ~(v > o.m_peers[i].next_expected_seq)
  <2>1. p = o
    BY <1>2 DEF advance_sequence
  <2>2. QED
    BY <1>1, <2>1
<1>3. CASE find_peer(o, n) # {} /\ v > o.m_peers[i].next_expected_seq
  <2>1. p = [u EXCEPT !.m_peers[i].next_expected_seq = v]
    BY <1>3 DEF advance_sequence
  <2>2. i \in find_peer(o, n) /\ Expected(o, n) = o.m_peers[i].next_expected_seq
    BY <1>3, ExpectedIs
  <2>3. Shrunk(o, u) /\ u.m_peers = o.m_peers /\ \A m : Expected(u, m) = Expected(o, m)
    BY UnholdShrinks
  <2> HIDE DEF u, i, p
  <2>4. u \in Buffer /\ OneSlot(u) /\ i \in find_peer(u, n)
    BY <2>2, <2>3 DEF Shrunk, OneSlot, find_peer
  <2>5. /\ Shrunk(u, p) /\ Expected(p, n) = v
        /\ \A m : m # n => Expected(p, m) = Expected(u, m)
    BY <2>1, <2>4, MoveGate
  <2>6. QED
    BY <1>3, <2>2, <2>3, <2>5, ShrunkTwice DEF p
<1>4. QED
  BY <1>2, <1>3

-----------------------------------------------------------------------------
(***************************************************************************)
(* sweep_expired_holds().  What its loop keeps true after k iterations:    *)
(* the buffer has only shrunk, gates have only moved forward, and every    *)
(* number a gate has passed is covered by a freed message of its source.   *)
(***************************************************************************)
Swept(o, s, k) ==
  /\ Shrunk(o, s.buffer)
  /\ s.freed \in Seq(Envelope) /\ Len(s.freed) <= k
  /\ \A n : /\ Expected(o, n) <= Expected(s.buffer, n)
            /\ \A x \in Expected(o, n) .. Expected(s.buffer, n) - 1 :
                 \E j \in 1 .. Len(s.freed) :
                   s.freed[j].source_id = n /\ x <= s.freed[j].sequence_num

\* One iteration keeps it true.
LEMMA SweepStep ==
  ASSUME NEW o, NEW ses, Good(o, ses), NEW s, NEW k \in HoldIndex,
         Swept(o, s, k - 1), NEW now
  PROVE  Swept(o, SweepHold(s, k, now, ORDERING_HOLD_COUNT), k)
<1> DEFINE env == s.buffer.m_hold[k].env
           n == env.source_id
           v == seq_next_guarded(env.sequence_num)
           a == advance_sequence(s.buffer, n, v)
           b == Unhold(a, {k})
           f == Append(s.freed, env)
           t == SweepHold(s, k, now, ORDERING_HOLD_COUNT)
<1>0. /\ o \in Buffer /\ OneSlot(o) /\ Shrunk(o, s.buffer)
      /\ s.buffer \in Buffer /\ OneSlot(s.buffer)
  BY DEF Good, Swept, Shrunk, OneSlot
<1>1. CASE k \notin ExpiredHolds(s.buffer, now)
  <2>1. t = s
    BY <1>1 DEF SweepHold
  <2>2. k \in Nat /\ Len(s.freed) \in Nat
    BY TableIndices DEF Swept
  <2>3. QED
    BY <2>1, <2>2 DEF Swept
<1>2. CASE k \in ExpiredHolds(s.buffer, now)
  <2>1. env \in Envelope /\ env.sequence_num \in Nat
    BY <1>0, <1>2, SlotFacts DEF ExpiredHolds, Held, Envelope
  <2>2. Len(s.freed) < ORDERING_HOLD_COUNT /\ Len(s.freed) \in Nat /\ k \in Nat
        /\ Len(s.freed) <= k - 1
    BY OrderingAssumption DEF Swept, HoldIndex
  <2>3. t = [freed |-> f, buffer |-> b]
    BY <1>2, <2>2 DEF SweepHold
  <2>4. v \in 1 .. SEQ_MAX /\ (v = env.sequence_num + 1 \/ v = 1)
    BY <2>1, NextNumbers
  <2> HIDE DEF v
  <2>5. /\ Shrunk(s.buffer, a)
        /\ \/ Expected(a, n) = Expected(s.buffer, n)
           \/ Expected(a, n) = v /\ v > Expected(s.buffer, n)
        /\ \A m : m # n => Expected(a, m) = Expected(s.buffer, m)
    BY <1>0, <2>4, AdvanceGood
  <2>6. Shrunk(a, b) /\ \A m : Expected(b, m) = Expected(a, m)
    BY <2>5, UnholdShrinks DEF Shrunk
  <2>7. Shrunk(o, b)
    BY <1>0, <2>5, <2>6, ShrunkTwice
  <2>8. /\ f \in Seq(Envelope) /\ Len(f) = Len(s.freed) + 1
        /\ \A j \in 1 .. Len(s.freed) : f[j] = s.freed[j]
        /\ f[Len(s.freed) + 1] = env
    BY <2>1, AppendProperties DEF Swept
  <2> HIDE DEF a, b, f, env
  <2>9. ASSUME NEW m
        PROVE  /\ Expected(o, m) <= Expected(b, m)
               /\ \A x \in Expected(o, m) .. Expected(b, m) - 1 :
                    \E j \in 1 .. Len(f) : f[j].source_id = m /\ x <= f[j].sequence_num
    <3>1. /\ Expected(o, m) \in 1 .. SEQ_MAX
          /\ Expected(s.buffer, m) \in 1 .. SEQ_MAX
      BY <1>0, ExpectedIs
    <3>2. \/ Expected(b, m) = Expected(s.buffer, m)
          \/ /\ m = n /\ Expected(b, m) = env.sequence_num + 1
             /\ Expected(b, m) > Expected(s.buffer, m)
      BY <1>0, <2>4, <2>5, <2>6, ExpectedIs
    <3>3. Expected(o, m) <= Expected(s.buffer, m)
      BY DEF Swept
    <3>4. Expected(o, m) <= Expected(b, m)
      BY <2>1, <3>1, <3>2, <3>3
    <3>5. ASSUME NEW x \in Expected(o, m) .. Expected(b, m) - 1
          PROVE  \E j \in 1 .. Len(f) : f[j].source_id = m /\ x <= f[j].sequence_num
      <4>1. CASE x < Expected(s.buffer, m)
        <5>1. x \in Expected(o, m) .. Expected(s.buffer, m) - 1
          BY <3>1, <3>2, <2>1, <4>1
        <5>2. PICK j \in 1 .. Len(s.freed) :
                s.freed[j].source_id = m /\ x <= s.freed[j].sequence_num
          BY <5>1 DEF Swept
        <5>3. j \in 1 .. Len(f) /\ f[j] = s.freed[j]
          BY <2>2, <2>8
        <5>4. QED
          BY <5>2, <5>3
      <4>2. CASE ~(x < Expected(s.buffer, m))
        <5>1. m = n /\ x <= env.sequence_num
          BY <2>1, <3>1, <3>2, <4>2
        <5>2. Len(s.freed) + 1 \in 1 .. Len(f)
          BY <2>2, <2>8
        <5>3. QED
          BY <5>1, <5>2, <2>8
      <4>3. QED
        BY <4>1, <4>2
    <3>6. QED
      BY <3>4, <3>5
  <2>10. Len(f) <= k
    BY <2>2, <2>8
  <2>11. t.freed = f /\ t.buffer = b
    BY <2>3
  <2>12. QED
    BY <2>7, <2>8, <2>9, <2>10, <2>11 DEF Swept
<1>3. QED
  BY <1>1, <1>2

\* The loop of sweep_expired_holds() as the sequence of its states: a recursive
\* definition on 0 .. N has a solution, by induction on N in the form of the
\* least number for which there is none.
LEMMA SweepLoop ==
  ASSUME NEW o, NEW now
  PROVE  \E g : /\ g[0] = [freed |-> <<>>, buffer |-> o]
                /\ \A k \in HoldIndex :
                     g[k] = SweepHold(g[k - 1], k, now, ORDERING_HOLD_COUNT)
                /\ sweep_expired_holds(o, now, ORDERING_HOLD_COUNT) =
                     g[ORDERING_HOLD_COUNT]
<1> DEFINE N == ORDERING_HOLD_COUNT
           base == [freed |-> <<>>, buffer |-> o]
           F(g, m) == [k \in 0 .. m |-> IF k = 0 THEN base
                                        ELSE SweepHold(g[k - 1], k, now, N)]
           Bad == {m \in 0 .. N : ~ \E g : g = F(g, m)}
<1>0. N \in Nat /\ N > 0
  BY OrderingAssumption
<1>1. Bad = {}
  <2> SUFFICES ASSUME Bad # {} PROVE FALSE
    OBVIOUS
  <2> DEFINE m == Min(Bad)
  <2>1. m \in Bad /\ \A x \in Bad : m <= x
    <3>1. Bad \subseteq Nat
      BY <1>0
    <3> HIDE DEF Bad
    <3>2. QED
      BY <3>1, MinIsLeast
  <2>2. m \in 0 .. N
    BY <2>1
  <2> HIDE DEF m
  <2>3. m # 0
    <3> SUFFICES ASSUME m = 0 PROVE FALSE
      OBVIOUS
    <3> DEFINE g == [k \in 0 .. 0 |-> base]
    <3>1. g = F(g, 0)
      OBVIOUS
    <3>2. QED
      BY <2>1, <3>1
  <2>4. m - 1 \in 0 .. N /\ m - 1 \notin Bad
    BY <1>0, <2>1, <2>2, <2>3
  <2>5. PICK g : g = F(g, m - 1)
    BY <2>4
  <2> DEFINE last == SweepHold(g[m - 1], m, now, N)
             gg == [k \in 0 .. m |-> IF k = m THEN last ELSE g[k]]
  <2>6. ASSUME NEW k \in 0 .. m
        PROVE  gg[k] = IF k = 0 THEN base ELSE SweepHold(gg[k - 1], k, now, N)
    <3>1. CASE k = m
      <4>1. gg[k] = last /\ k - 1 \in 0 .. m /\ k - 1 # m
        BY <2>2, <2>3, <3>1
      <4>2. gg[k - 1] = g[m - 1]
        BY <3>1, <4>1
      <4>3. QED
        BY <2>3, <3>1, <4>1, <4>2
    <3>2. CASE k # m
      <4>1. k \in 0 .. m - 1 /\ gg[k] = g[k]
        BY <2>2, <3>2
      <4>2. g[k] = IF k = 0 THEN base ELSE SweepHold(g[k - 1], k, now, N)
        BY <2>5, <4>1
      <4>3. k # 0 => gg[k - 1] = g[k - 1]
        BY <2>2, <4>1
      <4>4. QED
        BY <4>1, <4>2, <4>3
    <3>3. QED
      BY <3>1, <3>2
  <2>7. gg = F(gg, m)
    BY <2>6
  <2>8. QED
    BY <2>1, <2>7
<1> DEFINE sw == CHOOSE g : g = F(g, N)
<1>2. sw = F(sw, N)
  <2>1. N \notin Bad /\ N \in 0 .. N
    BY <1>0, <1>1
  <2>2. \E g : g = F(g, N)
    BY <2>1
  <2>3. QED
    BY <2>2
<1>3. sweep_expired_holds(o, now, N) = sw[N]
  BY DEF sweep_expired_holds
<1> HIDE DEF sw
<1>4. sw[0] = base
  BY <1>0, <1>2
<1>5. ASSUME NEW k \in HoldIndex PROVE sw[k] = SweepHold(sw[k - 1], k, now, N)
  <2>1. k \in 0 .. N /\ k # 0
    BY <1>0 DEF HoldIndex
  <2>2. QED
    BY <1>2, <2>1
<1>6. QED
  BY <1>3, <1>4, <1>5

\* The whole sweep.
LEMMA SweepGood ==
  ASSUME NEW o, NEW ses, Good(o, ses), NEW now
  PROVE  Swept(o, sweep_expired_holds(o, now, ORDERING_HOLD_COUNT), ORDERING_HOLD_COUNT)
<1> DEFINE N == ORDERING_HOLD_COUNT
<1>0. N \in Nat /\ N > 0
  BY OrderingAssumption
<1>1. PICK g : /\ g[0] = [freed |-> <<>>, buffer |-> o]
               /\ \A k \in HoldIndex : g[k] = SweepHold(g[k - 1], k, now, N)
               /\ sweep_expired_holds(o, now, N) = g[N]
  BY SweepLoop
<1> DEFINE Bad == {k \in 0 .. N : ~Swept(o, g[k], k)}
<1>2. Swept(o, g[0], 0)
  <2>1. o \in Buffer /\ OneSlot(o)
    BY DEF Good
  <2>2. g[0].buffer = o /\ g[0].freed = <<>>
    BY <1>1
  <2>3. Shrunk(o, o)
    BY <2>1 DEF Shrunk
  <2>4. \A n : Expected(o, n) \in Nat
    BY <2>1, ExpectedIs
  <2>5. QED
    BY <2>2, <2>3, <2>4 DEF Swept
<1>3. Bad = {}
  <2> SUFFICES ASSUME Bad # {} PROVE FALSE
    OBVIOUS
  <2> DEFINE m == Min(Bad)
  <2>1. m \in Bad /\ \A x \in Bad : m <= x
    <3>1. Bad \subseteq Nat
      BY <1>0
    <3> HIDE DEF Bad
    <3>2. QED
      BY <3>1, MinIsLeast
  <2>2. m \in 0 .. N /\ ~Swept(o, g[m], m)
    BY <2>1
  <2> HIDE DEF m
  <2>3. m # 0
    BY <1>2, <2>2
  <2>4. m - 1 \in 0 .. N /\ m - 1 \notin Bad /\ m \in HoldIndex
    BY <1>0, <2>1, <2>2, <2>3 DEF HoldIndex
  <2>5. Swept(o, g[m - 1], m - 1)
    BY <2>4
  <2>6. g[m] = SweepHold(g[m - 1], m, now, N)
    BY <1>1, <2>4
  <2>7. QED
    BY <2>2, <2>4, <2>5, <2>6, SweepStep
<1>4. Swept(o, g[N], N)
  BY <1>0, <1>3
<1>5. QED
  BY <1>1, <1>4

-----------------------------------------------------------------------------
(* The history of a source. *)

\* A new epoch has no past.
LEMMA PastEmpty ==
  ASSUME NEW r
  PROVE  Past(1, <<>>, r)
BY DEF Past

\* The gate delivers the number it waits for.
LEMMA PastDelivers ==
  ASSUME NEW e \in Nat \ {0}, NEW d \in Seq(Nat), NEW r, Past(e, d, r)
  PROVE  Past(e + 1, Append(d, e), r)
<1> DEFINE a == Append(d, e)
<1>1. /\ Len(a) = Len(d) + 1 /\ Len(d) \in Nat
      /\ \A j \in 1 .. Len(d) : a[j] = d[j] /\ d[j] \in Nat
      /\ a[Len(d) + 1] = e
  BY AppendProperties, ElementOfSeq
<1> HIDE DEF a
<1>2. ASSUME NEW j \in 1 .. Len(a)
      PROVE  0 < a[j] /\ a[j] < e + 1 /\ \A i \in 1 .. j - 1 : a[i] < a[j]
  <2>1. CASE j = Len(d) + 1
    <3>1. \A i \in 1 .. j - 1 : i \in 1 .. Len(d) /\ d[i] < e
      BY <1>1, <2>1 DEF Past
    <3>2. QED
      BY <1>1, <2>1, <3>1
  <2>2. CASE j # Len(d) + 1
    <3>1. j \in 1 .. Len(d) /\ \A i \in 1 .. j - 1 : i \in 1 .. Len(d)
      BY <1>1, <2>2
    <3>2. 0 < d[j] /\ d[j] < e /\ \A i \in 1 .. j - 1 : d[i] < d[j]
      BY <3>1 DEF Past
    <3>3. QED
      BY <1>1, <3>1, <3>2
  <2>3. QED
    BY <2>1, <2>2
<1>3. ASSUME NEW s \in 1 .. e + 1 - 1
      PROVE  (\E j \in 1 .. Len(a) : a[j] = s) \/ (\E t \in r : s <= t)
  <2>1. CASE s = e
    BY <1>1, <2>1
  <2>2. CASE s # e
    <3>1. s \in 1 .. e - 1
      BY <2>2
    <3>2. (\E j \in 1 .. Len(d) : d[j] = s) \/ (\E t \in r : s <= t)
      BY <3>1 DEF Past
    <3>3. QED
      BY <1>1, <3>2
  <2>3. QED
    BY <2>1, <2>2
<1>4. Past(e + 1, a, r)
  BY <1>2, <1>3 DEF Past
<1>5. QED
  BY <1>4 DEF a

\* The gate skips numbers that an expiry report covers.
LEMMA PastSkips ==
  ASSUME NEW e \in Nat \ {0}, NEW f \in Nat, e <= f,
         NEW d \in Seq(Nat), NEW r, NEW q, r \subseteq q, Past(e, d, r),
         \A s \in e .. f - 1 : \E t \in q : s <= t
  PROVE  Past(f, d, q)
<1>1. ASSUME NEW j \in 1 .. Len(d)
      PROVE  0 < d[j] /\ d[j] < f /\ \A i \in 1 .. j - 1 : d[i] < d[j]
  BY ElementOfSeq DEF Past
<1>2. ASSUME NEW s \in 1 .. f - 1
      PROVE  (\E j \in 1 .. Len(d) : d[j] = s) \/ (\E t \in q : s <= t)
  <2>1. s \in 1 .. e - 1 \/ s \in e .. f - 1
    OBVIOUS
  <2>2. QED
    BY <2>1 DEF Past
<1>3. QED
  BY <1>1, <1>2 DEF Past

\* Handing out messages: each source gets nothing, or the one message its gate
\* waited for.
LEMMA DeliverPast ==
  ASSUME TypeOK, buffer' \in Buffer, OneSlot(buffer), OneSlot(buffer'),
         \A n \in Node : Past(Expected(buffer, n), delivered[n], reported[n]),
         NEW out, Deliver(out),
         \A n \in Node :
           \/ /\ {e \in out : Ordered(e) /\ e.source_id = n} = {}
              /\ Evicted(n) \/ Expected(buffer', n) = Expected(buffer, n)
           \/ /\ ~Evicted(n)
              /\ Expected(buffer', n) = advance_next_expected(Expected(buffer, n))
              /\ \E m : /\ {e \in out : Ordered(e) /\ e.source_id = n} = {m}
                        /\ m.sequence_num = Expected(buffer, n)
  PROVE  /\ delivered' \in [Node -> Seq(Nat)]
         /\ reported' \in [Node -> SUBSET Nat]
         /\ \A n \in Node : Past(Expected(buffer', n), delivered'[n], reported'[n])
<1> DEFINE got(n)  == {e \in out : Ordered(e) /\ e.source_id = n}
           over(n) == Evicted(n) \/ \E e \in got(n) : e.sequence_num = SEQ_MAX
           num(n)  == (CHOOSE e \in got(n) : TRUE).sequence_num
<1>1. /\ delivered' = [n \in Node |-> IF over(n) THEN <<>>
                                      ELSE IF got(n) = {} THEN delivered[n]
                                      ELSE Append(delivered[n], num(n))]
      /\ reported' = [n \in Node |-> IF over(n) THEN {} ELSE reported[n]]
  BY DEF Deliver
<1>2. ASSUME NEW n \in Node
      PROVE  /\ delivered'[n] \in Seq(Nat) /\ reported'[n] \in SUBSET Nat
             /\ Past(Expected(buffer', n), delivered'[n], reported'[n])
  <2>0. /\ delivered[n] \in Seq(Nat) /\ reported[n] \in SUBSET Nat
        /\ Past(Expected(buffer, n), delivered[n], reported[n])
    BY DEF TypeOK
  <2>1. Expected(buffer, n) \in 1 .. SEQ_MAX /\ SEQ_MAX \in Nat
    BY ExpectedIs, OrderingAssumption DEF TypeOK
  <2>2. CASE got(n) = {} /\ Evicted(n)
    <3>1. delivered'[n] = <<>> /\ reported'[n] = {}
      BY <1>1, <2>2
    <3>2. Expected(buffer', n) = 1
      BY <2>2, ExpectedIs DEF Evicted
    <3>3. QED
      BY <3>1, <3>2, PastEmpty
  <2>3. CASE got(n) = {} /\ ~Evicted(n)
    <3>1. delivered'[n] = delivered[n] /\ reported'[n] = reported[n]
      BY <1>1, <2>3
    <3>2. Expected(buffer', n) = Expected(buffer, n)
      BY <2>3
    <3>3. QED
      BY <2>0, <3>1, <3>2
  <2>4. CASE got(n) # {}
    <3>1. PICK m : got(n) = {m} /\ m.sequence_num = Expected(buffer, n)
      BY <2>4
    <3>2. /\ ~Evicted(n)
          /\ Expected(buffer', n) = advance_next_expected(Expected(buffer, n))
      BY <2>4
    <3>3. num(n) = Expected(buffer, n) /\ (over(n) <=> Expected(buffer, n) = SEQ_MAX)
      BY <3>1, <3>2
    <3> HIDE DEF got, over, num
    <3>4. CASE Expected(buffer, n) = SEQ_MAX
      <4>1. delivered'[n] = <<>> /\ reported'[n] = {}
        BY <1>1, <3>3, <3>4
      <4>2. Expected(buffer', n) = 1
        BY <2>1, <3>2, <3>4, NextNumbers
      <4>3. QED
        BY <4>1, <4>2, PastEmpty
    <3>5. CASE Expected(buffer, n) # SEQ_MAX
      <4>1. /\ delivered'[n] = Append(delivered[n], Expected(buffer, n))
            /\ reported'[n] = reported[n]
        BY <1>1, <2>4, <3>3, <3>5
      <4>2. Expected(buffer', n) = Expected(buffer, n) + 1
        BY <2>1, <3>2, <3>5, NextNumbers
      <4>3. Past(Expected(buffer, n) + 1, Append(delivered[n], Expected(buffer, n)),
                 reported[n])
        BY <2>0, <2>1, PastDelivers
      <4>4. Append(delivered[n], Expected(buffer, n)) \in Seq(Nat)
        BY <2>0, <2>1, AppendProperties
      <4>5. QED
        BY <2>0, <4>1, <4>2, <4>3, <4>4
    <3>6. QED
      BY <3>4, <3>5
  <2>5. QED
    BY <2>2, <2>3, <2>4
<1>3. DOMAIN delivered' = Node /\ DOMAIN reported' = Node
  BY <1>1
<1>4. delivered' \in [Node -> Seq(Nat)] /\ reported' \in [Node -> SUBSET Nat]
  <2> HIDE DEF got, over, num
  <2>1. delivered' = [n \in Node |-> delivered'[n]]
    BY <1>1
  <2>2. reported' = [n \in Node |-> reported'[n]]
    BY <1>1
  <2>3. QED
    BY <1>2, <2>1, <2>2
<1>5. QED
  BY <1>2, <1>4

-----------------------------------------------------------------------------
(* The invariant is inductive. *)

\* The buffer starts empty.
LEMMA InitInvariant == Init => IInv
<1> SUFFICES ASSUME Init PROVE IInv
  OBVIOUS
<1> USE DEF Init, init
<1>1. /\ \A h \in HoldIndex : buffer.m_hold[h].active = FALSE
      /\ \A i \in PeerIndex : buffer.m_peers[i].active = FALSE
  BY DEF NoHold, NoPeer
<1>2. buffer \in Buffer
  BY DEF Buffer, HoldSlot, PeerState
<1>3. TypeOK
  BY <1>2 DEF TypeOK
<1>4. Held(buffer) = {} /\ \A n : HeldFrom(buffer, n) = {} /\ find_peer(buffer, n) = {}
  BY <1>1 DEF Held, HeldFrom, find_peer
<1>5. Good(buffer, session)
  <2>1. OneSlot(buffer)
    BY <1>1 DEF OneSlot
  <2>2. HeldOnce(buffer)
    BY <1>4 DEF HeldOnce
  <2>3. 0 <= k_hold_per_peer_max
    BY OrderingAssumption DEF k_hold_per_peer_max
  <2>4. \A n : Cardinality(HeldFrom(buffer, n)) = 0
    BY <1>4, FS_EmptySet
  <2>5. QED
    BY <1>2, <1>4, <2>1, <2>2, <2>3, <2>4 DEF Good
<1>6. ASSUME NEW n \in Node PROVE Past(Expected(buffer, n), delivered[n], reported[n])
  <2>1. Expected(buffer, n) = 1 /\ delivered[n] = <<>>
    BY <1>4 DEF Expected
  <2>2. QED
    BY <2>1, PastEmpty
<1>7. QED
  BY <1>3, <1>5, <1>6 DEF IInv

\* Ingesting a message.
LEMMA IngestStep ==
  ASSUME IInv, NEW msg \in Message, Ingest(msg)
  PROVE  IInv'
<1> DEFINE r == ingest(buffer, msg)
           n == msg.source_id
           out == IF r.res = "OK" THEN {msg} ELSE {}
<1>1. /\ buffer' = r.buffer /\ Deliver(out)
      /\ releasing' = IF r.res = "OK" /\ ~envelope_is_control(msg)
                        THEN n ELSE NODE_ID_INVALID
      /\ clock' = clock /\ session' = session
      /\ msg.message_id = session[n]
  BY DEF Ingest
<1>2. TypeOK /\ Good(buffer, session) /\ msg \in Envelope /\ n \in Node
  BY OrderingSpecAssumption DEF IInv, Envelope
<1>3. /\ Good(buffer', session)
      /\ ~Ordered(msg) => buffer' = buffer
      /\ Ordered(msg) => find_peer(buffer', n) # {}
      /\ Ordered(msg) /\ r.res = "OK" =>
           /\ msg.sequence_num = Expected(buffer, n)
           /\ Expected(buffer', n) = advance_next_expected(Expected(buffer, n))
      /\ Ordered(msg) /\ r.res # "OK" => Expected(buffer', n) = Expected(buffer, n)
      /\ \A m : m # n => \/ Expected(buffer', m) = Expected(buffer, m)
                         \/ find_peer(buffer, m) # {} /\ find_peer(buffer', m) = {}
  <2>1. Ingested(buffer, session, msg, r)
    BY <1>1, <1>2, IngestGood
  <2> HIDE DEF r
  <2>2. QED
    BY <1>1, <2>1 DEF Ingested
<1> HIDE DEF r
<1>4. ASSUME NEW m \in Node
      PROVE  \/ /\ {e \in out : Ordered(e) /\ e.source_id = m} = {}
                /\ Evicted(m) \/ Expected(buffer', m) = Expected(buffer, m)
             \/ /\ ~Evicted(m)
                /\ Expected(buffer', m) = advance_next_expected(Expected(buffer, m))
                /\ \E k : /\ {e \in out : Ordered(e) /\ e.source_id = m} = {k}
                          /\ k.sequence_num = Expected(buffer, m)
  <2>1. CASE m # n
    <3>1. {e \in out : Ordered(e) /\ e.source_id = m} = {}
      BY <2>1
    <3>2. QED
      BY <1>3, <2>1, <3>1 DEF Evicted
  <2>2. CASE m = n /\ ~Ordered(msg)
    BY <1>3, <2>2
  <2>3. CASE m = n /\ Ordered(msg) /\ r.res = "OK"
    <3>1. {e \in out : Ordered(e) /\ e.source_id = m} = {msg}
      BY <2>3
    <3>2. QED
      BY <1>3, <2>3, <3>1 DEF Evicted
  <2>4. CASE m = n /\ Ordered(msg) /\ r.res # "OK"
    BY <1>3, <2>4
  <2>5. QED
    BY <2>1, <2>2, <2>3, <2>4
<1>5. /\ delivered' \in [Node -> Seq(Nat)] /\ reported' \in [Node -> SUBSET Nat]
      /\ \A m \in Node : Past(Expected(buffer', m), delivered'[m], reported'[m])
  <2> HIDE DEF out
  <2>1. OneSlot(buffer) /\ OneSlot(buffer') /\ buffer' \in Buffer
    BY <1>2, <1>3 DEF Good
  <2>2. \A m \in Node : Past(Expected(buffer, m), delivered[m], reported[m])
    BY DEF IInv
  <2>3. QED
    BY <1>1, <1>2, <1>4, <2>1, <2>2, DeliverPast
<1>6. TypeOK'
  BY <1>1, <1>2, <1>3, <1>5 DEF TypeOK, Good
<1>7. QED
  BY <1>1, <1>3, <1>5, <1>6 DEF IInv

\* Releasing a held message.
LEMMA ReleaseStep ==
  ASSUME IInv, TryReleaseNext
  PROVE  IInv'
<1> DEFINE n == releasing
           r == try_release_next(buffer, n)
<1>1. /\ buffer' = r.buffer /\ Deliver(r.out)
      /\ releasing' = IF r.res = "OK" THEN releasing ELSE NODE_ID_INVALID
      /\ clock' = clock /\ session' = session
      /\ releasing # NODE_ID_INVALID
  BY DEF TryReleaseNext
<1>2. TypeOK /\ Good(buffer, session) /\ n \in Node
  BY <1>1 DEF IInv, TypeOK
<1>3. /\ Shrunk(buffer, buffer')
      /\ \A m : m # n => Expected(buffer', m) = Expected(buffer, m)
      /\ \/ r.res # "OK" /\ r.out = {} /\ buffer' = buffer
         \/ /\ r.res = "OK"
            /\ Expected(buffer', n) = advance_next_expected(Expected(buffer, n))
            /\ \E e \in Envelope : /\ r.out = {e} /\ Ordered(e)
                                   /\ e.source_id = n
                                   /\ e.sequence_num = Expected(buffer, n)
  BY <1>1, <1>2, ReleaseGood
<1>4. Good(buffer', session) /\ \A m : find_peer(buffer', m) = find_peer(buffer, m)
  <2>1. Good(buffer', session)
    BY <1>2, <1>3, ShrunkGood
  <2>2. buffer \in Buffer
    BY <1>2 DEF TypeOK
  <2>3. \A m : find_peer(buffer', m) = find_peer(buffer, m)
    BY <1>3, <2>2, ShrunkPeers
  <2>4. QED
    BY <2>1, <2>3
<1> HIDE DEF r
<1>5. ASSUME NEW m \in Node
      PROVE  \/ /\ {e \in r.out : Ordered(e) /\ e.source_id = m} = {}
                /\ Evicted(m) \/ Expected(buffer', m) = Expected(buffer, m)
             \/ /\ ~Evicted(m)
                /\ Expected(buffer', m) = advance_next_expected(Expected(buffer, m))
                /\ \E k : /\ {e \in r.out : Ordered(e) /\ e.source_id = m} = {k}
                          /\ k.sequence_num = Expected(buffer, m)
  <2>1. CASE r.out = {} /\ buffer' = buffer
    BY <2>1
  <2>2. ASSUME NEW e \in Envelope, r.out = {e}, Ordered(e), e.source_id = n,
               e.sequence_num = Expected(buffer, n),
               Expected(buffer', n) = advance_next_expected(Expected(buffer, n))
        PROVE  \/ /\ {k \in r.out : Ordered(k) /\ k.source_id = m} = {}
                  /\ Evicted(m) \/ Expected(buffer', m) = Expected(buffer, m)
               \/ /\ ~Evicted(m)
                  /\ Expected(buffer', m) = advance_next_expected(Expected(buffer, m))
                  /\ {k \in r.out : Ordered(k) /\ k.source_id = m} = {e}
                  /\ e.sequence_num = Expected(buffer, m)
    <3>1. CASE m # n
      BY <1>3, <2>2, <3>1
    <3>2. CASE m = n
      <4>1. {k \in r.out : Ordered(k) /\ k.source_id = m} = {e}
        BY <2>2, <3>2
      <4>2. QED
        BY <1>4, <2>2, <3>2, <4>1 DEF Evicted
    <3>3. QED
      BY <3>1, <3>2
  <2>3. QED
    BY <1>3, <2>1, <2>2
<1>6. /\ delivered' \in [Node -> Seq(Nat)] /\ reported' \in [Node -> SUBSET Nat]
      /\ \A m \in Node : Past(Expected(buffer', m), delivered'[m], reported'[m])
  <2>1. OneSlot(buffer) /\ OneSlot(buffer') /\ buffer' \in Buffer
    BY <1>2, <1>4 DEF Good
  <2>2. \A m \in Node : Past(Expected(buffer, m), delivered[m], reported[m])
    BY DEF IInv
  <2>3. QED
    BY <1>1, <1>2, <1>5, <2>1, <2>2, DeliverPast
<1>7. TypeOK'
  BY <1>1, <1>2, <1>4, <1>6 DEF TypeOK, Good
<1>8. QED
  BY <1>1, <1>4, <1>6, <1>7 DEF IInv

\* Sweeping expired holds.
LEMMA SweepStepInv ==
  ASSUME IInv, SweepExpiredHolds
  PROVE  IInv'
<1> DEFINE N == ORDERING_HOLD_COUNT
           r == sweep_expired_holds(buffer, clock, N)
           new(n) == {r.freed[k].sequence_num :
                        k \in {k \in DOMAIN r.freed : r.freed[k].source_id = n}}
<1>1. /\ buffer' = r.buffer
      /\ reported' = [n \in Node |-> reported[n] \union new(n)]
      /\ clock' = clock /\ releasing' = releasing /\ session' = session
      /\ delivered' = delivered
  BY DEF SweepExpiredHolds
<1>2. TypeOK /\ Good(buffer, session)
  BY DEF IInv
<1>3. Swept(buffer, r, N)
  BY <1>2, SweepGood
<1> HIDE DEF r
<1>4. /\ Shrunk(buffer, buffer') /\ r.freed \in Seq(Envelope)
      /\ DOMAIN r.freed = 1 .. Len(r.freed)
      /\ \A k \in 1 .. Len(r.freed) : r.freed[k] \in Envelope
  BY <1>1, <1>3, LenProperties, ElementOfSeq DEF Swept
<1>5. Good(buffer', session)
  BY <1>2, <1>4, ShrunkGood
<1>6. ASSUME NEW n \in Node
      PROVE  /\ reported'[n] \in SUBSET Nat
             /\ Past(Expected(buffer', n), delivered'[n], reported'[n])
  <2>1. reported'[n] = reported[n] \union new(n) /\ reported[n] \in SUBSET Nat
    BY <1>1, <1>2 DEF TypeOK
  <2>2. new(n) \in SUBSET Nat
    BY <1>4 DEF Envelope
  <2>3. Expected(buffer, n) \in 1 .. SEQ_MAX /\ Expected(buffer', n) \in 1 .. SEQ_MAX
    BY <1>2, <1>5, ExpectedIs DEF Good
  <2>4. Expected(buffer, n) <= Expected(buffer', n)
    BY <1>1, <1>3 DEF Swept
  <2>5. ASSUME NEW x \in Expected(buffer, n) .. Expected(buffer', n) - 1
        PROVE  \E t \in reported'[n] : x <= t
    <3>1. PICK j \in 1 .. Len(r.freed) :
            r.freed[j].source_id = n /\ x <= r.freed[j].sequence_num
      BY <1>1, <1>3, <2>5 DEF Swept
    <3>2. r.freed[j].sequence_num \in new(n)
      BY <1>4, <3>1
    <3>3. QED
      BY <2>1, <3>1, <3>2
  <2>6. /\ delivered[n] \in Seq(Nat) /\ delivered'[n] = delivered[n]
        /\ Past(Expected(buffer, n), delivered[n], reported[n])
    BY <1>1, <1>2 DEF TypeOK, IInv
  <2> DEFINE q == reported'[n]
             e == Expected(buffer, n)
             f == Expected(buffer', n)
  <2>7. /\ reported[n] \subseteq q /\ e \in Nat \ {0} /\ f \in Nat /\ e <= f
        /\ \A x \in e .. f - 1 : \E t \in q : x <= t
    BY <2>1, <2>3, <2>4, <2>5, OrderingAssumption
  <2> HIDE DEF q, e, f
  <2>8. Past(f, delivered[n], q)
    BY <2>6, <2>7, PastSkips DEF e
  <2>9. QED
    BY <2>1, <2>2, <2>6, <2>8 DEF q, f
<1> HIDE DEF new
<1>7. reported' \in [Node -> SUBSET Nat]
  <2>1. reported' = [n \in Node |-> reported'[n]]
    BY <1>1
  <2>2. QED
    BY <1>6, <2>1
<1>8. TypeOK'
  BY <1>1, <1>2, <1>5, <1>7 DEF TypeOK, Good
<1>9. QED
  BY <1>1, <1>5, <1>6, <1>8 DEF IInv

\* A source reconnects.
LEMMA ResetStep ==
  ASSUME IInv, NEW src \in Node, ResetPeer(src)
  PROVE  IInv'
<1> DEFINE p == reset_peer(buffer, src)
           new == [session EXCEPT ![src] = @ + 1]
<1>1. /\ session' = new /\ buffer' = p
      /\ delivered' = [delivered EXCEPT ![src] = <<>>]
      /\ reported' = [reported EXCEPT ![src] = {}]
      /\ releasing' = IF releasing = src THEN NODE_ID_INVALID ELSE releasing
      /\ clock' = clock
  BY DEF ResetPeer
<1>2. /\ TypeOK /\ Good(buffer, session) /\ session \in [Node -> Nat]
      /\ \A n \in Node : Past(Expected(buffer, n), delivered[n], reported[n])
  BY DEF IInv, TypeOK
<1>3. /\ Good(p, new) /\ Expected(p, src) = 1
      /\ \A m : m # src => Expected(p, m) = Expected(buffer, m)
  BY <1>2, ResetGood
<1> HIDE DEF p
<1>4. TypeOK'
  <2>1. new \in [Node -> Nat]
    BY <1>2
  <2> HIDE DEF new
  <2>2. p \in Buffer
    BY <1>3 DEF Good
  <2>3. <<>> \in Seq(Nat)
    BY EmptySeq
  <2>4. QED
    BY <1>1, <1>2, <2>1, <2>2, <2>3 DEF TypeOK
<1>5. ASSUME NEW n \in Node
      PROVE  Past(Expected(p, n), delivered'[n], reported'[n])
  <2>1. CASE n = src
    <3>1. delivered'[n] = <<>> /\ Expected(p, n) = 1
      BY <1>1, <1>2, <1>3, <2>1 DEF TypeOK
    <3>2. QED
      BY <3>1, PastEmpty
  <2>2. CASE n # src
    <3>1. delivered'[n] = delivered[n] /\ reported'[n] = reported[n]
      BY <1>1, <1>2, <2>2 DEF TypeOK
    <3>2. Expected(p, n) = Expected(buffer, n)
      BY <1>3, <2>2
    <3>3. QED
      BY <1>2, <3>1, <3>2
  <2>3. QED
    BY <2>1, <2>2
<1>6. QED
  BY <1>1, <1>3, <1>4, <1>5 DEF IInv

\* Every step preserves the invariant.
LEMMA StepInvariant == IInv /\ [Next]_vars => IInv'
<1> SUFFICES ASSUME IInv, [Next]_vars PROVE IInv'
  OBVIOUS
<1>1. ASSUME NEW m \in Message, Ingest(m) PROVE IInv'
  BY <1>1, IngestStep
<1>2. CASE TryReleaseNext
  BY <1>2, ReleaseStep
<1>3. CASE SweepExpiredHolds
  BY <1>3, SweepStepInv
<1>4. ASSUME NEW src \in Node, ResetPeer(src) PROVE IInv'
  BY <1>4, ResetStep
<1>5. CASE Tick
  BY <1>5 DEF Tick, IInv, TypeOK
<1>6. CASE UNCHANGED vars
  BY <1>6 DEF vars, IInv, TypeOK
<1>7. QED
  BY <1>1, <1>2, <1>3, <1>4, <1>5, <1>6 DEF Next

(***************************************************************************)
(* The invariant holds in every reachable state of the ordering buffer,    *)
(* whatever the network repeats, reorders or loses, and however sweeps,    *)
(* resets and evictions interleave with the draining of held messages.     *)
(***************************************************************************)
THEOREM Invariance == Spec => []IInv
BY InitInvariant, StepInvariant, PTL DEF Spec

(***************************************************************************)
(* A held message can be released: evict_lru_peer() always finds a peer    *)
(* without held messages (there are more peers than holds), so no eviction *)
(* strands a message, and a source never has two gates.                    *)
(***************************************************************************)
THEOREM NoStrandedHolds == Spec => []HoldsHavePeer
<1>1. IInv => HoldsHavePeer
  BY DEF IInv, Good, OneSlot, HoldsHavePeer
<1>2. QED
  BY <1>1, Invariance, PTL

(***************************************************************************)
(* The share of a source in the hold pool is bounded, and a retransmitted  *)
(* message never takes a second slot.                                      *)
(***************************************************************************)
THEOREM ShareIsFair == Spec => []FairShare
<1>1. IInv => FairShare
  BY DEF IInv, Good, HeldOnce, FairShare
<1>2. QED
  BY <1>1, Invariance, PTL

(***************************************************************************)
(* reset_peer() leaves nothing of the old session behind: every held       *)
(* message is of its source's current session.                             *)
(***************************************************************************)
THEOREM NothingOfAnOldSession == Spec => []HeldAreCurrent
<1>1. IInv => HeldAreCurrent
  BY DEF IInv, Good, HeldAreCurrent
<1>2. QED
  BY <1>1, Invariance, PTL

(***************************************************************************)
(* Within an epoch of a source the sequence numbers handed to the caller   *)
(* strictly increase: ingest() and try_release_next() together deliver in  *)
(* order and nothing twice.                                                *)
(***************************************************************************)
THEOREM DeliveredInOrder == Spec => []InOrder
<1>1. IInv => InOrder
  BY DEF IInv, Past, InOrder
<1>2. QED
  BY <1>1, Invariance, PTL

(***************************************************************************)
(* The gate of a source passes a number only when the message was handed   *)
(* out, or when sweep_expired_holds() reported an expired message with     *)
(* that or a higher number.                                                *)
(***************************************************************************)
THEOREM NoSilentGap == Spec => []GapsOnlyAfterExpiry
<1>1. IInv => GapsOnlyAfterExpiry
  BY DEF IInv, Past, GapsOnlyAfterExpiry
<1>2. QED
  BY <1>1, Invariance, PTL
===============================================================================
