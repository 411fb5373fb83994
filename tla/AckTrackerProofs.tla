-------------------------- MODULE AckTrackerProofs --------------------------
(***************************************************************************)
(* Proofs about AckTrackerSpec, for every capacity, timeout, set of nodes  *)
(* and set of messages.                                                    *)
(***************************************************************************)
EXTENDS AckTrackerSpec, FiniteSetTheorems,
        WellFoundedInduction, TLAPS

\* A non-empty set of naturals has a least element: the order of the naturals is
\* well-founded.
LEMMA MinIsLeast ==
  ASSUME NEW S, S \subseteq Nat, S # {}
  PROVE  Min(S) \in S /\ \A y \in S : Min(S) <= y
<1> DEFINE R == OpToRel(<, Nat)
<1>1. IsWellFoundedOn(R, Nat)
  BY NatLessThanWellFounded, Zenon
<1>2. \A x, y \in Nat : y < x => <<y, x>> \in R
  BY DEF OpToRel
<1> HIDE DEF R
<1>3. PICK x \in S : \A y \in S : ~ (<<y, x>> \in R)
  BY <1>1, WFMin
<1>4. ASSUME NEW y \in S PROVE x <= y
  <2>1. x \in Nat /\ y \in Nat /\ ~ (<<y, x>> \in R)
    BY <1>3
  <2>2. ~ (y < x)
    BY <1>2, <2>1, Zenon
  <2>3. QED
    BY <2>1, <2>2
<1>5. QED
  BY <1>4 DEF Min

\* Releasing some used slots lowers their number by as many.
LEMMA CardinalityWithout ==
  ASSUME NEW A, IsFiniteSet(A), NEW S \in SUBSET A
  PROVE  /\ IsFiniteSet(S) /\ Cardinality(S) \in Nat /\ Cardinality(A) \in Nat
         /\ Cardinality(S) <= Cardinality(A)
         /\ Cardinality(A \ S) = Cardinality(A) - Cardinality(S)
<1>1. IsFiniteSet(S) /\ Cardinality(S) <= Cardinality(A)
  BY FS_Subset
<1>2. Cardinality(S) \in Nat /\ Cardinality(A) \in Nat
  BY <1>1, FS_CardinalityType
<1>3. Cardinality(A \ S) = Cardinality(A) - Cardinality(A \cap S)
  BY FS_Difference
<1>4. A \cap S = S
  OBVIOUS
<1>5. QED
  BY <1>1, <1>2, <1>3, <1>4

Used(t) == AckIndex \ InState(t, "FREE")

\* The index sets that the methods loop over are finite sets of numbers, and
\* their cardinalities are numbers up to the capacity.
LEMMA IndexFacts ==
  /\ AckIndex \subseteq Nat
  /\ IsFiniteSet(AckIndex)
  /\ \A S \in SUBSET AckIndex :
       /\ IsFiniteSet(S)
       /\ Cardinality(S) \in Nat
       /\ Cardinality(S) \in 0 .. ACK_TRACKER_CAPACITY
<1>1. ACK_TRACKER_CAPACITY \in Nat /\ AckIndex \subseteq Nat
  BY AckCapacityAssumption DEF AckIndex
<1>2. IsFiniteSet(AckIndex) /\ Cardinality(AckIndex) = ACK_TRACKER_CAPACITY
  BY <1>1, FS_Interval, AckCapacityAssumption DEF AckIndex
<1>3. ASSUME NEW S \in SUBSET AckIndex
      PROVE  /\ IsFiniteSet(S)
             /\ Cardinality(S) \in Nat
             /\ Cardinality(S) <= ACK_TRACKER_CAPACITY
  BY <1>2, FS_Subset, FS_CardinalityType
<1>4. QED
  BY <1>1, <1>2, <1>3

\* A slot is free, waits for its ACK, or has got it.
LEMMA SlotFacts ==
  ASSUME NEW t \in Tracker, NEW i \in AckIndex
  PROVE  /\ t.m_slots[i] \in AckSlot
         /\ t.m_slots[i].state \in {"FREE", "PENDING", "ACKED"}
         /\ t.m_slots[i].state # "FREE" =>
              t.m_slots[i] \in [state : {"PENDING", "ACKED"}, env : Envelope,
                                deadline_us : Nat]
BY DEF Tracker, AckSlot, FreeSlot

\* Releasing used slots keeps m_count exact: no decrement saturates.
LEMMA ReleaseExact ==
  ASSUME NEW t \in Tracker, t.m_count = Cardinality(Used(t)),
         NEW S \in SUBSET Used(t)
  PROVE  /\ Release(t, S) \in Tracker
         /\ Release(t, S).m_count = Cardinality(Used(Release(t, S)))
         /\ \A i \in AckIndex : Release(t, S).m_slots[i] =
                                  IF i \in S THEN FreeSlot ELSE t.m_slots[i]
         /\ Release(t, S).m_last_sweep_us = t.m_last_sweep_us
         /\ Release(t, S).timeouts = t.timeouts
<1> DEFINE r == Release(t, S)
<1>1. /\ r.m_slots = [i \in AckIndex |-> IF i \in S THEN FreeSlot ELSE t.m_slots[i]]
      /\ r.m_count = CountWithout(t, S)
      /\ r.m_last_sweep_us = t.m_last_sweep_us
      /\ r.acks_received = t.acks_received
      /\ r.timeouts = t.timeouts
  BY DEF Release, Tracker
<1>2. IsFiniteSet(Used(t))
  BY IndexFacts, FS_Subset DEF Used
<1>3. /\ Cardinality(S) \in Nat /\ Cardinality(Used(t)) \in Nat
      /\ Cardinality(S) <= Cardinality(Used(t))
      /\ Cardinality(Used(t) \ S) = Cardinality(Used(t)) - Cardinality(S)
  BY <1>2, CardinalityWithout
<1>4. Used(r) = Used(t) \ S
  BY <1>1 DEF Used, InState, FreeSlot
<1>5. r.m_count = Cardinality(Used(r)) /\ r.m_count \in 0 .. ACK_TRACKER_CAPACITY
  <2>1. r.m_count = Cardinality(Used(r))
    BY <1>1, <1>3, <1>4 DEF CountWithout
  <2>2. QED
    BY <2>1, IndexFacts DEF Used
<1>6. r.m_slots \in [AckIndex -> AckSlot]
  BY <1>1, SlotFacts DEF AckSlot
<1>7. r \in Tracker
  BY <1>1, <1>5, <1>6 DEF Tracker, Release
<1>8. QED
  BY <1>1, <1>5, <1>7
-----------------------------------------------------------------------------
(***************************************************************************)
(* The inductive invariant, as a predicate of a tracker and the time: the  *)
(* count is exact, used slots hold messages that were tracked, and what is *)
(* PENDING outlives the last sweep, which lies in the past.                *)
(***************************************************************************)
Good(t, now) == /\ t \in Tracker
                /\ t.m_count = Cardinality(Used(t))
                /\ \A i \in Used(t) : t.m_slots[i].env \in Message
                /\ \A i \in InState(t, "PENDING") :
                     t.m_slots[i].deadline_us > t.m_last_sweep_us
                /\ t.m_last_sweep_us <= now

IInv == /\ TypeOK
        /\ Good(tracker, clock)

\* track() takes the first free slot and counts it, or leaves all as it is.
LEMMA TrackGood ==
  ASSUME NEW t, NEW now \in Nat, Good(t, now), NEW m \in Message
  PROVE  LET u == track(t, m, timestamp_deadline_us(now, Timeout)).tracker
         IN  Good(u, now) /\ u.m_last_sweep_us = t.m_last_sweep_us
<1> DEFINE d == timestamp_deadline_us(now, Timeout)
           u == track(t, m, d).tracker
           i == Min(InState(t, "FREE"))
           slot == [state |-> "PENDING", env |-> m, deadline_us |-> d]
<1>1. CASE InState(t, "FREE") = {}
  BY <1>1 DEF track, Good
<1>2. CASE InState(t, "FREE") # {}
  <2>1. i \in InState(t, "FREE") /\ i \in AckIndex
    BY <1>2, IndexFacts, MinIsLeast DEF InState
  <2>2. t \in Tracker /\ t.m_last_sweep_us \in Nat /\ t.m_count \in Nat
    BY DEF Good, Tracker
  <2>3. d \in Nat /\ d > t.m_last_sweep_us
    BY <2>2, AckSpecAssumption DEF Good, timestamp_deadline_us
  <2>4. slot \in AckSlot
    BY <2>3, AckSpecAssumption DEF AckSlot
  <2>5. u = [t EXCEPT !.m_slots = [@ EXCEPT ![i] = slot], !.m_count = @ + 1]
    BY <1>2 DEF track
  <2>6. /\ u.m_slots = [t.m_slots EXCEPT ![i] = slot]
        /\ u.m_count = t.m_count + 1
        /\ u.m_last_sweep_us = t.m_last_sweep_us
        /\ u.acks_received = t.acks_received
        /\ u.timeouts = t.timeouts
    BY <2>2, <2>5 DEF Tracker
  <2>7. /\ t.m_slots \in [AckIndex -> AckSlot]
        /\ u.m_slots \in [AckIndex -> AckSlot]
        /\ u.m_slots[i] = slot
        /\ \A j \in AckIndex \ {i} : u.m_slots[j] = t.m_slots[j]
    BY <2>1, <2>2, <2>4, <2>6 DEF Tracker
  <2>8. Used(u) = Used(t) \union {i} /\ i \notin Used(t)
    <3>1. u.m_slots[i].state # "FREE"
      BY <2>7
    <3> HIDE DEF u, i, slot
    <3>2. i \notin Used(t)
      BY <2>1 DEF Used
    <3>3. \A j \in AckIndex \ {i} :
            u.m_slots[j].state = "FREE" <=> t.m_slots[j].state = "FREE"
      BY <2>7
    <3>4. QED
      BY <2>1, <3>1, <3>2, <3>3 DEF Used, InState
  <2>9. u.m_count = Cardinality(Used(u))
    <3>1. IsFiniteSet(Used(t))
      BY IndexFacts, FS_Subset DEF Used
    <3>2. Cardinality(Used(t) \union {i}) = Cardinality(Used(t)) + 1
      BY <2>8, <3>1, FS_AddElement
    <3>3. QED
      BY <2>6, <2>8, <3>2 DEF Good
  <2>10. u \in Tracker
    <3>1. u = [t EXCEPT !.m_slots = u.m_slots, !.m_count = u.m_count]
      BY <2>2, <2>5, <2>6
    <3> HIDE DEF u
    <3>2. u.m_count \in 0 .. ACK_TRACKER_CAPACITY
      BY <2>9, IndexFacts DEF Used
    <3>3. [t EXCEPT !.m_slots = u.m_slots, !.m_count = u.m_count] \in Tracker
      BY <2>2, <2>7, <3>2 DEF Tracker
    <3>4. QED
      BY <3>1, <3>3
  <2>11. \A j \in Used(u) : u.m_slots[j].env \in Message
    BY <2>7, <2>8 DEF Good, Used
  <2>12. \A j \in InState(u, "PENDING") : u.m_slots[j].deadline_us > u.m_last_sweep_us
    BY <2>3, <2>6, <2>7 DEF Good, InState
  <2>13. QED
    BY <2>6, <2>9, <2>10, <2>11, <2>12 DEF Good
<1>3. QED
  BY <1>1, <1>2

\* Whatever a lookup finds is a used, PENDING slot.
LEMMA LookupFacts ==
  ASSUME NEW t, NEW src, NEW id, NEW dst
  PROVE  /\ PendingFor(t, src, id) \subseteq InState(t, "PENDING")
         /\ PendingTo(t, dst) \subseteq InState(t, "PENDING")
         /\ InState(t, "PENDING") \subseteq Used(t)
         /\ InState(t, "ACKED") \subseteq Used(t)
         /\ PendingFor(t, src, id) # {} =>
              Min(PendingFor(t, src, id)) \in InState(t, "PENDING")
<1>1. /\ PendingFor(t, src, id) \subseteq InState(t, "PENDING")
      /\ PendingTo(t, dst) \subseteq InState(t, "PENDING")
      /\ InState(t, "PENDING") \subseteq Used(t)
      /\ InState(t, "ACKED") \subseteq Used(t)
      /\ InState(t, "PENDING") \subseteq AckIndex
  BY DEF PendingFor, PendingTo, InState, Used
<1>2. PendingFor(t, src, id) # {} =>
        Min(PendingFor(t, src, id)) \in PendingFor(t, src, id)
  BY <1>1, IndexFacts, MinIsLeast
<1>3. QED
  BY <1>1, <1>2

\* on_ack() turns one PENDING slot into an ACKED one: the count stays exact.
LEMMA OnAckGood ==
  ASSUME NEW t, NEW now \in Nat, Good(t, now), NEW src, NEW id
  PROVE  LET u == on_ack(t, src, id).tracker
         IN  Good(u, now) /\ u.m_last_sweep_us = t.m_last_sweep_us
<1> DEFINE u == on_ack(t, src, id).tracker
           i == Min(PendingFor(t, src, id))
           slot == [t.m_slots[i] EXCEPT !.state = "ACKED"]
<1>1. CASE PendingFor(t, src, id) = {}
  BY <1>1 DEF on_ack, Good
<1>2. CASE PendingFor(t, src, id) # {}
  <2>1. i \in InState(t, "PENDING") /\ i \in AckIndex /\ i \in Used(t)
    BY <1>2, LookupFacts DEF InState
  <2>2. t \in Tracker
    BY DEF Good
  <2>3. /\ t.m_slots[i] \in [state : {"PENDING", "ACKED"}, env : Envelope,
                             deadline_us : Nat]
    BY <2>1, <2>2, SlotFacts DEF InState
  <2>4. slot \in AckSlot /\ slot.state = "ACKED" /\ slot.env = t.m_slots[i].env
    BY <2>3 DEF AckSlot
  <2>5. u = [t EXCEPT !.m_slots = [@ EXCEPT ![i] = slot], !.acks_received = @ + 1]
    BY <1>2 DEF on_ack
  <2>6. /\ u.m_slots = [t.m_slots EXCEPT ![i] = slot]
        /\ u.m_count = t.m_count
        /\ u.m_last_sweep_us = t.m_last_sweep_us
        /\ u.acks_received = t.acks_received + 1
        /\ u.timeouts = t.timeouts
    BY <2>2, <2>5 DEF Tracker
  <2>7. /\ t.m_slots \in [AckIndex -> AckSlot]
        /\ u.m_slots \in [AckIndex -> AckSlot]
        /\ u.m_slots[i] = slot
        /\ \A j \in AckIndex \ {i} : u.m_slots[j] = t.m_slots[j]
    BY <2>1, <2>2, <2>4, <2>6 DEF Tracker
  <2>8. u \in Tracker
    <3>1. u = [t EXCEPT !.m_slots = u.m_slots, !.acks_received = u.acks_received]
      BY <2>2, <2>5, <2>6
    <3>2. u.acks_received \in Nat
      BY <2>2, <2>6 DEF Tracker
    <3> HIDE DEF u
    <3>3. [t EXCEPT !.m_slots = u.m_slots, !.acks_received = u.acks_received] \in Tracker
      BY <2>2, <2>7, <3>2 DEF Tracker
    <3>4. QED
      BY <3>1, <3>3
  <2>9. Used(u) = Used(t)
    BY <2>1, <2>4, <2>7 DEF Used, InState
  <2>10. u.m_count = Cardinality(Used(u))
    BY <2>6, <2>9 DEF Good
  <2>11. \A j \in Used(u) : u.m_slots[j].env \in Message
    BY <2>1, <2>4, <2>7, <2>9 DEF Good, Used
  <2>12. \A j \in InState(u, "PENDING") : u.m_slots[j].deadline_us > u.m_last_sweep_us
    BY <2>4, <2>6, <2>7 DEF Good, InState
  <2>13. QED
    BY <2>6, <2>8, <2>10, <2>11, <2>12 DEF Good
<1>3. QED
  BY <1>1, <1>2

\* Both cancellations release used slots and touch nothing else.
LEMMA ReleaseGood ==
  ASSUME NEW t, NEW now \in Nat, Good(t, now), NEW S \in SUBSET Used(t)
  PROVE  LET u == Release(t, S)
         IN  Good(u, now) /\ u.m_last_sweep_us = t.m_last_sweep_us
<1> DEFINE u == Release(t, S)
<1>1. /\ u \in Tracker
      /\ u.m_count = Cardinality(Used(u))
      /\ \A i \in AckIndex : u.m_slots[i] = IF i \in S THEN FreeSlot ELSE t.m_slots[i]
      /\ u.m_last_sweep_us = t.m_last_sweep_us
  BY ReleaseExact DEF Good
<1> HIDE DEF u
<1>2. \A i \in Used(u) : i \in Used(t) /\ u.m_slots[i] = t.m_slots[i]
  BY <1>1 DEF Used, InState, FreeSlot
<1>3. \A i \in InState(u, "PENDING") :
         i \in InState(t, "PENDING") /\ u.m_slots[i] = t.m_slots[i]
  BY <1>1 DEF InState, FreeSlot
<1>4. Good(u, now)
  BY <1>1, <1>2, <1>3 DEF Good
<1>5. QED
  BY <1>1, <1>4 DEF u

\* A sweep releases what is ACKED or overdue, and its time never goes back.
LEMMA SweepGood ==
  ASSUME NEW t, NEW now \in Nat, Good(t, now), NEW at \in Nat, at <= now, NEW cap
  PROVE  LET u == sweep_expired(t, at, cap).tracker
         IN  Good(u, now) /\ u.m_last_sweep_us >= t.m_last_sweep_us
<1> DEFINE u == sweep_expired(t, at, cap).tracker
           w == SweepTime(t, at)
           overdue == Overdue(t, w)
           S == overdue \union InState(t, "ACKED")
           r == Release(t, S)
<1>1. t \in Tracker /\ t.m_last_sweep_us \in Nat /\ t.m_last_sweep_us <= now
  BY DEF Good, Tracker
<1>2. w \in Nat /\ w <= now /\ w >= t.m_last_sweep_us
  BY <1>1 DEF SweepTime
<1>3. overdue \subseteq AckIndex /\ overdue \subseteq InState(t, "PENDING")
  BY DEF Overdue, InState
<1>4. S \in SUBSET Used(t)
  BY <1>3, LookupFacts
<1>5. /\ r \in Tracker
      /\ r.m_count = Cardinality(Used(r))
      /\ \A i \in AckIndex : r.m_slots[i] = IF i \in S THEN FreeSlot ELSE t.m_slots[i]
  BY <1>4, ReleaseExact DEF Good
<1>6. u = [r EXCEPT !.m_last_sweep_us = w,
                    !.timeouts = r.timeouts + Cardinality(overdue)]
  BY DEF sweep_expired
<1>7. Cardinality(overdue) \in Nat
  BY <1>3, IndexFacts
<1> HIDE DEF r, w, overdue, u
<1>8. r.timeouts + Cardinality(overdue) \in Nat
  BY <1>5, <1>7 DEF Tracker
<1>9. u \in Tracker
  <2>1. [r EXCEPT !.m_last_sweep_us = w,
                  !.timeouts = r.timeouts + Cardinality(overdue)] \in Tracker
    BY <1>2, <1>5, <1>8 DEF Tracker
  <2>2. QED
    BY <1>6, <2>1
<1>10. /\ u.m_slots = r.m_slots
       /\ u.m_count = r.m_count
       /\ u.m_last_sweep_us = w
  BY <1>5, <1>6 DEF Tracker
<1>11. \A s : InState(u, s) = InState(r, s)
  BY <1>10 DEF InState
<1>12. u.m_count = Cardinality(Used(u))
  BY <1>5, <1>10, <1>11 DEF Used
<1>13. \A i \in Used(u) : i \in Used(t) /\ u.m_slots[i] = t.m_slots[i]
  BY <1>5, <1>10 DEF Used, InState, FreeSlot
<1>14. \A i \in InState(u, "PENDING") :
          i \in InState(t, "PENDING") /\ i \notin S /\ u.m_slots[i] = t.m_slots[i]
  BY <1>5, <1>10 DEF InState, FreeSlot
<1>15. \A i \in InState(u, "PENDING") : u.m_slots[i].deadline_us > w
  <2> SUFFICES ASSUME NEW i \in InState(u, "PENDING")
               PROVE  u.m_slots[i].deadline_us > w
    OBVIOUS
  <2>1. i \in InState(t, "PENDING") /\ i \in AckIndex /\ i \notin overdue
    BY <1>14 DEF InState
  <2>2. ~ (w >= t.m_slots[i].deadline_us)
    BY <2>1 DEF overdue, Overdue
  <2>3. t.m_slots[i].deadline_us \in Nat
    BY <1>1, <2>1, SlotFacts DEF InState
  <2>4. QED
    BY <1>2, <1>14, <2>2, <2>3
<1>16. Good(u, now)
  BY <1>2, <1>9, <1>10, <1>12, <1>13, <1>15 DEF Good
<1>17. QED
  BY <1>2, <1>10, <1>16 DEF u
-----------------------------------------------------------------------------
\* The table is sound after init().
LEMMA InitGood == Init => IInv
<1> SUFFICES ASSUME Init PROVE IInv
  OBVIOUS
<1>1. init \in Tracker
  BY AckCapacityAssumption DEF init, Tracker, AckSlot
<1>2. Used(init) = {} /\ InState(init, "PENDING") = {}
  BY DEF Used, InState, init, FreeSlot
<1>3. Cardinality(Used(init)) = 0
  BY <1>2, FS_EmptySet
<1>4. init.m_count = 0 /\ init.m_last_sweep_us = 0
  BY DEF init
<1>5. Good(init, 1)
  BY <1>1, <1>2, <1>3, <1>4 DEF Good
<1>6. QED
  BY <1>1, <1>5 DEF Init, IInv, TypeOK

\* What a history variable collects are messages of used slots.
LEMMA EnvsKnown ==
  ASSUME Good(tracker, clock), NEW S \in SUBSET Used(tracker)
  PROVE  EnvsOf(S) \subseteq Message
BY DEF Good, EnvsOf

\* Every step keeps the invariant, and no step moves the last sweep back.
LEMMA StepGood ==
  ASSUME IInv, [Next]_vars
  PROVE  IInv' /\ tracker'.m_last_sweep_us >= tracker.m_last_sweep_us
<1> DEFINE Kept == tracker'.m_last_sweep_us >= tracker.m_last_sweep_us
<1>1. Good(tracker, clock) /\ TypeOK /\ clock \in Nat /\ tracker.m_last_sweep_us \in Nat
  BY DEF IInv, Good, TypeOK, Tracker
<1>2. \A t, now : Good(t, now) => t \in Tracker
  BY DEF Good
<1>3. CASE UNCHANGED vars
  BY <1>1, <1>3 DEF vars, IInv, TypeOK, Good, Used, InState
<1>4. ASSUME NEW m \in Message, Track(m) PROVE IInv' /\ Kept
  <2>1. /\ tracker' = track(tracker, m, timestamp_deadline_us(clock, Timeout)).tracker
        /\ clock' = clock
        /\ tracked' \in SUBSET Message
        /\ UNCHANGED <<acked, cancelled, expired>>
    BY <1>1, <1>4 DEF Track, TypeOK
  <2>2. Good(tracker', clock') /\ tracker'.m_last_sweep_us = tracker.m_last_sweep_us
    BY <1>1, <2>1, TrackGood
  <2>3. QED
    BY <1>1, <1>2, <2>1, <2>2 DEF IInv, TypeOK
<1>5. ASSUME NEW src \in Node, NEW id \in MessageId, OnAck(src, id) PROVE IInv' /\ Kept
  <2>1. EnvsOf(PendingFor(tracker, src, id)) \subseteq Message
    BY <1>1, LookupFacts, EnvsKnown
  <2>2. /\ tracker' = on_ack(tracker, src, id).tracker
        /\ clock' = clock
        /\ acked' \in SUBSET Message
        /\ UNCHANGED <<tracked, cancelled, expired>>
    BY <1>1, <1>5, <2>1 DEF OnAck, TypeOK
  <2>3. Good(tracker', clock') /\ tracker'.m_last_sweep_us = tracker.m_last_sweep_us
    BY <1>1, <2>2, OnAckGood
  <2>4. QED
    BY <1>1, <1>2, <2>2, <2>3 DEF IInv, TypeOK
<1>6. ASSUME NEW src \in Node, NEW id \in MessageId, Cancel(src, id) PROVE IInv' /\ Kept
  <2>1. EnvsOf(PendingFor(tracker, src, id)) \subseteq Message
    BY <1>1, LookupFacts, EnvsKnown
  <2>2. /\ tracker' = cancel(tracker, src, id).tracker
        /\ clock' = clock
        /\ cancelled' \in SUBSET Message
        /\ UNCHANGED <<tracked, acked, expired>>
    BY <1>1, <1>6, <2>1 DEF Cancel, TypeOK
  <2>3. Good(tracker', clock') /\ tracker'.m_last_sweep_us = tracker.m_last_sweep_us
    <3>1. CASE PendingFor(tracker, src, id) = {}
      BY <1>1, <2>2, <3>1 DEF cancel
    <3>2. CASE PendingFor(tracker, src, id) # {}
      <4> DEFINE S == {Min(PendingFor(tracker, src, id))}
      <4>1. S \in SUBSET Used(tracker)
        BY <3>2, LookupFacts
      <4>2. tracker' = Release(tracker, S)
        BY <2>2, <3>2 DEF cancel
      <4> HIDE DEF S
      <4>3. QED
        BY <1>1, <2>2, <4>1, <4>2, ReleaseGood
    <3>3. QED
      BY <3>1, <3>2
  <2>4. QED
    BY <1>1, <1>2, <2>2, <2>3 DEF IInv, TypeOK
<1>7. ASSUME NEW dst \in Node, CancelPeer(dst) PROVE IInv' /\ Kept
  <2>1. PendingTo(tracker, dst) \in SUBSET Used(tracker)
    BY LookupFacts
  <2>2. /\ tracker' = Release(tracker, PendingTo(tracker, dst))
        /\ clock' = clock
        /\ cancelled' \in SUBSET Message
        /\ UNCHANGED <<tracked, acked, expired>>
    BY <1>1, <1>7, <2>1, EnvsKnown DEF CancelPeer, cancel_peer, TypeOK
  <2>3. Good(tracker', clock') /\ tracker'.m_last_sweep_us = tracker.m_last_sweep_us
    BY <1>1, <2>1, <2>2, ReleaseGood
  <2>4. QED
    BY <1>1, <1>2, <2>2, <2>3 DEF IInv, TypeOK
<1>8. ASSUME NEW now \in 1 .. clock, SweepExpired(now) PROVE IInv' /\ Kept
  <2> DEFINE r == sweep_expired(tracker, now, ACK_TRACKER_CAPACITY)
             overdue == Overdue(tracker, SweepTime(tracker, now))
  <2>1. now \in Nat /\ now <= clock
    BY <1>1
  <2>2. r.expired \subseteq EnvsOf(overdue)
    BY DEF sweep_expired, FirstN, EnvsOf
  <2>3. overdue \in SUBSET Used(tracker)
    BY LookupFacts DEF Overdue
  <2>4. EnvsOf(overdue) \subseteq Message
    BY <1>1, <2>3, EnvsKnown
  <2>5. /\ tracker' = r.tracker
        /\ clock' = clock
        /\ expired' = expired \union r.expired
        /\ UNCHANGED <<tracked, acked, cancelled>>
    BY <1>8 DEF SweepExpired
  <2>6. Good(tracker', clock') /\ Kept
    BY <1>1, <2>1, <2>5, SweepGood
  <2> HIDE DEF r
  <2>7. QED
    BY <1>1, <1>2, <2>2, <2>4, <2>5, <2>6 DEF IInv, TypeOK
<1>9. CASE Tick
  <2>1. /\ tracker' = tracker /\ clock' = clock + 1
        /\ UNCHANGED <<tracked, acked, cancelled, expired>>
    BY <1>9 DEF Tick
  <2>2. Good(tracker', clock')
    BY <1>1, <2>1 DEF Good
  <2>3. QED
    BY <1>1, <2>1, <2>2 DEF IInv, TypeOK
<1>10. QED
  BY <1>3, <1>4, <1>5, <1>6, <1>7, <1>8, <1>9 DEF Next
-----------------------------------------------------------------------------
\* The inductive invariant holds always: the table is well formed, the count
\* exact and every PENDING deadline later than the last sweep.
THEOREM Invariance == Spec => []IInv
<1>1. IInv /\ [Next]_vars => IInv'
  BY StepGood
<1>2. QED
  BY <1>1, InitGood, PTL DEF Spec

(***************************************************************************)
(* Every method of AckTracker leaves a well-formed table.                  *)
(***************************************************************************)
THEOREM TypeCorrect == Spec => []TypeOK
<1>1. IInv => TypeOK
  BY DEF IInv
<1>2. QED
  BY <1>1, Invariance, PTL

(***************************************************************************)
(* m_count is the number of slots in use after any sequence of track(),    *)
(* on_ack(), cancel(), cancel_peer() and sweep_expired() calls, for every  *)
(* capacity.                                                               *)
(***************************************************************************)
THEOREM CountCorrect == Spec => []CountIsOccupancy
<1>1. IInv => CountIsOccupancy
  BY DEF IInv, Good, CountIsOccupancy, Used
<1>2. QED
  BY <1>1, Invariance, PTL

(***************************************************************************)
(* The clamp in sweep_expired() works: however stale the timestamps of the *)
(* callers are, no timeout is postponed.                                   *)
(***************************************************************************)
THEOREM NoPostponement == Spec => NoTimeoutPostponed
<1> DEFINE A == /\ tracker'.m_last_sweep_us >= tracker.m_last_sweep_us
                /\ \A i \in InState(tracker', "PENDING") :
                     tracker'.m_slots[i].deadline_us > tracker'.m_last_sweep_us
<1>1. IInv /\ [Next]_vars => [A]_vars
  <2> SUFFICES ASSUME IInv, [Next]_vars PROVE A
    OBVIOUS
  <2>1. IInv' /\ tracker'.m_last_sweep_us >= tracker.m_last_sweep_us
    BY StepGood
  <2>2. QED
    BY <2>1 DEF IInv, Good
<1>2. Spec => [][A]_vars
  BY <1>1, Invariance, PTL DEF Spec
<1>3. QED
  BY <1>2 DEF NoTimeoutPostponed

-----------------------------------------------------------------------------
(***************************************************************************)
(* The invariant behind ExactlyOneOutcome: no two PENDING slots hold the   *)
(* same message (or a lookup would resolve one and leave the other), and   *)
(* the histories are finite, so that the counters can be their sizes.      *)
(***************************************************************************)
OnePending(t) ==
  \A i, j \in InState(t, "PENDING") :
    t.m_slots[i].env.message_id = t.m_slots[j].env.message_id => i = j

Outcomes == /\ OnePending(tracker)
            /\ IsFiniteSet(acked)
            /\ IsFiniteSet(expired)
            /\ ExactlyOneOutcome

\* u is t after the PENDING slots S have been acknowledged or released.
Resolved(u, t, S) ==
  /\ S \subseteq InState(t, "PENDING")
  /\ InState(u, "PENDING") = InState(t, "PENDING") \ S
  /\ \A i \in InState(u, "PENDING") : u.m_slots[i].env = t.m_slots[i].env

\* The result a of on_ack() on t: the slots S are resolved and counted.
Acknowledged(a, t, S) ==
  /\ Resolved(a.tracker, t, S)
  /\ a.res = "OK" <=> S # {}
  /\ a.tracker.acks_received = t.acks_received + Cardinality(S)
  /\ a.tracker.timeouts = t.timeouts

\* The first slot a lookup finds is the only one.
LEMMA LookupUnique ==
  ASSUME NEW t, OnePending(t), NEW src, NEW id, PendingFor(t, src, id) # {}
  PROVE  PendingFor(t, src, id) = {Min(PendingFor(t, src, id))}
<1>1. PendingFor(t, src, id) \subseteq Nat
  BY IndexFacts DEF PendingFor, InState
<1>2. Min(PendingFor(t, src, id)) \in PendingFor(t, src, id)
  BY <1>1, MinIsLeast
<1>3. QED
  BY <1>2 DEF OnePending, PendingFor

\* cancel(), cancel_peer() and on_ack() resolve what they look for; only
\* on_ack() counts it.
LEMMA ResolvingCalls ==
  ASSUME NEW t \in Tracker, t.m_count = Cardinality(Used(t)), OnePending(t),
         NEW src, NEW id, NEW dst
  PROVE  LET S == PendingFor(t, src, id)
             c == cancel(t, src, id)
             p == cancel_peer(t, dst).tracker
             a == on_ack(t, src, id)
         IN  /\ Resolved(c.tracker, t, S)
             /\ c.res = "OK" <=> S # {}
             /\ c.tracker.acks_received = t.acks_received
             /\ c.tracker.timeouts = t.timeouts
             /\ Resolved(p, t, PendingTo(t, dst))
             /\ p.acks_received = t.acks_received
             /\ p.timeouts = t.timeouts
             /\ Acknowledged(a, t, S)
<1> DEFINE S == PendingFor(t, src, id)
           i == Min(S)
           c == cancel(t, src, id)
           p == cancel_peer(t, dst).tracker
           a == on_ack(t, src, id)
<1>1. /\ S \subseteq InState(t, "PENDING")
      /\ PendingTo(t, dst) \subseteq InState(t, "PENDING")
      /\ InState(t, "PENDING") \in SUBSET Used(t)
      /\ InState(t, "PENDING") \subseteq AckIndex
  BY LookupFacts DEF InState
<1>2. ASSUME NEW R \in SUBSET InState(t, "PENDING")
      PROVE  /\ Resolved(Release(t, R), t, R)
             /\ Release(t, R).acks_received = t.acks_received
             /\ Release(t, R).timeouts = t.timeouts
  <2>1. /\ \A j \in AckIndex : Release(t, R).m_slots[j] =
                                 IF j \in R THEN FreeSlot ELSE t.m_slots[j]
        /\ Release(t, R).timeouts = t.timeouts
    BY <1>1, ReleaseExact
  <2>2. Release(t, R).acks_received = t.acks_received
    BY DEF Release, Tracker
  <2>3. QED
    BY <1>1, <2>1, <2>2 DEF Resolved, InState, FreeSlot
<1>3. p = Release(t, PendingTo(t, dst))
  BY DEF cancel_peer
<1>4. CASE S = {}
  <2>1. c.tracker = t /\ a.tracker = t /\ c.res # "OK" /\ a.res # "OK"
    BY <1>4 DEF cancel, on_ack
  <2>2. Resolved(t, t, S)
    BY <1>4 DEF Resolved
  <2>3. Cardinality(S) = 0 /\ t.acks_received \in Nat
    BY <1>4, FS_EmptySet DEF Tracker
  <2> HIDE DEF S, p, c, a, Acknowledged
  <2>4. QED
    BY <1>1, <1>2, <1>3, <1>4, <2>1, <2>2, <2>3 DEF S, p, c, a, Acknowledged
<1>5. CASE S # {}
  <2>1. S = {i}
    BY <1>5, LookupUnique
  <2>2. c.tracker = Release(t, S) /\ c.res = "OK"
    BY <1>5, <2>1 DEF cancel
  <2>3. /\ a.tracker = [t EXCEPT !.m_slots[i].state = "ACKED", !.acks_received = @ + 1]
        /\ a.res = "OK"
    BY <1>5 DEF on_ack
  <2>4. i \in InState(t, "PENDING") /\ i \in AckIndex
    BY <1>1, <2>1
  <2> HIDE DEF S, i
  <2>5. /\ a.tracker.m_slots = [t.m_slots EXCEPT ![i].state = "ACKED"]
        /\ a.tracker.acks_received = t.acks_received + 1
        /\ a.tracker.timeouts = t.timeouts
    BY <2>3 DEF Tracker
  <2>6. /\ \A j \in AckIndex \ {i} : a.tracker.m_slots[j] = t.m_slots[j]
        /\ a.tracker.m_slots[i].state = "ACKED"
    <3>1. t.m_slots \in [AckIndex -> AckSlot] /\ t.m_slots[i].state = "PENDING"
      BY <2>4 DEF Tracker, InState
    <3>2. t.m_slots[i] \in [state : {"PENDING", "ACKED"}, env : Envelope, deadline_us : Nat]
      BY <2>4, <3>1, SlotFacts
    <3>3. QED
      BY <2>4, <2>5, <3>1, <3>2
  <2>7. Resolved(a.tracker, t, S)
    <3> HIDE DEF a
    <3>1. QED
      BY <1>1, <2>1, <2>4, <2>6 DEF Resolved, InState
  <2>8. Cardinality(S) = 1
    BY <2>1, FS_Singleton
  <2> HIDE DEF p, c, a
  <2>9. QED
    BY <1>1, <1>2, <1>3, <1>5, <2>2, <2>3, <2>5, <2>7, <2>8 DEF S, p, c, a, Acknowledged
<1>6. QED
  BY <1>4, <1>5


(***************************************************************************)
(* A buffer for ACK_TRACKER_CAPACITY messages holds all that is overdue:   *)
(* fewer slots than that come before any given one.                        *)
(***************************************************************************)
LEMMA BufferSuffices ==
  ASSUME NEW S \in SUBSET AckIndex
  PROVE  FirstN(S, ACK_TRACKER_CAPACITY) = S
<1> SUFFICES ASSUME NEW i \in S
             PROVE  Cardinality({j \in S : j < i}) < ACK_TRACKER_CAPACITY
  BY DEF FirstN
<1> DEFINE B == {j \in S : j < i}
<1>1. i \in Nat /\ i \notin B /\ B \in SUBSET AckIndex
  <2>1. i \in AckIndex /\ B \in SUBSET AckIndex
    OBVIOUS
  <2>2. i \in Nat
    BY <2>1, IndexFacts
  <2>3. i \notin B
    BY <2>2
  <2>4. QED
    BY <2>1, <2>2, <2>3
<1> HIDE DEF B
<1>2. /\ IsFiniteSet(B) /\ Cardinality(B) \in Nat
      /\ B \union {i} \in SUBSET AckIndex
  BY <1>1, IndexFacts
<1>3. Cardinality(B \union {i}) = Cardinality(B) + 1
  BY <1>1, <1>2, FS_AddElement
<1>4. Cardinality(B \union {i}) <= ACK_TRACKER_CAPACITY
  BY <1>2, IndexFacts
<1>5. QED
  BY <1>2, <1>3, <1>4, AckCapacityAssumption DEF B

\* sweep_expired() reports and counts exactly the PENDING slots it releases.
LEMMA SweepResolves ==
  ASSUME NEW t \in Tracker, t.m_count = Cardinality(Used(t)), NEW at \in Nat
  PROVE  LET S == Overdue(t, SweepTime(t, at))
             r == sweep_expired(t, at, ACK_TRACKER_CAPACITY)
         IN  /\ Resolved(r.tracker, t, S)
             /\ r.expired = {t.m_slots[i].env : i \in S}
             /\ r.tracker.acks_received = t.acks_received
             /\ r.tracker.timeouts = t.timeouts + Cardinality(S)
<1> DEFINE w == SweepTime(t, at)
           S == Overdue(t, w)
           R == S \union InState(t, "ACKED")
           q == Release(t, R)
           r == sweep_expired(t, at, ACK_TRACKER_CAPACITY)
           u == r.tracker
<1>1. /\ S \subseteq InState(t, "PENDING") /\ S \in SUBSET AckIndex
      /\ R \in SUBSET Used(t)
  BY LookupFacts DEF Overdue, InState
<1>2. FirstN(S, ACK_TRACKER_CAPACITY) = S
  BY <1>1, BufferSuffices
<1>3. r = [expired |-> {t.m_slots[i].env : i \in FirstN(S, ACK_TRACKER_CAPACITY)},
           tracker |-> [q EXCEPT !.m_last_sweep_us = w,
                                 !.timeouts = @ + Cardinality(S)]]
  BY DEF sweep_expired
<1>4. /\ \A j \in AckIndex : q.m_slots[j] = IF j \in R THEN FreeSlot ELSE t.m_slots[j]
      /\ q.timeouts = t.timeouts /\ q \in Tracker
  BY <1>1, ReleaseExact
<1>5. q.acks_received = t.acks_received
  BY DEF Release, Tracker
<1>6. r.expired = {t.m_slots[i].env : i \in S}
  BY <1>2, <1>3
<1>7. /\ u.m_slots = q.m_slots /\ u.acks_received = q.acks_received
      /\ u.timeouts = q.timeouts + Cardinality(S)
  <2> DEFINE n == q.timeouts + Cardinality(S)
  <2>1. u = [q EXCEPT !.m_last_sweep_us = w, !.timeouts = n]
    BY <1>3
  <2> HIDE DEF q, w, n, u
  <2>2. u.m_slots = q.m_slots /\ u.acks_received = q.acks_received /\ u.timeouts = n
    BY <1>4, <2>1 DEF Tracker
  <2>3. QED
    BY <2>2 DEF n
<1> HIDE DEF q, S
<1> HIDE DEF r
<1>8. Resolved(u, t, S)
  BY <1>1, <1>4, <1>7 DEF Resolved, InState, FreeSlot
<1>9. QED
  BY <1>4, <1>5, <1>6, <1>7, <1>8 DEF r, S

\* The messages that the slots S of t hold.
MessagesIn(t, S) == {t.m_slots[i].env : i \in S}

\* Distinct PENDING slots hold distinct messages, so the messages of some
\* slots are as many as the slots.
LEMMA OneMessageEach ==
  ASSUME NEW t, OnePending(t), NEW S \in SUBSET InState(t, "PENDING")
  PROVE  /\ IsFiniteSet(MessagesIn(t, S))
         /\ Cardinality(MessagesIn(t, S)) = Cardinality(S)
         /\ Cardinality(S) \in Nat
<1> DEFINE E == {t.m_slots[i].env : i \in S}
           g == [i \in S |-> t.m_slots[i].env]
<1>1. IsFiniteSet(S) /\ Cardinality(S) \in Nat
  <2>1. S \in SUBSET AckIndex
    BY DEF InState
  <2>2. QED
    BY <2>1, IndexFacts
<1>2. g \in Bijection(S, E)
  <2>1. g \in [S -> E] /\ \A e \in E : \E i \in S : g[i] = e
    OBVIOUS
  <2>2. ASSUME NEW i \in S, NEW j \in S, g[i] = g[j] PROVE i = j
    BY <2>2 DEF OnePending
  <2>3. QED
    BY <2>1, <2>2 DEF Bijection, Injection, Surjection, IsInjective
<1> HIDE DEF E, g
<1>3. ExistsBijection(S, E)
  BY <1>2 DEF ExistsBijection
<1>4. QED
  BY <1>1, <1>3, FS_Bijection DEF E, MessagesIn

\* The PENDING messages after a resolution are the others, each still once.
LEMMA PendingAfter ==
  ASSUME NEW t, OnePending(t), NEW u, NEW S, Resolved(u, t, S)
  PROVE  /\ OnePending(u)
         /\ MessagesIn(t, S) \subseteq MessagesIn(t, InState(t, "PENDING"))
         /\ MessagesIn(u, InState(u, "PENDING")) =
              MessagesIn(t, InState(t, "PENDING")) \ MessagesIn(t, S)
<1>1. OnePending(u)
  BY DEF OnePending, Resolved
<1> DEFINE P(x) == {x.m_slots[i].env : i \in InState(x, "PENDING")}
           E    == {t.m_slots[i].env : i \in S}
<1>2. E \subseteq P(t)
  BY DEF Resolved
<1>3. P(u) \subseteq P(t) \ E
  <2> SUFFICES ASSUME NEW i \in InState(u, "PENDING")
               PROVE  u.m_slots[i].env \in P(t) \ E
    OBVIOUS
  <2>1. /\ i \in InState(t, "PENDING") /\ i \notin S
        /\ u.m_slots[i].env = t.m_slots[i].env
    BY DEF Resolved
  <2>2. ASSUME NEW j \in S PROVE t.m_slots[j].env # t.m_slots[i].env
    BY <2>1 DEF OnePending, Resolved
  <2>3. QED
    BY <2>1, <2>2
<1>4. P(t) \ E \subseteq P(u)
  <2> SUFFICES ASSUME NEW i \in InState(t, "PENDING"), t.m_slots[i].env \notin E
               PROVE  t.m_slots[i].env \in P(u)
    OBVIOUS
  <2>1. i \in InState(u, "PENDING") /\ u.m_slots[i].env = t.m_slots[i].env
    BY DEF Resolved
  <2>2. QED
    BY <2>1
<1>5. /\ E = MessagesIn(t, S)
      /\ P(t) = MessagesIn(t, InState(t, "PENDING"))
      /\ P(u) = MessagesIn(u, InState(u, "PENDING"))
  BY DEF MessagesIn
<1> HIDE DEF P, E
<1>6. QED
  BY <1>1, <1>2, <1>3, <1>4, <1>5


\* track() adds one PENDING slot for the message, or refuses and changes nothing.
LEMMA TrackPends ==
  ASSUME NEW t \in Tracker, NEW m, NEW d
  PROVE  LET r == track(t, m, d)
             u == r.tracker
         IN  \/ r.res # "OK" /\ u = t
             \/ /\ r.res = "OK"
                /\ u.acks_received = t.acks_received
                /\ u.timeouts = t.timeouts
                /\ \E i \in AckIndex \ InState(t, "PENDING") :
                     /\ InState(u, "PENDING") = InState(t, "PENDING") \union {i}
                     /\ u.m_slots[i].env = m
                     /\ \A j \in InState(t, "PENDING") : u.m_slots[j] = t.m_slots[j]
<1> DEFINE r == track(t, m, d)
           u == r.tracker
           i == Min(InState(t, "FREE"))
           s == [state |-> "PENDING", env |-> m, deadline_us |-> d]
<1>1. CASE InState(t, "FREE") = {}
  BY <1>1 DEF track
<1>2. CASE InState(t, "FREE") # {}
  <2>1. i \in InState(t, "FREE") /\ i \in AckIndex /\ i \notin InState(t, "PENDING")
    BY <1>2, IndexFacts, MinIsLeast DEF InState
  <2>2. r.res = "OK" /\ u = [t EXCEPT !.m_slots[i] = s, !.m_count = @ + 1]
    BY <1>2 DEF track
  <2>3. s.state = "PENDING" /\ s.env = m
    OBVIOUS
  <2> HIDE DEF i, s, u
  <2>4. /\ u.m_slots = [t.m_slots EXCEPT ![i] = s]
        /\ u.acks_received = t.acks_received /\ u.timeouts = t.timeouts
    BY <2>2 DEF Tracker
  <2>5. u.m_slots[i] = s /\ \A j \in AckIndex \ {i} : u.m_slots[j] = t.m_slots[j]
    BY <2>1, <2>4 DEF Tracker
  <2>6. InState(u, "PENDING") = InState(t, "PENDING") \union {i}
    BY <2>1, <2>3, <2>5 DEF InState
  <2>7. \A j \in InState(t, "PENDING") : u.m_slots[j] = t.m_slots[j]
    BY <2>1, <2>5 DEF InState
  <2>8. QED
    BY <2>1, <2>2, <2>3, <2>4, <2>5, <2>6, <2>7 DEF u
<1>3. QED
  BY <1>1, <1>2

\* Every step keeps the accounts: what leaves PENDING enters one history.
LEMMA StepAccounts ==
  ASSUME IInv, Outcomes, [Next]_vars
  PROVE  Outcomes'
<1> DEFINE P == EnvsOf(InState(tracker, "PENDING"))
<1>1. /\ tracker \in Tracker /\ tracker.m_count = Cardinality(Used(tracker))
      /\ OnePending(tracker) /\ IsFiniteSet(acked) /\ IsFiniteSet(expired)
      /\ tracker.acks_received \in Nat /\ tracker.timeouts \in Nat
  BY DEF IInv, Good, Outcomes, Tracker
<1>2. /\ tracked = P \union acked \union cancelled \union expired
      /\ acked \intersect (cancelled \union expired \union P) = {}
      /\ cancelled \intersect (expired \union P) = {}
      /\ expired \intersect P = {}
      /\ tracker.acks_received = Cardinality(acked)
      /\ tracker.timeouts = Cardinality(expired)
  BY DEF Outcomes, ExactlyOneOutcome
\* What resolving the slots S does to the sets of messages.
<1>3. ASSUME NEW S, Resolved(tracker', tracker, S)
      PROVE  /\ OnePending(tracker') /\ EnvsOf(S) \subseteq P /\ P' = P \ EnvsOf(S)
             /\ IsFiniteSet(EnvsOf(S)) /\ Cardinality(EnvsOf(S)) = Cardinality(S)
             /\ Cardinality(S) \in Nat
  <2>1. S \in SUBSET InState(tracker, "PENDING")
    BY <1>3 DEF Resolved
  <2>2. /\ EnvsOf(S) = MessagesIn(tracker, S)
        /\ P = MessagesIn(tracker, InState(tracker, "PENDING"))
        /\ P' = MessagesIn(tracker', InState(tracker', "PENDING"))
    BY DEF EnvsOf, MessagesIn
  <2> HIDE DEF P
  <2>3. OnePending(tracker') /\ EnvsOf(S) \subseteq P /\ P' = P \ EnvsOf(S)
    BY <1>1, <1>3, <2>2, PendingAfter
  <2>4. /\ IsFiniteSet(EnvsOf(S)) /\ Cardinality(EnvsOf(S)) = Cardinality(S)
        /\ Cardinality(S) \in Nat
    BY <1>1, <2>1, <2>2, OneMessageEach
  <2>5. QED
    BY <2>3, <2>4
\* Adding them to a finite history adds their number to its size.
<1>4. ASSUME NEW S, Resolved(tracker', tracker, S), NEW H, IsFiniteSet(H),
             H \intersect P = {}
      PROVE  /\ IsFiniteSet(H \union EnvsOf(S))
             /\ Cardinality(H \union EnvsOf(S)) = Cardinality(H) + Cardinality(S)
  <2> DEFINE E == EnvsOf(S)
  <2>1. E \subseteq P /\ IsFiniteSet(E) /\ Cardinality(E) = Cardinality(S)
    BY <1>3, <1>4
  <2> HIDE DEF E
  <2>2. /\ IsFiniteSet(H \union E)
        /\ Cardinality(H \union E) =
             Cardinality(H) + Cardinality(E) - Cardinality(H \intersect E)
    BY <1>4, <2>1, FS_Union
  <2>3. H \intersect E = {}
    BY <1>4, <2>1
  <2>4. Cardinality(H \intersect E) = 0
    BY <2>3, FS_EmptySet, Zenon
  <2>5. Cardinality(H) \in Nat /\ Cardinality(E) \in Nat
    BY <1>4, <2>1, FS_CardinalityType
  <2>6. Cardinality(H \union E) = Cardinality(H) + Cardinality(S)
    BY <2>1, <2>2, <2>4, <2>5
  <2>7. QED
    BY <2>2, <2>6 DEF E
<1>5. CASE UNCHANGED vars
  BY <1>5 DEF vars, Outcomes, OnePending, ExactlyOneOutcome, EnvsOf, InState
<1>6. ASSUME NEW m \in Message, Track(m) PROVE Outcomes'
  <2> DEFINE d == timestamp_deadline_us(clock, Timeout)
             r == track(tracker, m, d)
  <2>1. /\ tracker' = r.tracker
        /\ tracked' = IF r.res = "OK" THEN tracked \union {m} ELSE tracked
        /\ acked' = acked /\ cancelled' = cancelled /\ expired' = expired
        /\ \A o \in tracked : o.message_id # m.message_id
    BY <1>6 DEF Track
  <2> HIDE DEF d
  <2>2. CASE r.res # "OK" /\ tracker' = tracker
    <3>1. tracked' = tracked
      BY <2>1, <2>2
    <3>2. QED
      BY <2>1, <2>2, <3>1 DEF Outcomes, OnePending, ExactlyOneOutcome, EnvsOf, InState
  <2>3. CASE /\ r.res = "OK"
             /\ tracker'.acks_received = tracker.acks_received
             /\ tracker'.timeouts = tracker.timeouts
             /\ \E i \in AckIndex \ InState(tracker, "PENDING") :
                  /\ InState(tracker', "PENDING") = InState(tracker, "PENDING") \union {i}
                  /\ tracker'.m_slots[i].env = m
                  /\ \A j \in InState(tracker, "PENDING") :
                       tracker'.m_slots[j] = tracker.m_slots[j]
    <3>1. PICK i \in AckIndex \ InState(tracker, "PENDING") :
                  /\ InState(tracker', "PENDING") = InState(tracker, "PENDING") \union {i}
                  /\ tracker'.m_slots[i].env = m
                  /\ \A j \in InState(tracker, "PENDING") :
                       tracker'.m_slots[j] = tracker.m_slots[j]
      BY <2>3
    <3>2. P' = P \union {m} /\ tracked' = tracked \union {m}
      BY <2>1, <2>3, <3>1 DEF EnvsOf
    <3>3. \A j \in InState(tracker, "PENDING") :
            /\ tracker.m_slots[j].env \in tracked
            /\ tracker.m_slots[j].env.message_id # m.message_id
      BY <1>2, <2>1 DEF EnvsOf
    <3>4. OnePending(tracker')
      BY <1>1, <3>1, <3>3 DEF OnePending
    <3>5. m \notin tracked
      BY <2>1
    <3> HIDE DEF P
    <3>6. /\ tracked' = P' \union acked' \union cancelled' \union expired'
          /\ acked' \intersect (cancelled' \union expired' \union P') = {}
          /\ cancelled' \intersect (expired' \union P') = {}
          /\ expired' \intersect P' = {}
      BY <1>2, <2>1, <3>2, <3>5
    <3>7. QED
      BY <1>1, <1>2, <2>1, <2>3, <3>4, <3>6 DEF Outcomes, ExactlyOneOutcome, P
  <2>4. QED
    BY <1>1, <2>1, <2>2, <2>3, TrackPends
<1>7. ASSUME NEW src \in Node, NEW id \in MessageId, OnAck(src, id) PROVE Outcomes'
  <2> DEFINE S == PendingFor(tracker, src, id)
             r == on_ack(tracker, src, id)
  <2>1. /\ tracker' = r.tracker
        /\ acked' = IF r.res = "OK" THEN acked \union EnvsOf(S) ELSE acked
        /\ tracked' = tracked /\ cancelled' = cancelled /\ expired' = expired
    BY <1>7 DEF OnAck
  <2>2. /\ Resolved(tracker', tracker, S)
        /\ r.res = "OK" <=> S # {}
        /\ tracker'.acks_received = tracker.acks_received + Cardinality(S)
        /\ tracker'.timeouts = tracker.timeouts
    <3>1. Acknowledged(r, tracker, S)
      BY <1>1, ResolvingCalls
    <3> HIDE DEF r, S
    <3>2. QED
      BY <2>1, <3>1 DEF Acknowledged
  <2>3. S = {} => EnvsOf(S) = {}
    BY DEF EnvsOf
  <2> HIDE DEF S, r, P
  <2>4. acked' = acked \union EnvsOf(S)
    BY <2>1, <2>2, <2>3
  <2>5. OnePending(tracker') /\ EnvsOf(S) \subseteq P /\ P' = P \ EnvsOf(S)
    BY <1>3, <2>2
  <2>6. IsFiniteSet(acked') /\ Cardinality(acked') = Cardinality(acked) + Cardinality(S)
    <3>1. acked \intersect P = {}
      BY <1>2
    <3>2. QED
      BY <1>1, <1>4, <2>2, <2>4, <3>1
  <2>7. /\ tracked' = P' \union acked' \union cancelled' \union expired'
        /\ acked' \intersect (cancelled' \union expired' \union P') = {}
        /\ cancelled' \intersect (expired' \union P') = {}
        /\ expired' \intersect P' = {}
    BY <1>2, <2>1, <2>4, <2>5
  <2>8. QED
    BY <1>1, <1>2, <2>1, <2>2, <2>5, <2>6, <2>7 DEF Outcomes, ExactlyOneOutcome, P
\* Both cancellations move the messages of S to the same history.
<1>8. ASSUME NEW S, Resolved(tracker', tracker, S),
             cancelled' = cancelled \union EnvsOf(S),
             tracker'.acks_received = tracker.acks_received,
             tracker'.timeouts = tracker.timeouts,
             UNCHANGED <<tracked, acked, expired>>
      PROVE  Outcomes'
  <2> HIDE DEF P
  <2>1. OnePending(tracker') /\ EnvsOf(S) \subseteq P /\ P' = P \ EnvsOf(S)
    BY <1>3, <1>8
  <2>2. /\ tracked' = P' \union acked' \union cancelled' \union expired'
        /\ acked' \intersect (cancelled' \union expired' \union P') = {}
        /\ cancelled' \intersect (expired' \union P') = {}
        /\ expired' \intersect P' = {}
    BY <1>2, <1>8, <2>1
  <2>3. QED
    BY <1>1, <1>2, <1>8, <2>1, <2>2 DEF Outcomes, ExactlyOneOutcome, P
<1>9. ASSUME NEW src \in Node, NEW id \in MessageId, Cancel(src, id) PROVE Outcomes'
  <2> DEFINE S == PendingFor(tracker, src, id)
             r == cancel(tracker, src, id)
  <2>1. /\ tracker' = r.tracker
        /\ cancelled' = IF r.res = "OK" THEN cancelled \union EnvsOf(S) ELSE cancelled
        /\ UNCHANGED <<tracked, acked, expired>>
    BY <1>9 DEF Cancel
  <2>2. /\ Resolved(tracker', tracker, S)
        /\ r.res = "OK" <=> S # {}
        /\ tracker'.acks_received = tracker.acks_received
        /\ tracker'.timeouts = tracker.timeouts
    BY <1>1, <2>1, ResolvingCalls
  <2>3. S = {} => EnvsOf(S) = {}
    BY DEF EnvsOf
  <2> HIDE DEF S, r
  <2>4. cancelled' = cancelled \union EnvsOf(S)
    BY <2>1, <2>2, <2>3
  <2>5. QED
    BY <1>8, <2>1, <2>2, <2>4
<1>10. ASSUME NEW dst \in Node, CancelPeer(dst) PROVE Outcomes'
  <2> DEFINE S == PendingTo(tracker, dst)
  <2>1. /\ tracker' = cancel_peer(tracker, dst).tracker
        /\ cancelled' = cancelled \union EnvsOf(S)
        /\ UNCHANGED <<tracked, acked, expired>>
    BY <1>10 DEF CancelPeer
  <2>2. /\ Resolved(tracker', tracker, S)
        /\ tracker'.acks_received = tracker.acks_received
        /\ tracker'.timeouts = tracker.timeouts
    BY <1>1, <2>1, ResolvingCalls
  <2> HIDE DEF S
  <2>3. QED
    BY <1>8, <2>1, <2>2
<1>11. ASSUME NEW now \in 1 .. clock, SweepExpired(now) PROVE Outcomes'
  <2> DEFINE S == Overdue(tracker, SweepTime(tracker, now))
             r == sweep_expired(tracker, now, ACK_TRACKER_CAPACITY)
  <2>1. /\ tracker' = r.tracker
        /\ expired' = expired \union r.expired
        /\ tracked' = tracked /\ acked' = acked /\ cancelled' = cancelled
        /\ now \in Nat
    BY <1>11 DEF SweepExpired
  <2>2. /\ Resolved(tracker', tracker, S)
        /\ r.expired = EnvsOf(S)
        /\ tracker'.acks_received = tracker.acks_received
        /\ tracker'.timeouts = tracker.timeouts + Cardinality(S)
    BY <1>1, <2>1, SweepResolves DEF EnvsOf
  <2> HIDE DEF S, r, P
  <2>3. OnePending(tracker') /\ EnvsOf(S) \subseteq P /\ P' = P \ EnvsOf(S)
    BY <1>3, <2>2
  <2>4. IsFiniteSet(expired') /\ Cardinality(expired') = Cardinality(expired) + Cardinality(S)
    <3>1. expired \intersect P = {}
      BY <1>2
    <3>2. QED
      BY <1>1, <1>4, <2>1, <2>2, <3>1
  <2>5. /\ tracked' = P' \union acked' \union cancelled' \union expired'
        /\ acked' \intersect (cancelled' \union expired' \union P') = {}
        /\ cancelled' \intersect (expired' \union P') = {}
        /\ expired' \intersect P' = {}
    BY <1>2, <2>1, <2>2, <2>3
  <2>6. QED
    BY <1>1, <1>2, <2>1, <2>2, <2>3, <2>4, <2>5 DEF Outcomes, ExactlyOneOutcome, P
<1>12. CASE Tick
  BY <1>12 DEF Tick, Outcomes, OnePending, ExactlyOneOutcome, EnvsOf, InState
<1>13. QED
  BY <1>5, <1>6, <1>7, <1>9, <1>10, <1>11, <1>12 DEF Next

(***************************************************************************)
(* Every tracked message has exactly one outcome, however ACKs, timeouts,  *)
(* rollbacks and reconnects race for it, and acks_received and timeouts    *)
(* are exactly the numbers of the messages concerned.                      *)
(***************************************************************************)
THEOREM OneOutcome == Spec => []ExactlyOneOutcome
<1>1. Init => Outcomes
  <2> SUFFICES ASSUME Init PROVE Outcomes
    OBVIOUS
  <2>1. InState(tracker, "PENDING") = {}
    BY DEF Init, init, InState, FreeSlot
  <2>2. IsFiniteSet({}) /\ Cardinality({}) = 0
    BY FS_EmptySet
  <2>3. tracker.acks_received = 0 /\ tracker.timeouts = 0
    BY DEF Init, init
  <2>4. EnvsOf(InState(tracker, "PENDING")) = {}
    BY <2>1 DEF EnvsOf
  <2>5. tracked = {} /\ acked = {} /\ cancelled = {} /\ expired = {}
    BY DEF Init
  <2>6. tracker.acks_received = Cardinality(acked) /\ tracker.timeouts = Cardinality(expired)
    BY <2>2, <2>3, <2>5, Zenon
  <2>7. ExactlyOneOutcome
    BY <2>4, <2>5, <2>6 DEF ExactlyOneOutcome
  <2>8. QED
    BY <2>1, <2>2, <2>5, <2>7 DEF Outcomes, OnePending
<1>2. IInv /\ Outcomes /\ [Next]_vars => Outcomes'
  BY StepAccounts
<1>3. Outcomes => ExactlyOneOutcome
  BY DEF Outcomes
<1>4. QED
  BY <1>1, <1>2, <1>3, Invariance, PTL DEF Spec
===============================================================================
