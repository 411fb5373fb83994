------------------------- MODULE RetryManagerProofs -------------------------
(***************************************************************************)
(* Proofs about RetryManagerSpec, for every capacity, ceiling, number of   *)
(* retries, configured backoff and set of messages.                        *)
(***************************************************************************)
EXTENDS RetryManagerSpec, FiniteSetTheorems,
        WellFoundedInduction, TLAPS

\* A non-empty set of naturals has a least element: the order of the naturals is
\* well-founded.
LEMMA MinIsLeast ==
  ASSUME NEW S, S \subseteq Nat, S # {}
  PROVE  Min(S) \in S /\ \A y \in S : Min(S) <= y
<1> DEFINE R == OpToRel(<, Nat)
<1>1. IsWellFoundedOn(R, Nat)
  BY NatLessThanWellFounded, Zenon
<1>2. \A x, y \in Nat : y < x => <<y, x>> \in R
  BY DEF OpToRel
<1> HIDE DEF R
<1>3. PICK x \in S : \A y \in S : ~ (<<y, x>> \in R)
  BY <1>1, WFMin
<1>4. ASSUME NEW y \in S PROVE x <= y
  <2>1. x \in Nat /\ y \in Nat /\ ~ (<<y, x>> \in R)
    BY <1>3
  <2>2. ~ (y < x)
    BY <1>2, <2>1, Zenon
  <2>3. QED
    BY <2>1, <2>2
<1>5. QED
  BY <1>4 DEF Min

\* Releasing some used slots lowers their number by as many.
LEMMA CardinalityWithout ==
  ASSUME NEW A, IsFiniteSet(A), NEW S \in SUBSET A
  PROVE  /\ IsFiniteSet(S) /\ Cardinality(S) \in Nat /\ Cardinality(A) \in Nat
         /\ Cardinality(S) <= Cardinality(A)
         /\ Cardinality(A \ S) = Cardinality(A) - Cardinality(S)
<1>1. IsFiniteSet(S) /\ Cardinality(S) <= Cardinality(A)
  BY FS_Subset
<1>2. Cardinality(S) \in Nat /\ Cardinality(A) \in Nat
  BY <1>1, FS_CardinalityType
<1>3. Cardinality(A \ S) = Cardinality(A) - Cardinality(A \cap S)
  BY FS_Difference
<1>4. A \cap S = S
  OBVIOUS
<1>5. QED
  BY <1>1, <1>2, <1>3, <1>4

(***************************************************************************)
(* The powers of two double, as a fact about sets: 2^k is the number of    *)
(* subsets of 1 .. k, and a further element x doubles it, because s and    *)
(* s \union {x} pair the subsets without x with those that have it.        *)
(***************************************************************************)
LEMMA PowerDoubles ==
  ASSUME NEW k \in Nat
  PROVE  2^0 = 1 /\ 2^k \in Nat /\ 2^(k + 1) = 2 * 2^k
<1> DEFINE S == 1 .. k
           x == k + 1
           T == S \union {x}
           P == SUBSET S
           In == {s \union {x} : s \in P}
           f == [s \in P |-> s \union {x}]
<1>1. IsFiniteSet(S) /\ Cardinality(S) = k
  BY FS_Interval
<1>2. x \notin S
  OBVIOUS
<1> HIDE DEF S
<1>3. IsFiniteSet(T) /\ Cardinality(T) = k + 1
  BY <1>1, <1>2, FS_AddElement
<1> HIDE DEF x, T
<1>4. IsFiniteSet(P) /\ Cardinality(P) = 2^k
  <2>1. Cardinality(P) = 2^Cardinality(S) /\ IsFiniteSet(P)
    BY <1>1, FS_SUBSET
  <2>2. QED
    BY <1>1, <2>1
<1>5. Cardinality(SUBSET T) = 2^(k + 1)
  <2>1. Cardinality(SUBSET T) = 2^Cardinality(T)
    BY <1>3, FS_SUBSET
  <2>2. QED
    BY <1>3, <2>1
<1>6. SUBSET T = P \union In /\ P \intersect In = {}
  <2>1. ASSUME NEW t \in SUBSET T, x \in t PROVE t \in In
    <3>1. t \ {x} \in P /\ t = (t \ {x}) \union {x}
      BY <2>1 DEF T
    <3>2. QED
      BY <3>1
  <2>2. ASSUME NEW t \in SUBSET T, x \notin t PROVE t \in P
    BY <2>2 DEF T
  <2>3. QED
    BY <1>2, <2>1, <2>2 DEF T
<1>7. f \in Bijection(P, In)
  <2>1. f \in [P -> In]
    OBVIOUS
  <2>2. ASSUME NEW a \in P, NEW b \in P, f[a] = f[b] PROVE a = b
    BY <1>2, <2>2
  <2>3. QED
    BY <2>1, <2>2 DEF Bijection, Injection, Surjection, IsInjective
<1> HIDE DEF P, In
<1>8. IsFiniteSet(In) /\ Cardinality(In) = Cardinality(P)
  BY <1>4, <1>7, FS_Bijection DEF ExistsBijection
<1>9. Cardinality(P \union In) = Cardinality(P) + Cardinality(In)
  <2>1. Cardinality({}) = 0
    BY FS_EmptySet
  <2>2. Cardinality(P \union In)
          = Cardinality(P) + Cardinality(In) - Cardinality(P \intersect In)
    BY <1>4, <1>8, FS_Union
  <2>3. Cardinality(P) \in Nat /\ Cardinality(In) \in Nat
    BY <1>4, <1>8, FS_CardinalityType
  <2>4. P \intersect In = {}
    BY <1>6
  <2>5. Cardinality(P \intersect In) = 0
    BY <2>1, <2>4, Zenon
  <2>6. QED
    BY <2>2, <2>3, <2>5
<1>10. Cardinality(P) \in Nat /\ Cardinality(SUBSET T) = 2 * Cardinality(P)
  <2>1. Cardinality(P) \in Nat
    BY <1>4, FS_CardinalityType
  <2>2. SUBSET T = P \union In
    BY <1>6
  <2>3. Cardinality(SUBSET T) = Cardinality(P) + Cardinality(P)
    BY <1>8, <1>9, <2>2, Zenon
  <2>4. QED
    BY <2>1, <2>3
<1>11. 2^0 = 1
  OBVIOUS
<1>12. QED
  BY <1>4, <1>5, <1>10, <1>11, Zenon

\* What an entry that is in use holds.
Busy == [active        : {TRUE},
         env           : Envelope,
         next_retry_us : Nat,
         expiry_us     : Nat,
         retry_count   : Nat,
         max_retries   : Nat,
         backoff_ms    : Nat]

\* A pause of b is long enough after the k-th hand-out.
LongEnough(k, b) == b >= 2 ^ (k - 1) \/ b >= BACKOFF_CAP

(***************************************************************************)
(* A table between two method calls: m_count is exact, every entry in use  *)
(* holds a scheduled message with its own expiry and the channel's limit,  *)
(* and no message has two entries.                                         *)
(***************************************************************************)
Good(r) ==
  /\ r \in Manager
  /\ r.m_count = Cardinality(Active(r))
  /\ \A i \in Active(r) : /\ r.m_slots[i].env \in Message
                          /\ r.m_slots[i].expiry_us = r.m_slots[i].env.expiry_time_us
                          /\ r.m_slots[i].max_retries = MaxRetries
  /\ \A i, j \in Active(r) :
       r.m_slots[i].env.message_id = r.m_slots[j].env.message_id => i = j

(***************************************************************************)
(* The entry s against the log a of its message's hand-outs: it counts     *)
(* them, and the next is due a long enough pause after the last.           *)
(***************************************************************************)
Logged(s, a) ==
  /\ s.retry_count = Len(a)
  /\ Len(a) > 0 => /\ s.next_retry_us = a[Len(a)] + s.backoff_ms
                   /\ LongEnough(Len(a), s.backoff_ms)

\* One message's log says what RetriesBoundedAndSpaced promises.
Spaced(m, s) ==
  /\ Len(s) <= MaxRetries
  /\ \A k \in 1 .. Len(s) : ~timestamp_expired(m.expiry_time_us, s[k])
  /\ \A k \in 1 .. Len(s) - 1 : LongEnough(k, s[k + 1] - s[k])

(***************************************************************************)
(* The inductive invariant: the table is good, the entries in use agree    *)
(* with the logs, hold scheduled messages that nothing has stopped, and a  *)
(* message that was never scheduled was never handed out.                  *)
(***************************************************************************)
IInv ==
  /\ TypeOK
  /\ Good(manager)
  /\ \A i \in Active(manager) :
       Logged(manager.m_slots[i], attempts[manager.m_slots[i].env])
  /\ EnvsOf(Active(manager)) \subseteq scheduled \ stopped
  /\ stopped \subseteq scheduled
  /\ \A m \in Message \ scheduled : attempts[m] = <<>>
  /\ \A m \in Message : Spaced(m, attempts[m])
-----------------------------------------------------------------------------
\* The index sets that the methods loop over are finite sets of numbers, and
\* their cardinalities are numbers up to the capacity.
LEMMA IndexFacts ==
  /\ RetryIndex \subseteq Nat
  /\ IsFiniteSet(RetryIndex)
  /\ \A S \in SUBSET RetryIndex :
       /\ IsFiniteSet(S)
       /\ Cardinality(S) \in Nat
       /\ Cardinality(S) \in 0 .. ACK_TRACKER_CAPACITY
<1>1. ACK_TRACKER_CAPACITY \in Nat /\ RetryIndex \subseteq Nat
  BY RetryAssumption DEF RetryIndex
<1>2. IsFiniteSet(RetryIndex) /\ Cardinality(RetryIndex) = ACK_TRACKER_CAPACITY
  BY <1>1, FS_Interval, RetryAssumption DEF RetryIndex
<1>3. ASSUME NEW S \in SUBSET RetryIndex
      PROVE  /\ IsFiniteSet(S)
             /\ Cardinality(S) \in Nat
             /\ Cardinality(S) <= ACK_TRACKER_CAPACITY
  BY <1>2, FS_Subset, FS_CardinalityType
<1>4. QED
  BY <1>1, <1>2, <1>3

\* An entry is in use and complete, or idle.
LEMMA SlotFacts ==
  ASSUME NEW r \in Manager
  PROVE  /\ Active(r) \in SUBSET RetryIndex
         /\ \A i \in Active(r) : r.m_slots[i] \in Busy
         /\ \A i \in RetryIndex \ Active(r) : r.m_slots[i] = IdleSlot
<1>1. ASSUME NEW i \in RetryIndex
      PROVE  r.m_slots[i] = IdleSlot \/ r.m_slots[i] \in Busy
  BY DEF Manager, RetrySlot, Busy
<1>2. IdleSlot.active = FALSE /\ \A s \in Busy : s.active = TRUE
  BY DEF IdleSlot, Busy
<1>3. QED
  BY <1>1, <1>2 DEF Active


(***************************************************************************)
(* q is r without the entries S: what every path that ends an entry does.  *)
(***************************************************************************)
Without(q, r, S) ==
  /\ q \in Manager
  /\ q.m_count = Cardinality(Active(q))
  /\ Active(q) = Active(r) \ S
  /\ \A i \in Active(q) : q.m_slots[i] = r.m_slots[i]

\* Deactivate() takes entries in use away and keeps the count exact: the
\* assertion m_count > 0 before each decrement holds.
LEMMA DeactivateFacts ==
  ASSUME NEW r \in Manager, r.m_count = Cardinality(Active(r)),
         NEW S \in SUBSET Active(r)
  PROVE  Without(Deactivate(r, S), r, S)
<1> DEFINE q == Deactivate(r, S)
           f == [i \in RetryIndex |-> IF i \in S THEN IdleSlot ELSE r.m_slots[i]]
<1>1. q = [r EXCEPT !.m_slots = f, !.m_count = r.m_count - Cardinality(S)]
  BY DEF Deactivate, Manager
<1>2. f \in [RetryIndex -> RetrySlot]
  BY DEF Manager, RetrySlot
<1>3. q.m_slots = f /\ q.m_count = r.m_count - Cardinality(S)
  BY <1>1 DEF Manager
<1>4. Active(q) = Active(r) \ S
  <2>1. IdleSlot.active = FALSE
    BY DEF IdleSlot
  <2>2. QED
    BY <1>3, <2>1 DEF Active
<1>5. q.m_count = Cardinality(Active(q)) /\ q.m_count \in 0 .. ACK_TRACKER_CAPACITY
  <2>1. IsFiniteSet(Active(r)) /\ Active(r) \in SUBSET RetryIndex
    BY SlotFacts, IndexFacts
  <2>2. q.m_count = Cardinality(Active(q))
    BY <1>3, <1>4, <2>1, CardinalityWithout
  <2>3. QED
    BY <1>4, <2>1, <2>2, IndexFacts
<1>6. q \in Manager
  <2>1. q = [r EXCEPT !.m_slots = f, !.m_count = q.m_count]
    BY <1>1, <1>3
  <2> HIDE DEF q, f
  <2>2. QED
    BY <1>2, <1>5, <2>1 DEF Manager
<1>7. \A i \in Active(q) : q.m_slots[i] = r.m_slots[i]
  BY <1>3, <1>4 DEF Active
<1>8. QED
  BY <1>4, <1>5, <1>6, <1>7 DEF Without

-----------------------------------------------------------------------------
\* advance_backoff() makes the pause after the k-th hand-out long enough, for
\* any configured backoff and whatever multiple of it was reached before.
LEMMA BackoffGrows ==
  ASSUME NEW k \in Nat, NEW b \in Nat, k > 0 => LongEnough(k, b)
  PROVE  advance_backoff(b) \in Nat /\ LongEnough(k + 1, advance_backoff(b))
<1> DEFINE half == BACKOFF_CAP \div 2
           p == 2 ^ (k - 1)
           q == 2 ^ k
<1>1. half \in Nat /\ BACKOFF_CAP \in Nat /\ BACKOFF_CAP = 2 * half /\ half > 0
  BY RetryAssumption
<1>2. advance_backoff(b) = IF b > half THEN 2 * half ELSE IF b = 0 THEN 1 ELSE 2 * b
  <2> HIDE DEF half
  <2>1. advance_backoff(b) =
          LET capped == IF b > half THEN half ELSE b
          IN  IF capped = 0 THEN 1 ELSE capped * 2
    BY DEF advance_backoff, half
  <2>2. QED
    BY <1>1, <2>1
<1> DEFINE c == advance_backoff(b)
<1> HIDE DEF half, c
<1>3. c \in Nat /\ c >= 1 /\ (c >= 2 * b \/ c >= BACKOFF_CAP)
  BY <1>1, <1>2 DEF c
<1>4. q \in Nat /\ (k = 0 => q = 1) /\ (k > 0 => p \in Nat /\ q = 2 * p)
  <2>1. q \in Nat /\ 2 ^ 0 = 1
    BY PowerDoubles
  <2>2. ASSUME k > 0 PROVE p \in Nat /\ q = 2 * p
    <3> DEFINE j == k - 1
    <3>1. j \in Nat /\ j + 1 = k
      BY <2>2
    <3> HIDE DEF j
    <3>2. 2 ^ j \in Nat /\ 2 ^ (j + 1) = 2 * 2 ^ j
      BY <3>1, PowerDoubles
    <3>3. QED
      BY <3>1, <3>2, Zenon DEF j
  <2>3. k = 0 => q = 1
    BY <2>1, Zenon
  <2>4. QED
    BY <2>1, <2>2, <2>3
<1>5. k > 0 => b >= p \/ b >= BACKOFF_CAP
  BY DEF LongEnough
<1> HIDE DEF p, q
<1>6. c >= q \/ c >= BACKOFF_CAP
  BY <1>1, <1>3, <1>4, <1>5
<1>7. 2 ^ ((k + 1) - 1) = q
  <2>1. (k + 1) - 1 = k
    OBVIOUS
  <2>2. QED
    BY <2>1, Zenon DEF q
<1>8. LongEnough(k + 1, c)
  BY <1>6, <1>7, Zenon DEF LongEnough
<1>9. QED
  BY <1>3, <1>8 DEF c

\* Taking entries away keeps a table good.
LEMMA WithoutGood ==
  ASSUME NEW r, Good(r), NEW S, NEW q, Without(q, r, S)
  PROVE  Good(q)
BY DEF Good, Without

(***************************************************************************)
(* cancel(), on_ack() and cancel_peer() end exactly the entries they look  *)
(* for: no message has two entries, so the first match is the only one.    *)
(***************************************************************************)
LEMMA StopFacts ==
  ASSUME NEW r, Good(r), NEW src, NEW id, NEW dst
  PROVE  /\ Without(cancel(r, src, id).manager, r, ActiveFor(r, src, id))
         /\ Without(on_ack(r, src, id).manager, r, ActiveFor(r, src, id))
         /\ Without(cancel_peer(r, dst).manager, r, ActiveTo(r, dst))
<1> DEFINE A == ActiveFor(r, src, id)
           c == cancel(r, src, id)
<1>1. /\ r \in Manager /\ r.m_count = Cardinality(Active(r))
      /\ A \in SUBSET Active(r) /\ A \subseteq Nat
      /\ ActiveTo(r, dst) \in SUBSET Active(r)
  BY SlotFacts, IndexFacts DEF Good, ActiveFor, ActiveTo
<1>2. Without(cancel_peer(r, dst).manager, r, ActiveTo(r, dst))
  BY <1>1, DeactivateFacts DEF cancel_peer
<1>3. CASE A = {}
  <2>1. Without(r, r, A)
    BY <1>1, <1>3 DEF Without
  <2>2. c.manager = r /\ on_ack(r, src, id).manager = r
    BY <1>3 DEF cancel, on_ack
  <2>3. QED
    BY <1>2, <2>1, <2>2
<1>4. CASE A # {}
  <2>1. Min(A) \in A
    BY <1>1, <1>4, MinIsLeast
  <2>2. A = {Min(A)}
    BY <2>1 DEF Good, ActiveFor
  <2>3. c = [res |-> "OK", manager |-> Deactivate(r, {Min(A)})]
    BY <1>4 DEF cancel
  <2> DEFINE d == Deactivate(r, {Min(A)})
  <2> HIDE DEF A
  <2>4. Without(d, r, A)
    BY <1>1, <2>2, DeactivateFacts
  <2> HIDE DEF d
  <2>5. c.manager = d
    BY <2>3 DEF d
  <2>6. on_ack(r, src, id).manager = [d EXCEPT !.acks_received = @ + 1]
    <3>1. c = [res |-> "OK", manager |-> d]
      BY <2>3 DEF d
    <3>2. c.res = "OK"
      BY <3>1
    <3>3. on_ack(r, src, id) = [c EXCEPT !.manager.acks_received = @ + 1]
      BY <3>2 DEF on_ack
    <3>4. QED
      BY <3>1, <3>3
  <2>7. d \in Manager
    BY <2>4 DEF Without
  <2> DEFINE q == [d EXCEPT !.acks_received = @ + 1]
  <2>8. q \in Manager /\ q.m_slots = d.m_slots /\ q.m_count = d.m_count
    BY <2>7 DEF Manager
  <2> HIDE DEF q
  <2>9. Active(q) = Active(d)
    BY <2>8 DEF Active
  <2>10. Without(q, r, A)
    BY <2>4, <2>8, <2>9 DEF Without
  <2>11. QED
    BY <1>2, <2>4, <2>5, <2>6, <2>10 DEF q, A
<1>5. QED
  BY <1>3, <1>4


\* Phase 1 of collect_due() ends the expired and the exhausted entries.
LEMMA ReapFacts ==
  ASSUME NEW r, Good(r), NEW now \in Nat
  PROVE  LET q == reap_terminated_slots(r, now)
         IN  /\ Without(q, r, Expired(r, now) \union Exhausted(r))
             /\ q.m_last_collect_us = r.m_last_collect_us
<1> DEFINE e == Expired(r, now)
           x == Exhausted(r) \ e
           S == Expired(r, now) \union Exhausted(r)
           d == Deactivate(r, S)
           q == reap_terminated_slots(r, now)
<1>1. r \in Manager /\ S \in SUBSET Active(r) /\ e \union x = S
  BY DEF Good, Expired, Exhausted
<1>2. Without(d, r, S)
  BY <1>1, DeactivateFacts DEF Good
<1>3. Cardinality(e) \in Nat /\ Cardinality(x) \in Nat
  <2>1. e \in SUBSET RetryIndex /\ x \in SUBSET RetryIndex
    BY <1>1, SlotFacts
  <2>2. QED
    BY <2>1, IndexFacts
<1>4. d.m_last_collect_us = r.m_last_collect_us
  BY <1>1 DEF Deactivate, Manager
<1>5. q = [d EXCEPT !.slots_expired = @ + Cardinality(e),
                    !.slots_exhausted = @ + Cardinality(x)]
  BY <1>1 DEF reap_terminated_slots
<1> DEFINE ce == Cardinality(e)
           cx == Cardinality(x)
<1> HIDE DEF d, S, ce, cx
<1>6. d \in Manager
  BY <1>2 DEF Without
<1>7. /\ q \in Manager /\ q.m_slots = d.m_slots /\ q.m_count = d.m_count
      /\ q.m_last_collect_us = d.m_last_collect_us
  <2> DEFINE u == d.slots_expired + ce
             v == d.slots_exhausted + cx
  <2>1. q = [d EXCEPT !.slots_expired = u, !.slots_exhausted = v]
    BY <1>5, <1>6 DEF ce, cx, Manager
  <2>2. u \in Nat /\ v \in Nat
    BY <1>3, <1>6 DEF ce, cx, Manager
  <2> HIDE DEF q, u, v
  <2>3. q \in Manager
    BY <1>6, <2>1, <2>2 DEF Manager
  <2>4. QED
    BY <1>6, <2>1, <2>3 DEF Manager
<1> HIDE DEF q
<1>8. Active(q) = Active(d)
  BY <1>7 DEF Active
<1>9. Without(q, r, S)
  BY <1>2, <1>7, <1>8 DEF Without
<1>10. QED
  BY <1>4, <1>7, <1>9 DEF q, S

\* c is what collect_due() makes of the reaped table q, handing out D at now.
Collected(c, q, D, now) ==
  /\ c.due = {q.m_slots[i].env : i \in D}
  /\ c.manager \in Manager
  /\ c.manager.m_last_collect_us = now
  /\ c.manager.m_count = q.m_count
  /\ Active(c.manager) = Active(q)
  /\ \A i \in Active(q) : c.manager.m_slots[i] = IF i \in D
                                                   THEN Retried(q.m_slots[i], now)
                                                   ELSE q.m_slots[i]

\* One more retransmission leaves a complete entry.
LEMMA RetriedFacts ==
  ASSUME NEW s \in Busy, NEW now \in Nat, advance_backoff(s.backoff_ms) \in Nat
  PROVE  /\ Retried(s, now) \in Busy
         /\ Retried(s, now).env = s.env
         /\ Retried(s, now).expiry_us = s.expiry_us
         /\ Retried(s, now).max_retries = s.max_retries
         /\ Retried(s, now).retry_count = s.retry_count + 1
         /\ Retried(s, now).backoff_ms = advance_backoff(s.backoff_ms)
         /\ Retried(s, now).next_retry_us = now + advance_backoff(s.backoff_ms)
<1> DEFINE a == advance_backoff(s.backoff_ms)
<1>1. Retried(s, now) = [s EXCEPT !.retry_count   = s.retry_count + 1,
                                  !.backoff_ms    = a,
                                  !.next_retry_us = now + a]
  BY DEF Retried, Busy
<1> DEFINE t == Retried(s, now)
           k == s.retry_count + 1
           x == now + a
<1>2. k \in Nat /\ x \in Nat
  BY DEF Busy
<1>3. t = [s EXCEPT !.retry_count = k, !.backoff_ms = a, !.next_retry_us = x]
  BY <1>1
<1>0. a \in Nat
  OBVIOUS
<1> HIDE DEF t, k, x, a
<1>4. t \in Busy
  BY <1>0, <1>2, <1>3 DEF Busy
<1>5. /\ t.env = s.env /\ t.expiry_us = s.expiry_us
      /\ t.max_retries = s.max_retries /\ t.retry_count = k
      /\ t.backoff_ms = a /\ t.next_retry_us = x
  BY <1>3 DEF Busy
<1>6. QED
  BY <1>4, <1>5 DEF t, k, x, a

\* collect_due() as a whole: reap, choose what is due and fits the buffer,
\* and count one more retry for each entry chosen.
LEMMA CollectFacts ==
  ASSUME NEW r, Good(r), NEW at \in Nat, NEW cap,
         \A i \in Active(r) : advance_backoff(r.m_slots[i].backoff_ms) \in Nat
  PROVE  LET now == CollectTime(r, at)
             q   == reap_terminated_slots(r, now)
             D   == FirstN(Due(q, now), cap)
         IN  /\ now \in Nat
             /\ D \subseteq Due(q, now)
             /\ Collected(collect_due(r, at, cap), q, D, now)
<1> DEFINE now == CollectTime(r, at)
           q   == reap_terminated_slots(r, now)
           D   == FirstN(Due(q, now), cap)
           c   == collect_due(r, at, cap)
           f   == [i \in RetryIndex |-> IF i \in D THEN Retried(q.m_slots[i], now)
                                                   ELSE q.m_slots[i]]
           n   == Cardinality(D)
<1>1. now \in Nat
  BY DEF CollectTime, Good, Manager
<1> HIDE DEF now
<1>2. Without(q, r, Expired(r, now) \union Exhausted(r))
  BY <1>1, ReapFacts
<1>3. c = [due     |-> {q.m_slots[i].env : i \in D},
           manager |-> [q EXCEPT !.m_slots = f, !.m_last_collect_us = now,
                                 !.retries_sent = @ + n]]
  BY DEF collect_due, now
<1>4. D \subseteq Due(q, now) /\ D \subseteq Active(q)
  BY DEF FirstN, Due
<1> HIDE DEF q, D
<1>5. q \in Manager /\ Active(q) \subseteq Active(r)
  BY <1>2 DEF Without
<1>6. n \in Nat
  BY <1>4, <1>5, SlotFacts, IndexFacts
<1>7. ASSUME NEW i \in Active(q)
      PROVE  q.m_slots[i] \in Busy /\ Retried(q.m_slots[i], now) \in Busy
  <2>1. q.m_slots[i] \in Busy /\ q.m_slots[i] = r.m_slots[i] /\ i \in Active(r)
    BY <1>2, <1>5, SlotFacts DEF Without
  <2>2. advance_backoff(q.m_slots[i].backoff_ms) \in Nat
    BY <2>1
  <2>3. QED
    BY <1>1, <2>1, <2>2, RetriedFacts
<1>8. f \in [RetryIndex -> RetrySlot]
  <2>1. Busy \subseteq RetrySlot /\ q.m_slots \in [RetryIndex -> RetrySlot]
    BY <1>5 DEF Busy, RetrySlot, Manager
  <2>2. QED
    BY <1>4, <1>7, <2>1
<1> DEFINE m == c.manager
<1>9. m = [q EXCEPT !.m_slots = f, !.m_last_collect_us = now,
                    !.retries_sent = @ + n]
  BY <1>3
<1> HIDE DEF c, n
<1>10. /\ m \in Manager /\ m.m_slots = f /\ m.m_count = q.m_count
       /\ m.m_last_collect_us = now
  <2> DEFINE u == q.retries_sent + n
  <2> HIDE DEF f, m
  <2>1. u \in Nat
    BY <1>5, <1>6 DEF Manager
  <2>2. m = [q EXCEPT !.m_slots = f, !.m_last_collect_us = now,
                      !.retries_sent = u]
    BY <1>9
  <2> HIDE DEF u
  <2>3. m \in Manager
    BY <1>1, <1>5, <1>8, <2>1, <2>2 DEF Manager
  <2>4. QED
    BY <1>5, <2>2, <2>3 DEF Manager
<1>11. ASSUME NEW i \in Active(q)
       PROVE  m.m_slots[i] = IF i \in D THEN Retried(q.m_slots[i], now)
                                        ELSE q.m_slots[i]
  BY <1>5, <1>10, SlotFacts
<1>12. Active(m) = Active(q)
  <2>1. ASSUME NEW i \in RetryIndex
        PROVE  i \in Active(m) <=> i \in Active(q)
    <3>1. CASE i \in Active(q)
      <4>1. m.m_slots[i] \in Busy
        BY <1>7, <1>11, <3>1
      <4>2. QED
        BY <3>1, <4>1 DEF Active, Busy
    <3>2. CASE i \notin Active(q)
      <4>1. m.m_slots[i] = IdleSlot
        BY <1>4, <1>5, <1>10, <3>2, SlotFacts
      <4>2. QED
        BY <3>2, <4>1 DEF Active, IdleSlot
    <3>3. QED
      BY <3>1, <3>2
  <2>2. Active(m) \subseteq RetryIndex /\ Active(q) \subseteq RetryIndex
    BY DEF Active
  <2>3. QED
    BY <2>1, <2>2
<1>13. c.due = {q.m_slots[i].env : i \in D}
  BY <1>3
<1>14. Collected(c, q, D, now)
  BY <1>10, <1>11, <1>12, <1>13 DEF Collected
<1>15. QED
  BY <1>1, <1>4, <1>14 DEF c, q, D, now

-----------------------------------------------------------------------------
\* An empty table satisfies the invariant.
LEMMA InitGood == Init => IInv
<1> SUFFICES ASSUME Init PROVE IInv
  OBVIOUS
<1>1. init.m_slots = [i \in RetryIndex |-> IdleSlot] /\ init.m_count = 0
  BY DEF init
<1>2. Active(init) = {}
  <2>1. IdleSlot.active = FALSE
    BY DEF IdleSlot
  <2>2. QED
    BY <1>1, <2>1 DEF Active
<1>3. init \in Manager
  <2>1. [i \in RetryIndex |-> IdleSlot] \in [RetryIndex -> RetrySlot]
    BY DEF RetrySlot
  <2>2. 0 \in 0 .. ACK_TRACKER_CAPACITY
    BY RetryAssumption
  <2>3. QED
    BY <2>1, <2>2 DEF init, Manager
<1>4. Good(init)
  <2>1. Cardinality({}) = 0
    BY FS_EmptySet
  <2>2. init.m_count = Cardinality(Active(init))
    BY <1>1, <1>2, <2>1, Zenon
  <2>3. QED
    BY <1>2, <1>3, <2>2 DEF Good
<1>5. \A m \in Message : attempts[m] = <<>>
  BY DEF Init
<1>6. \A m \in Message : Spaced(m, attempts[m])
  <2> SUFFICES ASSUME NEW m \in Message, NEW s, s = <<>> PROVE Spaced(m, s)
    BY <1>5
  <2>1. Len(s) = 0 /\ MaxRetries \in Nat
    BY RetrySpecAssumption
  <2>2. QED
    BY <2>1 DEF Spaced
<1>7. attempts \in [Message -> Seq(Nat)]
  BY DEF Init
<1>8. QED
  BY <1>2, <1>3, <1>4, <1>5, <1>6, <1>7 DEF Init, IInv, TypeOK, EnvsOf

\* Ending the entries S for good, as an ACK or a cancellation does.
LEMMA StopStep ==
  ASSUME IInv, NEW S \in SUBSET Active(manager),
         Without(manager', manager, S),
         stopped' = stopped \union EnvsOf(S),
         UNCHANGED <<clock, scheduled, attempts>>
  PROVE  IInv'
<1>1. Good(manager')
  BY WithoutGood DEF IInv
<1>2. /\ manager' \in Manager
      /\ Active(manager') = Active(manager) \ S
      /\ \A i \in Active(manager') : manager'.m_slots[i] = manager.m_slots[i]
  BY DEF Without
<1>3. EnvsOf(Active(manager)) \subseteq scheduled \ stopped /\ stopped \subseteq scheduled
  BY DEF IInv
<1>4. EnvsOf(S) \subseteq scheduled
  BY <1>3 DEF EnvsOf
<1>5. stopped' \subseteq scheduled' /\ stopped' \in SUBSET Message
  BY <1>3, <1>4 DEF IInv, TypeOK
<1>6. ASSUME NEW i \in Active(manager')
      PROVE  manager'.m_slots[i].env \in scheduled' \ stopped'
  <2>1. i \in Active(manager) /\ i \notin S /\ manager'.m_slots[i] = manager.m_slots[i]
    BY <1>2
  <2>2. manager.m_slots[i].env \in scheduled \ stopped
    BY <1>3, <2>1 DEF EnvsOf
  <2>3. ASSUME NEW j \in S PROVE manager.m_slots[j].env # manager.m_slots[i].env
    BY <2>1 DEF IInv, Good
  <2>4. QED
    BY <2>1, <2>2, <2>3 DEF EnvsOf
<1>7. \A i \in Active(manager') :
        Logged(manager'.m_slots[i], attempts'[manager'.m_slots[i].env])
  BY <1>2 DEF IInv
<1>8. (EnvsOf(Active(manager)) \subseteq scheduled \ stopped)'
  BY <1>6 DEF EnvsOf
<1>9. TypeOK'
  BY <1>2, <1>5 DEF IInv, TypeOK
<1>10. /\ \A m \in Message \ scheduled' : attempts'[m] = <<>>
       /\ \A m \in Message : Spaced(m, attempts'[m])
  BY DEF IInv
<1>11. QED
  BY <1>1, <1>5, <1>7, <1>8, <1>9, <1>10 DEF IInv

\* schedule() puts a message never scheduled before into an idle entry.
LEMMA ScheduleStep ==
  ASSUME IInv, NEW m \in Message, NEW b \in InitialBackoff, Schedule(m, b)
  PROVE  IInv'
<1> DEFINE r == schedule(manager, m, MaxRetries, b, clock)
<1>1. /\ manager' = r.manager
      /\ scheduled' = IF r.res = "OK" THEN scheduled \union {m} ELSE scheduled
      /\ clock' = clock /\ stopped' = stopped /\ attempts' = attempts
      /\ \A o \in scheduled : o.message_id # m.message_id
  BY DEF Schedule
<1>2. CASE Active(manager) = RetryIndex
  <2>1. manager' = manager /\ scheduled' = scheduled
    BY <1>1, <1>2 DEF schedule
  <2>2. QED
    BY <1>1, <2>1 DEF IInv, TypeOK, EnvsOf
<1>3. CASE Active(manager) # RetryIndex
  <2> DEFINE i == Min(RetryIndex \ Active(manager))
             s == [active        |-> TRUE,
                   env           |-> m,
                   next_retry_us |-> clock,
                   expiry_us     |-> m.expiry_time_us,
                   retry_count   |-> 0,
                   max_retries   |-> MaxRetries,
                   backoff_ms    |-> b]
  <2>1. manager \in Manager /\ clock \in Nat /\ Active(manager) \in SUBSET RetryIndex
    BY SlotFacts DEF IInv, TypeOK
  <2>2. i \in RetryIndex /\ i \notin Active(manager)
    <3>1. RetryIndex \ Active(manager) # {} /\ RetryIndex \ Active(manager) \subseteq Nat
      BY <1>3, <2>1, IndexFacts
    <3>2. QED
      BY <3>1, MinIsLeast
  <2>3. /\ manager' = [manager EXCEPT !.m_slots[i] = s, !.m_count = @ + 1]
        /\ scheduled' = scheduled \union {m}
    BY <1>1, <1>3 DEF schedule
  <2>4. m \in Envelope /\ m.expiry_time_us \in Nat /\ MaxRetries \in Nat /\ b \in Nat
    BY RetrySpecAssumption, RetryAssumption DEF Envelope
  <2>5. s \in Busy /\ Busy \subseteq RetrySlot
    BY <2>1, <2>4 DEF Busy, RetrySlot
  <2>6. /\ s.env = m /\ s.expiry_us = m.expiry_time_us /\ s.max_retries = MaxRetries
        /\ s.retry_count = 0 /\ s.active = TRUE
    OBVIOUS
  <2> HIDE DEF i, s
  <2>7. /\ manager'.m_slots = [manager.m_slots EXCEPT ![i] = s]
        /\ manager'.m_count = manager.m_count + 1
    BY <2>1, <2>3 DEF Manager
  <2>8. /\ manager'.m_slots \in [RetryIndex -> RetrySlot]
        /\ manager'.m_slots[i] = s
        /\ \A j \in RetryIndex \ {i} : manager'.m_slots[j] = manager.m_slots[j]
    BY <2>1, <2>2, <2>5, <2>7 DEF Manager
  <2>9. Active(manager') = Active(manager) \union {i}
    <3>1. \A j \in RetryIndex \ {i} :
            manager'.m_slots[j].active = manager.m_slots[j].active
      BY <2>8
    <3>2. manager'.m_slots[i].active = TRUE
      BY <2>6, <2>8
    <3>3. QED
      BY <2>2, <3>1, <3>2 DEF Active
  <2>10. manager'.m_count = Cardinality(Active(manager'))
    <3>1. IsFiniteSet(Active(manager))
      BY <2>1, IndexFacts
    <3>2. Cardinality(Active(manager) \union {i}) = Cardinality(Active(manager)) + 1
      BY <2>2, <3>1, FS_AddElement
    <3>3. QED
      BY <2>7, <2>9, <3>2 DEF IInv, Good
  <2>11. manager' \in Manager
    <3>1. manager'.m_count \in 0 .. ACK_TRACKER_CAPACITY
      BY <2>1, <2>2, <2>9, <2>10, IndexFacts
    <3> DEFINE f == manager'.m_slots
               n == manager'.m_count
    <3>2. manager' = [manager EXCEPT !.m_slots = f, !.m_count = n]
      BY <2>1, <2>3, <2>7 DEF Manager
    <3> HIDE DEF f, n
    <3>3. [manager EXCEPT !.m_slots = f, !.m_count = n] \in Manager
      BY <2>1, <2>8, <3>1 DEF Manager, f, n
    <3>4. QED
      BY <3>2, <3>3
  <2>12. \A j \in Active(manager) : manager'.m_slots[j] = manager.m_slots[j] /\ j # i
    BY <2>1, <2>2, <2>8
  <2>13. /\ \A j \in Active(manager) : manager.m_slots[j].env \in scheduled \ stopped
         /\ stopped \subseteq scheduled /\ scheduled \subseteq Message
    BY DEF IInv, EnvsOf, TypeOK
  <2>14. m \notin scheduled /\ m \notin stopped
    BY <1>1, <2>13
  <2>15. \A j \in Active(manager) : manager.m_slots[j].env.message_id # m.message_id
    BY <1>1, <2>13
  <2>16. Good(manager')
    <3>1. ASSUME NEW j \in Active(manager')
          PROVE  /\ manager'.m_slots[j].env \in Message
                 /\ manager'.m_slots[j].expiry_us = manager'.m_slots[j].env.expiry_time_us
                 /\ manager'.m_slots[j].max_retries = MaxRetries
      BY <2>6, <2>8, <2>9, <2>12 DEF IInv, Good
    <3>2. ASSUME NEW j \in Active(manager'), NEW k \in Active(manager'),
                 manager'.m_slots[j].env.message_id = manager'.m_slots[k].env.message_id
          PROVE  j = k
      BY <2>6, <2>8, <2>9, <2>12, <2>15, <3>2 DEF IInv, Good
    <3>3. QED
      BY <2>10, <2>11, <3>1, <3>2 DEF Good
  <2>17. ASSUME NEW j \in Active(manager')
         PROVE  /\ Logged(manager'.m_slots[j], attempts'[manager'.m_slots[j].env])
                /\ manager'.m_slots[j].env \in scheduled' \ stopped'
    <3>1. CASE j = i
      <4>1. attempts[m] = <<>> /\ Len(<<>>) = 0
        BY <2>14 DEF IInv
      <4>2. Logged(s, attempts[m])
        BY <2>6, <4>1 DEF Logged
      <4>3. QED
        BY <1>1, <2>3, <2>6, <2>8, <2>14, <3>1, <4>2
    <3>2. CASE j \in Active(manager)
      BY <1>1, <2>3, <2>12, <2>13, <3>2 DEF IInv
    <3>3. QED
      BY <2>9, <3>1, <3>2
  <2>18. (EnvsOf(Active(manager)) \subseteq scheduled \ stopped)'
    BY <2>17 DEF EnvsOf
  <2>19. TypeOK'
    BY <1>1, <2>3, <2>11 DEF IInv, TypeOK
  <2>20. stopped' \subseteq scheduled'
    BY <1>1, <2>3, <2>13
  <2>21. /\ \A o \in Message \ scheduled' : attempts'[o] = <<>>
         /\ \A o \in Message : Spaced(o, attempts'[o])
    BY <1>1, <2>3 DEF IInv
  <2>22. QED
    BY <2>16, <2>17, <2>18, <2>19, <2>20, <2>21 DEF IInv
<1>4. QED
  BY <1>2, <1>3


(***************************************************************************)
(* Handing out a due message once more at now: its log stays spaced, and   *)
(* the entry agrees with it again.                                         *)
(***************************************************************************)
LEMMA HandOut ==
  ASSUME NEW m \in Message, NEW s \in Busy, NEW a \in Seq(Nat), NEW now \in Nat,
         Logged(s, a), Spaced(m, a),
         ~timestamp_expired(m.expiry_time_us, now),
         s.retry_count < MaxRetries, s.next_retry_us <= now
  PROVE  /\ Spaced(m, Append(a, now))
         /\ Logged(Retried(s, now), Append(a, now))
<1> DEFINE n == Len(a)
           t == Append(a, now)
           b == advance_backoff(s.backoff_ms)
<1>1. /\ n \in Nat /\ t \in Seq(Nat) /\ Len(t) = n + 1 /\ t[n + 1] = now
      /\ \A k \in 1 .. n : t[k] = a[k] /\ a[k] \in Nat
  OBVIOUS
<1>2. /\ s.retry_count = n /\ n < MaxRetries /\ MaxRetries \in Nat
      /\ s.backoff_ms \in Nat /\ s.next_retry_us \in Nat
      /\ n > 0 => s.next_retry_us = a[n] + s.backoff_ms /\ LongEnough(n, s.backoff_ms)
  BY RetrySpecAssumption DEF Logged, Busy
<1>3. b \in Nat /\ LongEnough(n + 1, b)
  BY <1>1, <1>2, BackoffGrows
<1>4. /\ Retried(s, now).retry_count = n + 1
      /\ Retried(s, now).backoff_ms = b
      /\ Retried(s, now).next_retry_us = now + b
  <2>1. s.retry_count + 1 = n + 1
    BY <1>2
  <2> HIDE DEF n
  <2>2. QED
    BY <1>3, <2>1, RetriedFacts
<1> HIDE DEF n, t, b
<1>5. Logged(Retried(s, now), t)
  BY <1>1, <1>3, <1>4 DEF Logged
<1>6. ASSUME NEW k \in 1 .. (n + 1) PROVE ~timestamp_expired(m.expiry_time_us, t[k])
  <2>1. CASE k = n + 1
    BY <1>1, <2>1
  <2>2. CASE k \in 1 .. n
    BY <1>1, <2>2 DEF Spaced, n
  <2>3. QED
    BY <1>1, <2>1, <2>2
<1>7. ASSUME NEW k \in 1 .. n PROVE LongEnough(k, t[k + 1] - t[k])
  <2>1. CASE k = n
    <3>1. n > 0 /\ a[n] \in Nat /\ t[k] = a[n] /\ t[k + 1] = now
      BY <1>1, <2>1
    <3>2. s.next_retry_us = a[n] + s.backoff_ms /\ LongEnough(n, s.backoff_ms)
      BY <1>2, <3>1
    <3> DEFINE gap == t[k + 1] - t[k]
               p   == 2 ^ (n - 1)
    <3>3. gap \in Nat /\ gap >= s.backoff_ms
      BY <1>2, <3>1, <3>2
    <3>4. p \in Nat
      <4> DEFINE j == n - 1
      <4>1. j \in Nat
        BY <1>1, <3>1
      <4> HIDE DEF j
      <4>2. 2 ^ j \in Nat
        BY <4>1, PowerDoubles
      <4>3. QED
        BY <4>2 DEF j
    <3>5. s.backoff_ms >= p \/ s.backoff_ms >= BACKOFF_CAP
      BY <3>2 DEF LongEnough
    <3> HIDE DEF gap, p
    <3>6. gap >= p \/ gap >= BACKOFF_CAP
      BY <1>2, <3>3, <3>4, <3>5, RetryAssumption
    <3>7. LongEnough(n, gap)
      BY <3>6 DEF LongEnough, p
    <3>8. QED
      BY <2>1, <3>7 DEF gap
  <2>2. CASE k \in 1 .. n - 1
    <3>1. t[k] = a[k] /\ t[k + 1] = a[k + 1]
      BY <1>1, <2>2
    <3>2. LongEnough(k, a[k + 1] - a[k])
      BY <2>2 DEF Spaced, n
    <3>3. QED
      BY <3>1, <3>2
  <2>3. QED
    BY <1>1, <2>1, <2>2
<1>8. Spaced(m, t)
  <2>1. Len(t) <= MaxRetries /\ Len(t) = n + 1 /\ Len(t) - 1 = n
    BY <1>1, <1>2
  <2>2. QED
    BY <1>6, <1>7, <2>1 DEF Spaced
<1>9. QED
  BY <1>5, <1>8 DEF t

\* collect_due() hands out what is due, once each, and notes when.
LEMMA CollectStep ==
  ASSUME IInv, NEW at \in 1 .. clock, NEW cap, CollectDue(at, cap)
  PROVE  IInv' /\ \A m \in stopped : attempts'[m] = attempts[m]
<1> DEFINE now == CollectTime(manager, at)
           q   == reap_terminated_slots(manager, now)
           D   == FirstN(Due(q, now), cap)
           c   == collect_due(manager, at, cap)
<1>1. at \in Nat /\ Good(manager) /\ manager \in Manager
  BY DEF IInv, TypeOK
<1>2. ASSUME NEW i \in Active(manager)
      PROVE  /\ manager.m_slots[i] \in Busy
             /\ advance_backoff(manager.m_slots[i].backoff_ms) \in Nat
             /\ manager.m_slots[i].env \in Message
             /\ manager.m_slots[i].env \in scheduled \ stopped
             /\ Logged(manager.m_slots[i], attempts[manager.m_slots[i].env])
  <2>1. manager.m_slots[i] \in Busy /\ manager.m_slots[i].backoff_ms \in Nat
    BY <1>1, SlotFacts DEF Busy
  <2>2. advance_backoff(manager.m_slots[i].backoff_ms) \in Nat
    BY <2>1, BackoffGrows
  <2>3. QED
    BY <2>1, <2>2 DEF IInv, Good, EnvsOf
<1>3. now \in Nat /\ D \subseteq Due(q, now) /\ Collected(c, q, D, now)
  BY <1>1, <1>2, CollectFacts
<1>4. Without(q, manager, Expired(manager, now) \union Exhausted(manager))
  BY <1>1, <1>3, ReapFacts
<1>5. /\ manager' = c.manager
      /\ attempts' = [m \in Message |-> IF m \in c.due
                                          THEN Append(attempts[m], c.manager.m_last_collect_us)
                                          ELSE attempts[m]]
      /\ clock' = clock /\ scheduled' = scheduled /\ stopped' = stopped
  BY DEF CollectDue
<1> HIDE DEF now, q, D, c
<1>6. /\ Good(q) /\ q \in Manager
      /\ Active(q) \subseteq Active(manager)
      /\ Active(q) \intersect (Expired(manager, now) \union Exhausted(manager)) = {}
      /\ \A i \in Active(q) : q.m_slots[i] = manager.m_slots[i]
  BY <1>1, <1>4, WithoutGood DEF Without
<1>7. /\ c.due = {q.m_slots[i].env : i \in D} /\ D \subseteq Active(q)
      /\ manager' \in Manager /\ manager'.m_count = q.m_count
      /\ Active(manager') = Active(q)
      /\ \A i \in Active(q) : manager'.m_slots[i] = IF i \in D
                                                      THEN Retried(q.m_slots[i], now)
                                                      ELSE q.m_slots[i]
      /\ \A m \in Message : attempts'[m] = IF m \in c.due THEN Append(attempts[m], now)
                                                           ELSE attempts[m]
  BY <1>3, <1>5 DEF Collected, Due
<1>8. ASSUME NEW i \in Active(q)
      PROVE  /\ i \in Active(manager)
             /\ q.m_slots[i] = manager.m_slots[i]
             /\ manager'.m_slots[i].env = q.m_slots[i].env
             /\ manager'.m_slots[i].expiry_us = q.m_slots[i].expiry_us
             /\ manager'.m_slots[i].max_retries = q.m_slots[i].max_retries
             /\ q.m_slots[i].env \in c.due <=> i \in D
  <2>1. i \in Active(manager) /\ q.m_slots[i] = manager.m_slots[i]
    BY <1>6
  <2>2. /\ manager'.m_slots[i].env = q.m_slots[i].env
        /\ manager'.m_slots[i].expiry_us = q.m_slots[i].expiry_us
        /\ manager'.m_slots[i].max_retries = q.m_slots[i].max_retries
    <3>1. CASE i \in D
      <4>1. manager'.m_slots[i] = Retried(q.m_slots[i], now)
        BY <1>7, <3>1
      <4>2. q.m_slots[i] \in Busy /\ advance_backoff(q.m_slots[i].backoff_ms) \in Nat
        BY <1>2, <2>1
      <4>3. QED
        BY <1>3, <4>1, <4>2, RetriedFacts
    <3>2. CASE i \notin D
      BY <1>7, <3>2
    <3>3. QED
      BY <3>1, <3>2
  <2>3. q.m_slots[i].env \in c.due <=> i \in D
    <3>1. \A j \in D : q.m_slots[j].env = q.m_slots[i].env => j = i
      BY <1>6, <1>7 DEF Good
    <3>2. QED
      BY <1>7, <3>1
  <2>4. QED
    BY <2>1, <2>2, <2>3
<1>9. Good(manager')
  <2>1. manager'.m_count = Cardinality(Active(manager'))
    BY <1>6, <1>7 DEF Good
  <2>2. ASSUME NEW i \in Active(manager')
        PROVE  /\ manager'.m_slots[i].env \in Message
               /\ manager'.m_slots[i].expiry_us = manager'.m_slots[i].env.expiry_time_us
               /\ manager'.m_slots[i].max_retries = MaxRetries
    BY <1>6, <1>7, <1>8 DEF Good
  <2>3. ASSUME NEW i \in Active(manager'), NEW j \in Active(manager'),
               manager'.m_slots[i].env.message_id = manager'.m_slots[j].env.message_id
        PROVE  i = j
    BY <1>6, <1>7, <1>8, <2>3 DEF Good
  <2>4. QED
    BY <1>7, <2>1, <2>2, <2>3 DEF Good
<1>10. ASSUME NEW i \in D
       PROVE  LET m == q.m_slots[i].env
              IN  /\ Spaced(m, Append(attempts[m], now))
                  /\ Logged(Retried(q.m_slots[i], now), Append(attempts[m], now))
  <2> DEFINE s == q.m_slots[i]
             m == s.env
  <2>1. /\ i \in Active(q) /\ i \in Active(manager) /\ s = manager.m_slots[i]
        /\ i \notin Expired(manager, now) /\ i \notin Exhausted(manager)
    BY <1>6, <1>7, <1>8
  <2>2. s \in Busy /\ m \in Message /\ Logged(s, attempts[m])
    BY <1>2, <2>1
  <2>3. /\ ~timestamp_expired(m.expiry_time_us, now)
        /\ s.next_retry_us <= now
        /\ ~(s.retry_count >= MaxRetries)
    BY <1>1, <1>3, <2>1 DEF Good, Expired, Exhausted, Due
  <2>4. s.retry_count < MaxRetries
    <3>1. s.retry_count \in Nat
      BY <2>2 DEF Busy
    <3>2. QED
      BY <2>3, <3>1, RetrySpecAssumption
  <2>5. attempts[m] \in Seq(Nat) /\ Spaced(m, attempts[m])
    BY <2>2 DEF IInv, TypeOK
  <2> HIDE DEF s
  <2>6. QED
    BY <1>3, <2>2, <2>3, <2>4, <2>5, HandOut DEF s
<1>11. ASSUME NEW i \in Active(manager')
       PROVE  /\ Logged(manager'.m_slots[i], attempts'[manager'.m_slots[i].env])
              /\ manager'.m_slots[i].env \in scheduled' \ stopped'
  <2>1. i \in Active(q) /\ q.m_slots[i].env \in Message
    BY <1>2, <1>7, <1>8
  <2>2. manager'.m_slots[i].env \in scheduled' \ stopped'
    BY <1>2, <1>5, <1>8, <2>1
  <2>3. CASE i \in D
    BY <1>7, <1>8, <1>10, <2>1, <2>2, <2>3
  <2>4. CASE i \notin D
    BY <1>2, <1>7, <1>8, <2>1, <2>2, <2>4
  <2>5. QED
    BY <2>3, <2>4
<1>12. ASSUME NEW m \in Message PROVE Spaced(m, attempts'[m])
  <2>1. CASE m \in c.due
    <3>1. PICK i \in D : m = q.m_slots[i].env
      BY <1>7, <2>1
    <3>2. QED
      BY <1>7, <1>10, <2>1, <3>1
  <2>2. CASE m \notin c.due
    BY <1>7, <2>2 DEF IInv
  <2>3. QED
    BY <2>1, <2>2
<1>13. c.due \subseteq scheduled \ stopped /\ c.due \subseteq Message
  BY <1>2, <1>7, <1>8
<1>14. attempts' \in [Message -> Seq(Nat)]
  <2>1. ASSUME NEW m \in Message PROVE attempts'[m] \in Seq(Nat)
    <3>1. attempts[m] \in Seq(Nat)
      BY DEF IInv, TypeOK
    <3>2. Append(attempts[m], now) \in Seq(Nat)
      BY <1>3, <3>1
    <3>3. QED
      BY <1>7, <3>1, <3>2
  <2>2. attempts' = [m \in Message |-> attempts'[m]]
    BY <1>5
  <2>3. QED
    BY <2>1, <2>2
<1>15. TypeOK'
  BY <1>5, <1>7, <1>14 DEF IInv, TypeOK
<1>16. (EnvsOf(Active(manager)) \subseteq scheduled \ stopped)'
  BY <1>11 DEF EnvsOf
<1>17. \A m \in Message \ scheduled' : attempts'[m] = <<>>
  BY <1>5, <1>7, <1>13 DEF IInv
<1>18. \A m \in stopped : attempts'[m] = attempts[m]
  BY <1>7, <1>13 DEF IInv, TypeOK
<1>19. stopped' \subseteq scheduled'
  BY <1>5 DEF IInv
<1>20. QED
  BY <1>9, <1>11, <1>12, <1>15, <1>16, <1>17, <1>18, <1>19 DEF IInv


\* Every step keeps the invariant and is silent about what was stopped.
LEMMA StepGood ==
  ASSUME IInv, [Next]_vars
  PROVE  IInv' /\ \A m \in stopped : attempts'[m] = attempts[m]
<1>1. CASE UNCHANGED vars
  BY <1>1 DEF vars, IInv, TypeOK, EnvsOf
<1>2. ASSUME NEW m \in Message, NEW b \in InitialBackoff, Schedule(m, b)
      PROVE  IInv' /\ attempts' = attempts
  BY <1>2, ScheduleStep DEF Schedule
<1>3. ASSUME NEW src \in Node, NEW id \in MessageId, OnAck(src, id) \/ Cancel(src, id)
      PROVE  IInv' /\ attempts' = attempts
  <2> DEFINE S == ActiveFor(manager, src, id)
  <2>1. Good(manager) /\ S \in SUBSET Active(manager)
    BY DEF IInv, ActiveFor
  <2>2. /\ stopped' = stopped \union EnvsOf(S)
        /\ UNCHANGED <<clock, scheduled, attempts>>
        /\ \/ manager' = on_ack(manager, src, id).manager
           \/ manager' = cancel(manager, src, id).manager
    BY <1>3 DEF OnAck, Cancel
  <2>3. Without(manager', manager, S)
    BY <2>1, <2>2, StopFacts
  <2> HIDE DEF S
  <2>4. QED
    BY <2>1, <2>2, <2>3, StopStep
<1>4. ASSUME NEW dst \in Node, CancelPeer(dst)
      PROVE  IInv' /\ attempts' = attempts
  <2> DEFINE S == ActiveTo(manager, dst)
  <2>1. Good(manager) /\ S \in SUBSET Active(manager)
    BY DEF IInv, ActiveTo
  <2>2. /\ stopped' = stopped \union EnvsOf(S)
        /\ UNCHANGED <<clock, scheduled, attempts>>
        /\ manager' = cancel_peer(manager, dst).manager
    BY <1>4 DEF CancelPeer
  <2>3. Without(manager', manager, S)
    BY <2>1, <2>2, StopFacts
  <2> HIDE DEF S
  <2>4. QED
    BY <2>1, <2>2, <2>3, StopStep
<1>5. ASSUME NEW now \in 1 .. clock, NEW cap \in 1 .. ACK_TRACKER_CAPACITY,
             CollectDue(now, cap)
      PROVE  IInv' /\ \A m \in stopped : attempts'[m] = attempts[m]
  BY <1>5, CollectStep
<1>6. CASE Tick
  <2>1. clock' = clock + 1 /\ UNCHANGED <<manager, scheduled, stopped, attempts>>
    BY <1>6 DEF Tick
  <2>2. QED
    BY <2>1 DEF IInv, TypeOK, EnvsOf
<1>7. QED
  BY <1>1, <1>2, <1>3, <1>4, <1>5, <1>6 DEF Next
-----------------------------------------------------------------------------
(***************************************************************************)
(* After any sequence of schedule(), on_ack(), cancel(), cancel_peer() and *)
(* collect_due() calls the table is well formed, m_count is the number of  *)
(* entries in use, no message has two of them, and every entry agrees with *)
(* the hand-outs of its message so far.                                    *)
(***************************************************************************)
THEOREM Invariance == Spec => []IInv
<1>1. IInv /\ [Next]_vars => IInv'
  BY StepGood
<1>2. QED
  BY <1>1, InitGood, PTL DEF Spec

(***************************************************************************)
(* No retry storm, for every limit, ceiling and configured backoff: a      *)
(* message is handed out at most max_retries times, never expired, with    *)
(* pauses that double up to the ceiling, whatever the caller's buffers and *)
(* timestamps are.                                                         *)
(***************************************************************************)
THEOREM NoRetryStorm == Spec => []RetriesBoundedAndSpaced
<1>1. IInv => RetriesBoundedAndSpaced
  BY DEF IInv, Spaced, LongEnough, RetriesBoundedAndSpaced
<1>2. QED
  BY <1>1, Invariance, PTL

(***************************************************************************)
(* A message that on_ack(), cancel() or cancel_peer() has stopped is never *)
(* handed out again: its only entry is gone, and no later schedule() can   *)
(* bring it back.                                                          *)
(***************************************************************************)
THEOREM SilentOnceStopped == Spec => StoppedMeansSilent
<1> DEFINE A == \A m \in stopped : attempts'[m] = attempts[m]
<1>1. IInv /\ [Next]_vars => [A]_vars
  BY StepGood
<1>2. Spec => [][A]_vars
  BY <1>1, Invariance, PTL DEF Spec
<1>3. QED
  BY <1>2 DEF StoppedMeansSilent
===============================================================================
