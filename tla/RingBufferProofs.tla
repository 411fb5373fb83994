--------------------------- MODULE RingBufferProofs ---------------------------
(***************************************************************************)
(* The ring buffer is free of data races on its slots and implements the   *)
(* bounded queue, for every capacity, every counter width the capacity     *)
(* divides, and every value an acquire load may return.                    *)
(***************************************************************************)
EXTENDS RingBuffer, Integers, SequenceTheorems, TLAPS

-----------------------------------------------------------------------------
(* Arithmetic modulo a number. *)

\* A natural number is its quotient and its remainder.
LEMMA QuotientRemainder ==
  ASSUME NEW C \in Nat \ {0}, NEW x \in Nat
  PROVE  x = C * (x \div C) + (x % C) /\ x \div C \in Nat /\ x % C \in 0 .. C - 1
BY SMT

\* No multiple of C but 0 lies strictly between -C and C.
LEMMA NoSmallMultiple ==
  ASSUME NEW C \in Nat \ {0}, NEW k \in Int
  PROVE  /\ C * k \in Int
         /\ k >= 1 => C * k >= C
         /\ k <= -1 => C * k <= -C
         /\ k = 0 => C * k = 0
BY SMT

\* The remainder is unique.
LEMMA RemainderUnique ==
  ASSUME NEW C \in Nat \ {0}, NEW x \in Nat, NEW q \in Nat, NEW r \in 0 .. C - 1,
         x = C * q + r
  PROVE  x % C = r
<1> DEFINE p == x \div C
           s == x % C
           k == q - p
<1>1. x = C * p + s /\ p \in Nat /\ s \in 0 .. C - 1
  BY QuotientRemainder
<1> HIDE DEF p, s
<1>2. k \in Int /\ C * q - C * p = s - r /\ C * q \in Int /\ C * p \in Int
  BY <1>1, SMT
<1>3. C * k = C * q - C * p
  BY <1>1, SMT
<1> HIDE DEF k
<1>4. k = 0
  BY <1>1, <1>2, <1>3, NoSmallMultiple, SMT
<1> USE DEF k
<1>5. QED
  BY <1>1, <1>2, <1>3, <1>4, NoSmallMultiple, SMT DEF s

\* The remainder of a number below twice the divisor.
LEMMA RemainderOnce ==
  ASSUME NEW R \in Nat, NEW x \in Nat, x < R + R
  PROVE  x % R = IF x < R THEN x ELSE x - R
BY SMT

\* Adding a multiple of the divisor does not change the remainder.
LEMMA RemainderPeriodic ==
  ASSUME NEW C \in Nat \ {0}, NEW R \in Nat, R % C = 0, NEW x \in Nat
  PROVE  (x + R) % C = x % C
<1> DEFINE q == x \div C
           k == R \div C
           r == x % C
<1>1. x = C * q + r /\ r \in 0 .. C - 1 /\ q \in Nat
  BY QuotientRemainder
<1>2. R = C * k /\ k \in Nat
  BY QuotientRemainder, SMT
<1> HIDE DEF q, k, r
<1>3. x + R = C * (q + k) + r /\ q + k \in Nat /\ x + R \in Nat
  BY <1>1, <1>2, SMT
<1>4. QED
  BY <1>1, <1>3, RemainderUnique DEF r

\* Adding less than the divisor does.
LEMMA RemainderDiffers ==
  ASSUME NEW C \in Nat \ {0}, NEW x \in Nat, NEW d \in Nat, 0 < d, d < C
  PROVE  (x + d) % C # x % C
<1> DEFINE y == x + d
           q == x \div C
           r == x % C
           p == y \div C
           s == y % C
           k == p - q
<1> SUFFICES ASSUME r = s PROVE FALSE
  OBVIOUS
<1>1. /\ x = C * q + r /\ q \in Nat /\ r \in 0 .. C - 1
      /\ y = C * p + s /\ p \in Nat /\ y \in Nat
  <2>1. y \in Nat
    OBVIOUS
  <2> HIDE DEF y
  <2>2. QED
    BY <2>1, QuotientRemainder
<1> HIDE DEF q, r, p, s
<1>2. C * p - C * q = d /\ C * p \in Int /\ C * q \in Int
  BY <1>1, SMT
<1>3. C * k = d /\ k \in Int
  BY <1>1, <1>2, SMT
<1> HIDE DEF k
<1>4. QED
  BY <1>3, NoSmallMultiple, SMT

-----------------------------------------------------------------------------
(* The counters and the slots. *)

\* The unsigned difference of two counters, by whether the later one has wrapped.
LEMMA DistanceCases ==
  ASSUME NEW a \in Counters, NEW b \in Counters
  PROVE  /\ Distance(a, b) = IF a <= b THEN b - a ELSE b + CounterRange - a
         /\ Distance(a, b) \in 0 .. CounterRange - 1
<1> DEFINE x == b + CounterRange - a
<1>1. x \in Nat /\ x < CounterRange + CounterRange /\ CounterRange \in Nat
  BY RingAssumption DEF Counters
<1>2. x % CounterRange = IF x < CounterRange THEN x ELSE x - CounterRange
  BY <1>1, RemainderOnce
<1>3. QED
  BY <1>2, RingAssumption DEF Distance, Counters

\* A counter after its increment.
LEMMA IncrementCases ==
  ASSUME NEW a \in Counters
  PROVE  /\ Increment(a) = IF a = CounterRange - 1 THEN 0 ELSE a + 1
         /\ Increment(a) \in Counters
<1> DEFINE x == a + 1
<1>1. x \in Nat /\ x < CounterRange + CounterRange /\ CounterRange \in Nat
  BY RingAssumption DEF Counters
<1>2. x % CounterRange = IF x < CounterRange THEN x ELSE x - CounterRange
  <2> HIDE DEF x
  <2> QED
    BY <1>1, RemainderOnce
<1>3. QED
  BY <1>2, RingAssumption DEF Increment, Counters

\* A slot index is an index of m_buf.
LEMMA SlotType ==
  ASSUME NEW a \in Nat
  PROVE  Slot(a) \in Slots
BY RingAssumption, QuotientRemainder DEF Slot, Slots

\* The wrap-around of a counter does not move its slot.
LEMMA SlotPeriodic ==
  ASSUME NEW a \in Nat
  PROVE  Slot(a + CounterRange) = Slot(a)
BY RingAssumption, RemainderPeriodic DEF Slot

\* Fewer than Capacity steps apart, two counters have different slots.
LEMMA SlotDiffers ==
  ASSUME NEW a \in Nat, NEW b \in Nat, a < b, b < a + Capacity
  PROVE  Slot(b) # Slot(a)
<1>1. b - a \in Nat /\ 0 < b - a /\ b - a < Capacity /\ b = a + (b - a)
  BY RingAssumption
<1>2. QED
  BY <1>1, RingAssumption, RemainderDiffers DEF Slot

\* The slot behind the last queued value is the one m_tail names.
LEMMA SlotOfTail ==
  ASSUME NEW a \in Counters, NEW b \in Counters
  PROVE  a + Distance(a, b) \in Nat /\ Slot(a + Distance(a, b)) = Slot(b)
<1> b \in Nat /\ a \in Nat /\ CounterRange \in Nat
  BY RingAssumption DEF Counters
<1>1. CASE a <= b
  <2>1. a + Distance(a, b) = b
    BY <1>1, DistanceCases
  <2>2. QED
    BY <2>1
<1>2. CASE ~(a <= b)
  <2>1. a + Distance(a, b) = b + CounterRange
    BY <1>2, DistanceCases
  <2>2. QED
    BY <2>1, SlotPeriodic
<1>3. QED
  BY <1>1, <1>2

\* The slots behind an incremented m_head are those behind m_head, from the
\* second on.
LEMMA SlotAfterIncrement ==
  ASSUME NEW a \in Counters, NEW i \in Nat
  PROVE  Slot(Increment(a) + i) = Slot(a + 1 + i)
<1> a \in Nat /\ CounterRange \in Nat
  BY RingAssumption DEF Counters
<1>1. CASE a = CounterRange - 1
  <2>1. Increment(a) + i = i /\ a + 1 + i = i + CounterRange
    BY <1>1, IncrementCases
  <2>2. QED
    BY <2>1, SlotPeriodic
<1>2. CASE a # CounterRange - 1
  BY <1>2, IncrementCases
<1>3. QED
  BY <1>1, <1>2

-----------------------------------------------------------------------------
(***************************************************************************)
(* The inductive invariant.  The four counters lie on the circle in the    *)
(* order producer.seen, head, consumer.seen, tail, and the whole arc is no *)
(* longer than the ring; a thread that has passed its check still has the  *)
(* room, or the value, it decided on.                                      *)
(***************************************************************************)
CountersInOrder ==
  /\ Distance(producer.seen, head) + Distance(head, tail) <= Capacity
  /\ Distance(head, consumer.seen) <= Distance(head, tail)
  /\ producer.step # "idle" =>
       /\ Distance(producer.seen, head) + Distance(head, tail) < Capacity
       /\ producer.value \in Values
  /\ consumer.step # "idle" => Distance(head, consumer.seen) > 0

CopiesAreCurrent ==
  /\ producer.step = "store" => buf[Slot(tail)] = producer.value
  /\ consumer.step = "store" => consumer.value = buf[Slot(head)]

IInv == TypeOK /\ CountersInOrder /\ CopiesAreCurrent

-----------------------------------------------------------------------------
(* Arcs on the circle of counter values. *)

\* The linear part of the assumption on the constants.
LEMMA Widths ==
  Capacity \in Nat /\ CounterRange \in Nat /\ 0 < Capacity /\ Capacity < CounterRange
BY RingAssumption

\* Three counters: their distances, by which of them have wrapped.
LEMMA ThreeCounters ==
  ASSUME NEW a \in Counters, NEW b \in Counters, NEW c \in Counters
  PROVE  /\ Distance(a, b) + Distance(b, c) < CounterRange =>
              Distance(a, c) = Distance(a, b) + Distance(b, c)
         /\ Distance(a, b) <= Distance(a, c) =>
              Distance(b, c) = Distance(a, c) - Distance(a, b)
<1>1. Distance(a, b) = IF a <= b THEN b - a ELSE b + CounterRange - a
  BY DistanceCases
<1>2. Distance(b, c) = IF b <= c THEN c - b ELSE c + CounterRange - b
  BY DistanceCases
<1>3. Distance(a, c) = IF a <= c THEN c - a ELSE c + CounterRange - a
  BY DistanceCases
<1>4. QED
  BY <1>1, <1>2, <1>3, Widths DEF Counters

\* Storing a counter moves it one step away from what lies behind it and one
\* step towards what lies ahead.
LEMMA DistanceAfterIncrement ==
  ASSUME NEW a \in Counters, NEW b \in Counters
  PROVE  /\ Distance(a, b) < CounterRange - 1 =>
              Distance(a, Increment(b)) = Distance(a, b) + 1
         /\ Distance(a, b) > 0 => Distance(Increment(a), b) = Distance(a, b) - 1
<1> DEFINE i == Increment(a)
           j == Increment(b)
<1>1. /\ i = IF a = CounterRange - 1 THEN 0 ELSE a + 1
      /\ i \in Counters
      /\ j = IF b = CounterRange - 1 THEN 0 ELSE b + 1
      /\ j \in Counters
  BY IncrementCases
<1> HIDE DEF i, j
<1>2. Distance(a, b) = IF a <= b THEN b - a ELSE b + CounterRange - a
  BY DistanceCases
<1>3. Distance(a, j) = IF a <= j THEN j - a ELSE j + CounterRange - a
  BY <1>1, DistanceCases
<1>4. Distance(i, b) = IF i <= b THEN b - i ELSE b + CounterRange - i
  BY <1>1, DistanceCases
<1>5. /\ Distance(a, b) < CounterRange - 1 => Distance(a, j) = Distance(a, b) + 1
      /\ Distance(a, b) > 0 => Distance(i, b) = Distance(a, b) - 1
  BY <1>1, <1>2, <1>3, <1>4, Widths DEF Counters
<1>6. QED
  BY <1>5 DEF i, j

\* An empty arc.
LEMMA DistanceZero ==
  ASSUME NEW a \in Counters
  PROVE  Distance(a, a) = 0
<1>1. Distance(a, a) = IF a <= a THEN a - a ELSE a + CounterRange - a
  BY DistanceCases
<1>2. QED
  BY <1>1, Widths DEF Counters

\* A counter a thread may load lies between the one it saw before and the
\* current one.
LEMMA LoadableSplits ==
  ASSUME NEW a \in Counters, NEW b \in Counters, NEW c \in Loadable(a, b)
  PROVE  /\ c \in Counters
         /\ Distance(c, b) = Distance(a, b) - Distance(a, c)
         /\ Distance(a, c) <= Distance(a, b)
BY ThreeCounters DEF Loadable

-----------------------------------------------------------------------------
(* The invariant is inductive. *)

\* The ring starts empty, with both threads idle.
LEMMA InitInvariant == Init => IInv
<1> SUFFICES ASSUME Init PROVE IInv
  OBVIOUS
<1>1. 0 \in Counters
  BY Widths DEF Counters
<1>2. Distance(0, 0) = 0
  BY <1>1, DistanceZero
<1>3. TypeOK
  BY <1>1 DEF Init, TypeOK
<1>4. CountersInOrder
  BY <1>2, Widths DEF Init, CountersInOrder
<1>5. CopiesAreCurrent
  BY DEF Init, CopiesAreCurrent
<1>6. QED
  BY <1>3, <1>4, <1>5 DEF IInv

\* The numbers the invariant is about.
LEMMA ArcTypes ==
  ASSUME TypeOK
  PROVE  /\ head \in Counters /\ tail \in Counters
         /\ producer.seen \in Counters /\ consumer.seen \in Counters
         /\ Distance(producer.seen, head) \in Nat
         /\ Distance(head, tail) \in Nat
         /\ Distance(head, consumer.seen) \in Nat
         /\ Slot(head) \in Slots /\ Slot(tail) \in Slots
<1>1. /\ head \in Counters /\ tail \in Counters
      /\ producer.seen \in Counters /\ consumer.seen \in Counters
  BY DEF TypeOK
<1>2. Counters \subseteq Nat
  BY DEF Counters
<1>3. Slot(head) \in Slots /\ Slot(tail) \in Slots
  BY <1>1, <1>2, SlotType
<1>4. ASSUME NEW a \in Counters, NEW b \in Counters PROVE Distance(a, b) \in Nat
  <2>1. Distance(a, b) \in 0 .. CounterRange - 1
    BY DistanceCases
  <2>2. QED
    BY <2>1, Widths
<1>5. QED
  BY <1>1, <1>3, <1>4

\* A thread that has passed its check works on a slot of its own: with room for
\* the producer and a value for the consumer, the two counters name different
\* slots.
LEMMA SlotsApart ==
  ASSUME TypeOK, 0 < Distance(head, tail), Distance(head, tail) < Capacity
  PROVE  Slot(tail) # Slot(head)
<1> DEFINE D == Distance(head, tail)
<1>1. head \in Nat /\ D \in Nat /\ head + D \in Nat
  BY ArcTypes DEF Counters
<1>2. Slot(head + D) = Slot(tail)
  BY ArcTypes, SlotOfTail
<1> HIDE DEF D
<1>3. Slot(head + D) # Slot(head)
  <2>1. head < head + D /\ head + D < head + Capacity
    BY <1>1, Widths DEF D
  <2>2. QED
    BY <1>1, <2>1, SlotDiffers
<1>4. QED
  BY <1>2, <1>3

\* Every step of either thread preserves the invariant.
LEMMA StepInvariant == IInv /\ [Next]_vars => IInv'
<1> SUFFICES ASSUME IInv, [Next]_vars PROVE IInv'
  OBVIOUS
<1> USE DEF IInv
<1>0. TypeOK /\ CountersInOrder /\ CopiesAreCurrent
  OBVIOUS
<1>a. /\ head \in Counters /\ tail \in Counters
      /\ producer.seen \in Counters /\ consumer.seen \in Counters
      /\ Distance(producer.seen, head) \in Nat
      /\ Distance(head, tail) \in Nat
      /\ Distance(head, consumer.seen) \in Nat
      /\ Slot(head) \in Slots /\ Slot(tail) \in Slots
  BY ArcTypes
<1>1. ASSUME NEW v \in Values, PushLoad(v) PROVE IInv'
  <2>1. PICK h \in Loadable(producer.seen, head) :
          producer' = IF IsFull(h)
                      THEN [producer EXCEPT !.seen = h]
                      ELSE [step |-> "copy", value |-> v, seen |-> h]
    BY <1>1 DEF PushLoad
  <2>2. /\ h \in Counters
        /\ Distance(h, head) = Distance(producer.seen, head) - Distance(producer.seen, h)
        /\ Distance(producer.seen, h) <= Distance(producer.seen, head)
        /\ Distance(producer.seen, h) \in Nat
    BY <1>a, LoadableSplits, DistanceCases
  <2>3. /\ buf' = buf /\ head' = head /\ tail' = tail /\ consumer' = consumer
        /\ taken' = taken /\ producer.step = "idle"
    BY <1>1 DEF PushLoad
  <2>4. /\ producer'.seen = h
        /\ producer'.step = IF IsFull(h) THEN "idle" ELSE "copy"
        /\ ~IsFull(h) => producer'.value = v
    BY <2>1, <2>3, <1>0 DEF TypeOK
  <2>5. TypeOK'
    BY <2>1, <2>2, <2>3, <1>0 DEF TypeOK
  <2>6. CountersInOrder'
    <3>1. Distance(h, head) + Distance(head, tail) <= Capacity
      BY <1>a, <2>2, <1>0, Widths DEF CountersInOrder
    <3>2. Distance(h, tail) = Distance(h, head) + Distance(head, tail)
      BY <3>1, <2>2, <1>a, ThreeCounters, Widths
    <3>3. ~IsFull(h) => Distance(h, head) + Distance(head, tail) < Capacity
      BY <3>2, <2>2, <1>a, Widths DEF IsFull
    <3>4. QED
      BY <3>1, <3>3, <2>3, <2>4, <1>0 DEF CountersInOrder
  <2>7. CopiesAreCurrent'
    BY <2>3, <2>4, <1>0 DEF CopiesAreCurrent
  <2>8. QED
    BY <2>5, <2>6, <2>7
<1>2. CASE PushCopy
  <2>1. /\ buf' = [buf EXCEPT ![Slot(tail)] = producer.value]
        /\ head' = head /\ tail' = tail /\ consumer' = consumer /\ taken' = taken
        /\ producer.step = "copy"
        /\ producer' = [producer EXCEPT !.step = "store"]
    BY <1>2 DEF PushCopy
  <2>2. /\ producer'.seen = producer.seen /\ producer'.step = "store"
        /\ producer'.value = producer.value
    BY <2>1, <1>0 DEF TypeOK
  <2>3. TypeOK'
    BY <2>1, <1>a, <1>0 DEF TypeOK
  <2>4. CountersInOrder'
    BY <2>1, <2>2, <1>0 DEF CountersInOrder
  <2>5. CopiesAreCurrent'
    <3>1. buf'[Slot(tail)] = producer.value
      BY <2>1, <1>a, <1>0 DEF TypeOK
    <3>2. consumer.step = "store" => buf'[Slot(head)] = buf[Slot(head)]
      <4> SUFFICES ASSUME consumer.step = "store"
                   PROVE  Slot(head) # Slot(tail)
        BY <2>1, <1>a, <1>0 DEF TypeOK
      <4>1. 0 < Distance(head, tail) /\ Distance(head, tail) < Capacity
        BY <2>1, <1>a, <1>0, Widths DEF CountersInOrder
      <4>2. QED
        BY <4>1, SlotsApart
    <3>3. QED
      BY <3>1, <3>2, <2>1, <2>2, <1>0 DEF CopiesAreCurrent
  <2>6. QED
    BY <2>3, <2>4, <2>5
<1>3. CASE PushStore
  <2>1. /\ tail' = Increment(tail) /\ producer.step = "store"
        /\ producer' = [producer EXCEPT !.step = "idle", !.value = NoValue]
        /\ buf' = buf /\ head' = head /\ consumer' = consumer /\ taken' = taken
    BY <1>3 DEF PushStore
  <2>2. producer'.seen = producer.seen /\ producer'.step = "idle"
    BY <2>1, <1>0 DEF TypeOK
  <2>3. TypeOK'
    BY <2>1, <1>a, <1>0, IncrementCases DEF TypeOK
  <2>4. CountersInOrder'
    <3>1. Distance(producer.seen, head) + Distance(head, tail) < Capacity
      BY <2>1, <1>0 DEF CountersInOrder
    <3>2. Distance(head, Increment(tail)) = Distance(head, tail) + 1
      BY <3>1, <1>a, DistanceAfterIncrement, Widths
    <3>3. QED
      BY <3>1, <3>2, <2>1, <2>2, <1>a, <1>0, Widths DEF CountersInOrder
  <2>5. CopiesAreCurrent'
    BY <2>1, <2>2, <1>0 DEF CopiesAreCurrent
  <2>6. QED
    BY <2>3, <2>4, <2>5
<1>4. CASE PopLoad
  <2>1. PICK t \in Loadable(consumer.seen, tail) :
          consumer' = [consumer EXCEPT
                         !.step = IF Distance(head, t) = 0 THEN "idle" ELSE "copy",
                         !.seen = t]
    BY <1>4 DEF PopLoad
  <2>2. /\ buf' = buf /\ head' = head /\ tail' = tail /\ producer' = producer
        /\ taken' = taken /\ consumer.step = "idle"
    BY <1>4 DEF PopLoad
  <2>3. /\ consumer'.seen = t
        /\ consumer'.step = IF Distance(head, t) = 0 THEN "idle" ELSE "copy"
    BY <2>1, <1>0 DEF TypeOK
  <2>4. /\ t \in Counters
        /\ Distance(consumer.seen, t) <= Distance(consumer.seen, tail)
        /\ Distance(consumer.seen, t) \in Nat
        /\ Distance(consumer.seen, tail) \in Nat
        /\ Distance(head, t) \in Nat
    BY <1>a, LoadableSplits, DistanceCases
  <2>5. TypeOK'
    BY <2>1, <2>2, <2>4, <1>0 DEF TypeOK
  <2>6. Distance(head, t) <= Distance(head, tail)
    <3>1. Distance(head, consumer.seen) + Distance(consumer.seen, tail)
            = Distance(head, tail)
      BY <1>a, <1>0, <2>4, ThreeCounters DEF CountersInOrder
    <3>2. Distance(head, consumer.seen) + Distance(consumer.seen, t) < CounterRange
      BY <3>1, <2>4, <1>a, <1>0, Widths DEF CountersInOrder
    <3>3. Distance(head, t) = Distance(head, consumer.seen) + Distance(consumer.seen, t)
      BY <3>2, <2>4, <1>a, ThreeCounters
    <3>4. QED
      BY <3>1, <3>3, <2>4, <1>a
  <2>7. CountersInOrder'
    BY <2>2, <2>3, <2>4, <2>6, <1>0 DEF CountersInOrder
  <2>8. CopiesAreCurrent'
    BY <2>2, <2>3, <1>0 DEF CopiesAreCurrent
  <2>9. QED
    BY <2>5, <2>7, <2>8
<1>5. CASE PopCopy
  <2>1. /\ consumer.step = "copy"
        /\ consumer' = [consumer EXCEPT !.step = "store", !.value = buf[Slot(head)]]
        /\ buf' = buf /\ head' = head /\ tail' = tail /\ producer' = producer
        /\ taken' = taken
    BY <1>5 DEF PopCopy
  <2>2. /\ consumer'.seen = consumer.seen /\ consumer'.step = "store"
        /\ consumer'.value = buf[Slot(head)]
    BY <2>1, <1>0 DEF TypeOK
  <2>3. TypeOK'
    BY <2>1, <1>a, <1>0 DEF TypeOK
  <2>4. CountersInOrder'
    BY <2>1, <2>2, <1>0 DEF CountersInOrder
  <2>5. CopiesAreCurrent'
    BY <2>1, <2>2, <1>0 DEF CopiesAreCurrent
  <2>6. QED
    BY <2>3, <2>4, <2>5
<1>6. CASE PopStore
  <2>1. /\ consumer.step = "store"
        /\ head' = Increment(head) /\ taken' = consumer.value
        /\ consumer' = [consumer EXCEPT !.step = "idle", !.value = NoValue]
        /\ buf' = buf /\ tail' = tail /\ producer' = producer
    BY <1>6 DEF PopStore
  <2>2. consumer'.seen = consumer.seen /\ consumer'.step = "idle"
    BY <2>1, <1>0 DEF TypeOK
  <2>3. TypeOK'
    BY <2>1, <1>a, <1>0, IncrementCases DEF TypeOK
  <2>4. CountersInOrder'
    <3>1. /\ Distance(head, consumer.seen) > 0 /\ Distance(head, tail) > 0
          /\ Distance(producer.seen, head) < CounterRange - 1
      BY <2>1, <1>a, <1>0, Widths DEF CountersInOrder
    <3>2. /\ Distance(Increment(head), consumer.seen) = Distance(head, consumer.seen) - 1
          /\ Distance(Increment(head), tail) = Distance(head, tail) - 1
          /\ Distance(producer.seen, Increment(head)) = Distance(producer.seen, head) + 1
      BY <3>1, <1>a, DistanceAfterIncrement
    <3>3. QED
      BY <3>1, <3>2, <2>1, <2>2, <1>a, <1>0, Widths DEF CountersInOrder
  <2>5. CopiesAreCurrent'
    BY <2>1, <2>2, <1>0 DEF CopiesAreCurrent
  <2>6. QED
    BY <2>3, <2>4, <2>5
<1>7. CASE UNCHANGED vars
  BY <1>7 DEF vars, TypeOK, CountersInOrder, CopiesAreCurrent
<1>8. QED
  BY <1>1, <1>2, <1>3, <1>4, <1>5, <1>6, <1>7 DEF Next

-----------------------------------------------------------------------------
(***************************************************************************)
(* The invariant holds in every reachable state: the counters the threads  *)
(* decide with, however stale, keep their order on the circle, and what a  *)
(* thread has copied is what it will publish or return.                    *)
(***************************************************************************)
THEOREM Invariance == Spec => []IInv
BY InitInvariant, StepInvariant, PTL DEF Spec

(***************************************************************************)
(* push() and pop() never copy into and out of the same slot at once: the  *)
(* producer copies only with room left, the consumer only with a value     *)
(* there, so m_head and m_tail name different slots.                       *)
(***************************************************************************)
THEOREM SlotRaceFreedom == Spec => []NoSlotRace
<1>1. IInv => NoSlotRace
  <2> SUFFICES ASSUME IInv, producer.step = "copy", consumer.step = "copy"
               PROVE  Slot(tail) # Slot(head)
    BY DEF NoSlotRace
  <2>1. 0 < Distance(head, tail) /\ Distance(head, tail) < Capacity
    BY ArcTypes, Widths DEF IInv, CountersInOrder
  <2>2. QED
    BY <2>1, SlotsApart DEF IInv
<1>2. QED
  BY <1>1, Invariance, PTL

-----------------------------------------------------------------------------
(* The refinement of the bounded queue. *)

\* The queue the ring stands for.
Contents == [i \in 1 .. Distance(head, tail) |-> buf[Slot(head + i - 1)]]

\* It is a sequence of slot contents.
LEMMA ContentsType ==
  ASSUME TypeOK
  PROVE  /\ Contents \in Seq(Values \cup {NoValue})
         /\ Len(Contents) = Distance(head, tail)
         /\ \A i \in 1 .. Distance(head, tail) :
              head + i - 1 \in Nat /\ Contents[i] = buf[Slot(head + i - 1)]
<1> DEFINE D == Distance(head, tail)
<1>1. D \in Nat /\ head \in Nat
  BY ArcTypes DEF Counters
<1> HIDE DEF D
<1>2. ASSUME NEW i \in 1 .. D
      PROVE  head + i - 1 \in Nat /\ buf[Slot(head + i - 1)] \in Values \cup {NoValue}
  <2>1. head + i - 1 \in Nat
    BY <1>1
  <2>2. Slot(head + i - 1) \in Slots
    BY <2>1, SlotType
  <2>3. QED
    BY <2>1, <2>2 DEF TypeOK
<1>3. Contents = [i \in 1 .. D |-> buf[Slot(head + i - 1)]]
  BY DEF Contents, D
<1>4. QED
  BY <1>1, <1>2, <1>3 DEF D

\* The abstract queue starts empty.
LEMMA InitRefines == Init => Fifo!Init
<1> SUFFICES ASSUME Init PROVE Fifo!Init
  OBVIOUS
<1>1. Distance(head, tail) = 0
  BY DistanceZero, Widths DEF Init, Counters
<1>2. Contents = <<>> /\ taken = NoValue
  BY <1>1 DEF Contents, Init
<1>3. QED
  BY <1>2 DEF Fifo!Init, Contents

\* A step that changes neither the counters nor the slots between them leaves
\* the abstract queue alone.
LEMMA SameContents ==
  ASSUME TypeOK, head' = head, tail' = tail,
         \A i \in 1 .. Distance(head, tail) :
           buf'[Slot(head + i - 1)] = buf[Slot(head + i - 1)]
  PROVE  Contents' = Contents
BY DEF Contents

\* The copy of push() touches no slot that is in the queue.
LEMMA CopyOutside ==
  ASSUME IInv, PushCopy
  PROVE  Contents' = Contents
<1> USE DEF IInv
<1> DEFINE D == Distance(head, tail)
<1>1. /\ buf' = [buf EXCEPT ![Slot(tail)] = producer.value]
      /\ head' = head /\ tail' = tail /\ producer.step = "copy"
  BY DEF PushCopy
<1>2. D < Capacity /\ D \in Nat /\ head \in Nat /\ Slot(head + D) = Slot(tail)
  BY <1>1, ArcTypes, SlotOfTail, Widths DEF CountersInOrder, Counters
<1>3. ASSUME NEW i \in 1 .. D
      PROVE  buf'[Slot(head + i - 1)] = buf[Slot(head + i - 1)]
  <2> HIDE DEF D
  <2>1. /\ head + i - 1 \in Nat /\ head + D \in Nat
        /\ head + i - 1 < head + D /\ head + D < head + i - 1 + Capacity
    BY <1>2, Widths
  <2>2. Slot(head + i - 1) # Slot(tail)
    BY <1>2, <2>1, SlotDiffers
  <2>3. Slot(head + i - 1) \in Slots
    BY <2>1, SlotType
  <2>4. QED
    BY <1>1, <2>2, <2>3 DEF TypeOK
<1>4. QED
  BY <1>1, <1>3, SameContents

\* The store of push() appends the envelope it copied.
LEMMA StoreAppends ==
  ASSUME IInv, PushStore
  PROVE  Fifo!Push(producer.value) /\ producer.value \in Values
<1> USE DEF IInv
<1> DEFINE D == Distance(head, tail)
           v == producer.value
<1>1. /\ tail' = Increment(tail) /\ producer.step = "store"
      /\ buf' = buf /\ head' = head /\ taken' = taken
  BY DEF PushStore
<1>2. /\ D < Capacity /\ D \in Nat /\ head \in Nat /\ v \in Values
      /\ Slot(head + D) = Slot(tail) /\ Distance(head, tail') = D + 1
  <2>1. D < Capacity /\ D \in Nat /\ head \in Counters /\ tail \in Counters
    BY <1>1, ArcTypes, Widths DEF CountersInOrder
  <2>2. Distance(head, tail') = D + 1
    BY <1>1, <2>1, DistanceAfterIncrement, Widths
  <2>3. QED
    BY <2>1, <2>2, <1>1, SlotOfTail DEF CountersInOrder, Counters
<1>3. buf[Slot(head + D)] = v
  BY <1>1, <1>2 DEF CopiesAreCurrent
<1>4. Contents' = [i \in 1 .. D + 1 |-> buf[Slot(head + i - 1)]]
  BY <1>1, <1>2 DEF Contents
<1>5. /\ Contents \in Seq(Values \cup {NoValue}) /\ Len(Contents) = D
      /\ \A i \in 1 .. D : Contents[i] = buf[Slot(head + i - 1)]
  BY ContentsType
<1> HIDE DEF D, v
<1>6. /\ Append(Contents, v) \in [1 .. D + 1 -> Values \cup {NoValue}]
      /\ \A i \in 1 .. D + 1 :
           Append(Contents, v)[i] = IF i = D + 1 THEN v ELSE Contents[i]
  <2> DEFINE A == Append(Contents, v)
             V == Values \cup {NoValue}
  <2>1. A \in Seq(V) /\ Len(A) = D + 1
    BY <1>2, <1>5, AppendProperties
  <2>2. A \in [1 .. Len(A) -> V]
    <3> HIDE DEF A, V
    <3> QED
      BY <2>1, LenProperties
  <2>3. \A i \in 1 .. D + 1 : A[i] = IF i = D + 1 THEN v ELSE Contents[i]
    BY <1>2, <1>5, AppendProperties
  <2>4. QED
    BY <2>1, <2>2, <2>3
<1>7. ASSUME NEW i \in 1 .. D + 1
      PROVE  buf[Slot(head + i - 1)] = IF i = D + 1 THEN v ELSE Contents[i]
  <2>1. CASE i = D + 1
    <3>1. head + i - 1 = head + D
      BY <2>1, <1>2
    <3>2. QED
      BY <3>1, <2>1, <1>3
  <2>2. CASE i # D + 1
    <3>1. i \in 1 .. D
      BY <2>2, <1>2
    <3>2. QED
      BY <3>1, <2>2, <1>5
  <2>3. QED
    BY <2>1, <2>2
<1>8. Contents' = Append(Contents, v)
  BY <1>4, <1>6, <1>7
<1>9. Len(Contents) < Capacity
  BY <1>2, <1>5
<1>10. QED
  BY <1>1, <1>2, <1>8, <1>9 DEF Fifo!Push, Contents, v

\* The store of pop() removes the first value, which is the one it returns.
LEMMA StoreRemoves ==
  ASSUME IInv, PopStore
  PROVE  Fifo!Pop
<1> USE DEF IInv
<1> DEFINE D == Distance(head, tail)
<1>1. /\ head' = Increment(head) /\ consumer.step = "store"
      /\ buf' = buf /\ tail' = tail /\ taken' = consumer.value
  BY DEF PopStore
<1>2. D \in Nat /\ D > 0 /\ head \in Counters /\ tail \in Counters /\ head \in Nat
  BY <1>1, ArcTypes DEF CountersInOrder, Counters
<1>3. Distance(head', tail) = D - 1
  BY <1>1, <1>2, DistanceAfterIncrement
<1>4. /\ Contents \in Seq(Values \cup {NoValue}) /\ Len(Contents) = D
      /\ \A i \in 1 .. D : Contents[i] = buf[Slot(head + i - 1)]
  BY ContentsType
<1>5. Contents' = [i \in 1 .. D - 1 |-> buf[Slot(head' + i - 1)]]
  BY <1>1, <1>3 DEF Contents
<1> HIDE DEF D
<1>6. Contents # <<>> /\ Head(Contents) = Contents[1]
  BY <1>2, <1>4
<1>7. taken' = Head(Contents)
  <2>1. Contents[1] = buf[Slot(head)]
    <3>1. 1 \in 1 .. D /\ head + 1 - 1 = head
      BY <1>2
    <3>2. QED
      BY <3>1, <1>4
  <2>2. QED
    BY <2>1, <1>6, <1>1 DEF CopiesAreCurrent
<1>8. /\ Tail(Contents) \in [1 .. D - 1 -> Values \cup {NoValue}]
      /\ \A i \in 1 .. D - 1 : Tail(Contents)[i] = Contents[i + 1]
  <2> DEFINE T == Tail(Contents)
             V == Values \cup {NoValue}
  <2>1. T \in Seq(V) /\ Len(T) = D - 1 /\ \A i \in 1 .. D - 1 : T[i] = Contents[i + 1]
    BY <1>4, <1>6, HeadTailProperties
  <2>2. T \in [1 .. Len(T) -> V]
    <3> HIDE DEF T, V
    <3> QED
      BY <2>1, LenProperties
  <2>3. QED
    BY <2>1, <2>2
<1>9. ASSUME NEW i \in 1 .. D - 1
      PROVE  buf[Slot(head' + i - 1)] = Contents[i + 1]
  <2> DEFINE j == i - 1
  <2>1. /\ j \in Nat /\ i + 1 \in 1 .. D
        /\ head + (i + 1) - 1 = head + 1 + j
    BY <1>2
  <2>2. Increment(head) \in Nat /\ Increment(head) + i - 1 = Increment(head) + j
    <3>1. Increment(head) \in Nat
      BY <1>2, IncrementCases DEF Counters
    <3>2. QED
      BY <3>1
  <2> HIDE DEF j
  <2>3. Slot(Increment(head) + j) = Slot(head + 1 + j)
    BY <1>2, <2>1, SlotAfterIncrement
  <2>4. QED
    BY <2>1, <2>2, <2>3, <1>1, <1>4
<1>10. Contents' = Tail(Contents)
  BY <1>5, <1>8, <1>9
<1>11. QED
  BY <1>6, <1>7, <1>10 DEF Fifo!Pop, Contents

\* Every step of the ring is a push, a pop or no step of the abstract queue.
LEMMA StepRefines == IInv /\ [Next]_vars => [Fifo!Next]_(Fifo!vars)
<1> SUFFICES ASSUME IInv, [Next]_vars PROVE [Fifo!Next]_(Fifo!vars)
  OBVIOUS
<1>s. ASSUME Contents' = Contents, taken' = taken PROVE UNCHANGED Fifo!vars
  BY <1>s DEF Fifo!vars, Contents
<1>u. ASSUME head' = head, tail' = tail, buf' = buf, taken' = taken
      PROVE  UNCHANGED Fifo!vars
  <2>1. Contents' = Contents
    BY <1>u DEF Contents
  <2>2. QED
    BY <1>s, <1>u, <2>1
<1>1. ASSUME NEW v \in Values, PushLoad(v) PROVE [Fifo!Next]_(Fifo!vars)
  BY <1>1, <1>u DEF PushLoad
<1>2. CASE PushCopy
  BY <1>2, <1>s, CopyOutside DEF PushCopy
<1>3. CASE PushStore
  BY <1>3, StoreAppends DEF Fifo!Next
<1>4. CASE PopLoad
  BY <1>4, <1>u DEF PopLoad
<1>5. CASE PopCopy
  BY <1>5, <1>u DEF PopCopy
<1>6. CASE PopStore
  BY <1>6, StoreRemoves DEF Fifo!Next
<1>7. CASE UNCHANGED vars
  BY <1>7, <1>u DEF vars
<1>8. QED
  BY <1>1, <1>2, <1>3, <1>4, <1>5, <1>6, <1>7 DEF Next

(***************************************************************************)
(* The ring buffer implements the bounded queue: no envelope is lost,      *)
(* repeated, reordered or made up between push() and pop(), also across    *)
(* the wrap-around of the two counters and with stale acquire loads.       *)
(***************************************************************************)
THEOREM RefinesFifo == Spec => ImplementsFifo
BY InitRefines, StepRefines, Invariance, PTL DEF Spec, Fifo!Spec, ImplementsFifo
===============================================================================
