------------------------------ MODULE RingBuffer ------------------------------
(***************************************************************************)
(* The lock-free ring between one producer and one consumer thread.        *)
(*                                                                         *)
(* head and tail are free-running unsigned counters (m_head, m_tail) that  *)
(* wrap at CounterRange; a slot index is a counter modulo the capacity.    *)
(* Each operation is three steps of its thread: load both counters and     *)
(* decide, copy the envelope, store the own counter.  A thread loads its   *)
(* own counter exactly; an acquire load of the other thread's counter may  *)
(* return any value that thread stored since the one seen last, so a stale *)
(* value is a nondeterministic choice.  Copying an envelope is not atomic: *)
(* it lasts from the load to the copy step.                                *)
(***************************************************************************)
EXTENDS Naturals, Sequences

CONSTANTS Values,         \* envelopes
          Capacity,       \* MSG_RING_CAPACITY
          CounterRange,   \* 2^32 in the code
          NoValue         \* content of a slot never written

ASSUME RingAssumption ==
  /\ Capacity \in Nat \ {0}
  /\ CounterRange \in Nat /\ CounterRange > Capacity
  /\ CounterRange % Capacity = 0
  /\ NoValue \notin Values

VARIABLES buf,        \* m_buf
          head,       \* m_head, stored by the consumer
          tail,       \* m_tail, stored by the producer
          producer,   \* push(): step, the envelope to copy, m_head as last loaded
          consumer,   \* pop(): step, the envelope copied, m_tail as last loaded
          taken       \* what the last successful pop() returned

vars == <<buf, head, tail, producer, consumer, taken>>

Slots    == 0 .. Capacity - 1
Counters == 0 .. CounterRange - 1

(* Unsigned subtraction and increment of the counters. *)
Distance(from, to) == (to + CounterRange - from) % CounterRange
Increment(c)       == (c + 1) % CounterRange
Slot(c)            == c % Capacity

(* The values an acquire load can return: those stored since `seen`. *)
Loadable(seen, current) ==
  {c \in Counters : Distance(seen, c) <= Distance(seen, current)}

Init ==
  /\ buf = [s \in Slots |-> NoValue]
  /\ head = 0 /\ tail = 0
  /\ producer = [step |-> "idle", value |-> NoValue, seen |-> 0]
  /\ consumer = [step |-> "idle", value |-> NoValue, seen |-> 0]
  /\ taken = NoValue

-----------------------------------------------------------------------------
(* push() *)

\* Mutant: one slot too many is taken to be free.
IsFull_OffByOne(h) == Distance(h, tail) > Capacity
IsFull(h) == Distance(h, tail) >= Capacity

(* Loads both counters; ERR_FULL when the ring looks full. *)
PushLoad(v) ==
  /\ producer.step = "idle"
  /\ \E h \in Loadable(producer.seen, head) :
       producer' = IF IsFull(h)
                   THEN [producer EXCEPT !.seen = h]
                   ELSE [step |-> "copy", value |-> v, seen |-> h]
  /\ UNCHANGED <<buf, head, tail, consumer, taken>>

PushCopy ==
  /\ producer.step = "copy"
  /\ buf' = [buf EXCEPT ![Slot(tail)] = producer.value]
  /\ producer' = [producer EXCEPT !.step = "store"]
  /\ UNCHANGED <<head, tail, consumer, taken>>

PushStore ==
  /\ producer.step = "store"
  /\ tail' = Increment(tail)
  /\ producer' = [producer EXCEPT !.step = "idle", !.value = NoValue]
  /\ UNCHANGED <<buf, head, consumer, taken>>

-----------------------------------------------------------------------------
(* pop() *)

(* Loads both counters; ERR_EMPTY when the ring looks empty. *)
PopLoad ==
  /\ consumer.step = "idle"
  /\ \E t \in Loadable(consumer.seen, tail) :
       consumer' = [consumer EXCEPT
                      !.step = IF Distance(head, t) = 0 THEN "idle" ELSE "copy",
                      !.seen = t]
  /\ UNCHANGED <<buf, head, tail, producer, taken>>

\* Mutant: the slot is given back before its envelope is copied out.
PopCopy_StoresFirst ==
  /\ consumer.step = "copy"
  /\ head' = Increment(head)
  /\ consumer' = [consumer EXCEPT !.step = "store", !.value = buf[Slot(head)]]
  /\ UNCHANGED <<buf, tail, producer, taken>>
PopCopy ==
  /\ consumer.step = "copy"
  /\ consumer' = [consumer EXCEPT !.step = "store", !.value = buf[Slot(head)]]
  /\ UNCHANGED <<buf, head, tail, producer, taken>>

PopStore ==
  /\ consumer.step = "store"
  /\ head' = Increment(head)
  /\ taken' = consumer.value
  /\ consumer' = [consumer EXCEPT !.step = "idle", !.value = NoValue]
  /\ UNCHANGED <<buf, tail, producer>>

-----------------------------------------------------------------------------
Next ==
  \/ \E v \in Values : PushLoad(v)
  \/ PushCopy \/ PushStore
  \/ PopLoad \/ PopCopy \/ PopStore

Spec == Init /\ [][Next]_vars
-----------------------------------------------------------------------------
(* The counters, the steps and the slots have their types, and a counter a
   thread has loaded lies between the two counters. *)
TypeOK ==
  /\ buf \in [Slots -> Values \cup {NoValue}]
  /\ head \in Counters /\ tail \in Counters
  /\ producer \in [step: {"idle", "copy", "store"},
                   value: Values \cup {NoValue}, seen: Counters]
  /\ consumer \in [step: {"idle", "copy", "store"},
                   value: Values \cup {NoValue}, seen: Counters]
  /\ taken \in Values \cup {NoValue}

(* No data race on a slot: while the producer copies an envelope into a slot,
   the consumer is not copying out of the same slot, although each thread
   decides with a counter of the other that may be stale (the acquire and
   release operations of push() and pop()). *)
NoSlotRace ==
  ~ /\ producer.step = "copy" /\ consumer.step = "copy"
    /\ Slot(tail) = Slot(head)

(* The ring implements the bounded queue: a push takes effect when it stores
   m_tail, a pop when it stores m_head, and the queue is what lies between the
   two counters, also across the wrap-around of both. *)
Fifo == INSTANCE BoundedFifo WITH
          queue <- [i \in 1 .. Distance(head, tail) |-> buf[Slot(head + i - 1)]]
ImplementsFifo == Fifo!Spec
===============================================================================
