----------------------------- MODULE BoundedFifo -----------------------------
(***************************************************************************)
(* What the receive queue of a transport promises its two threads: a first *)
(* in, first out queue of bounded length.  push() may be refused, pop()    *)
(* may find nothing, but no value is lost, repeated, reordered or made up. *)
(* RingBuffer implements this; the transport modules, whose pushes and     *)
(* pops run on one thread, have such a sequence for their queue.           *)
(***************************************************************************)
EXTENDS Naturals, Sequences

CONSTANTS Values,     \* what may be queued
          Capacity,   \* MSG_RING_CAPACITY
          NoValue     \* no value taken yet

VARIABLES queue,   \* the values pushed and not yet popped
          taken    \* the value the last successful pop returned

vars == <<queue, taken>>

Init == queue = <<>> /\ taken = NoValue

(* A successful push.  A refused one changes nothing. *)
Push(v) ==
  /\ Len(queue) < Capacity
  /\ queue' = Append(queue, v)
  /\ UNCHANGED taken

(* A successful pop.  One that finds nothing changes nothing. *)
Pop ==
  /\ queue # <<>>
  /\ taken' = Head(queue)
  /\ queue' = Tail(queue)

Next == Pop \/ \E v \in Values : Push(v)

Spec == Init /\ [][Next]_vars
===============================================================================
