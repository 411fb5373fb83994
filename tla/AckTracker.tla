----------------------------- MODULE AckTracker -----------------------------
(***************************************************************************)
(* src/core/AckTracker.cpp as a data type: the table of messages that wait *)
(* for an ACK.  Each operation maps a tracker (and its arguments) to the   *)
(* Result the code returns and to the tracker it leaves behind.  The array *)
(* index of the code, 0 .. CAPACITY-1, is 1 .. CAPACITY here.              *)
(*                                                                         *)
(* A slot that the code sets FREE keeps its old bytes, which no operation  *)
(* reads before track() overwrites them; here it becomes FreeSlot.         *)
(***************************************************************************)
EXTENDS MessageEnvelope, FiniteSets, FiniteSetsExt

CONSTANT ACK_TRACKER_CAPACITY

ASSUME AckCapacityAssumption == ACK_TRACKER_CAPACITY \in Nat \ {0}

NoEnvelope == [message_type |-> "INVALID"]
FreeSlot   == [state |-> "FREE", env |-> NoEnvelope, deadline_us |-> 0]

AckIndex == 1 .. ACK_TRACKER_CAPACITY

AckSlot  == {FreeSlot} \union [state       : {"PENDING", "ACKED"},
                               env         : Envelope,
                               deadline_us : Nat]

Tracker  == [m_slots         : [AckIndex -> AckSlot],
             m_count         : 0 .. ACK_TRACKER_CAPACITY,
             m_last_sweep_us : Nat,
             acks_received   : Nat,
             timeouts        : Nat]

init == [m_slots         |-> [i \in AckIndex |-> FreeSlot],
         m_count         |-> 0,
         m_last_sweep_us |-> 0,
         acks_received   |-> 0,
         timeouts        |-> 0]

InState(t, s) == {i \in AckIndex : t.m_slots[i].state = s}

\* Mutant: the lookup forgets to check that the slot is still PENDING.
PendingFor_AnyState(t, src, msg_id) ==
  {i \in AckIndex \ InState(t, "FREE") : t.m_slots[i].env.message_id = msg_id}

\* PENDING slots that hold message msg_id sent by src.
PendingFor(t, src, msg_id) ==
  {i \in InState(t, "PENDING") : /\ t.m_slots[i].env.source_id = src
                                 /\ t.m_slots[i].env.message_id = msg_id}

\* Mutant: a release path forgets to decrement m_count.
CountWithout_NoDecrement(t, S) == t.m_count

\* `if (m_count > 0) --m_count', once for each slot of S.
CountWithout(t, S) ==
  IF Cardinality(S) <= t.m_count THEN t.m_count - Cardinality(S) ELSE 0

Release(t, S) ==
  [t EXCEPT !.m_slots = [i \in AckIndex |-> IF i \in S THEN FreeSlot
                                                       ELSE t.m_slots[i]],
            !.m_count = CountWithout(t, S)]

track(t, env, deadline) ==
  IF InState(t, "FREE") = {}
    THEN [res |-> "ERR_FULL", tracker |-> t]
    ELSE LET i == Min(InState(t, "FREE"))
         IN  [res     |-> "OK",
              tracker |-> [t EXCEPT !.m_slots[i] = [state       |-> "PENDING",
                                                    env         |-> env,
                                                    deadline_us |-> deadline],
                                    !.m_count = @ + 1]]

on_ack(t, src, msg_id) ==
  IF PendingFor(t, src, msg_id) = {}
    THEN [res |-> "ERR_INVALID", tracker |-> t]
    ELSE LET i == Min(PendingFor(t, src, msg_id))
         IN  [res     |-> "OK",
              tracker |-> [t EXCEPT !.m_slots[i].state = "ACKED",
                                    !.acks_received = @ + 1]]

cancel(t, src, msg_id) ==
  IF PendingFor(t, src, msg_id) = {}
    THEN [res |-> "ERR_INVALID", tracker |-> t]
    ELSE [res     |-> "OK",
          tracker |-> Release(t, {Min(PendingFor(t, src, msg_id))})]

PendingTo(t, dst) ==
  {i \in InState(t, "PENDING") : t.m_slots[i].env.destination_id = dst}

cancel_peer(t, dst) == [cancelled |-> Cardinality(PendingTo(t, dst)),
                        tracker   |-> Release(t, PendingTo(t, dst))]

\* The first n indices of S in slot order: what fits a caller's buffer.
FirstN(S, n) == {i \in S : Cardinality({j \in S : j < i}) < n}

\* Mutant: the clamp is missing, a backward timestamp is taken as it is.
SweepTime_NoClamp(t, now_us) == now_us

\* A timestamp older than the last sweep's is clamped to it.
SweepTime(t, now_us) ==
  IF now_us < t.m_last_sweep_us THEN t.m_last_sweep_us ELSE now_us

Overdue(t, now_us) ==
  {i \in InState(t, "PENDING") : now_us >= t.m_slots[i].deadline_us}

\* Mutant: slots that were acknowledged are not released.
sweep_expired_KeepsAcked(t, now_us, buf_cap) ==
  LET now     == SweepTime(t, now_us)
      overdue == Overdue(t, now)
  IN  [expired |-> {t.m_slots[i].env : i \in FirstN(overdue, buf_cap)},
       tracker |-> [Release(t, overdue) EXCEPT !.m_last_sweep_us = now,
                                               !.timeouts = @ + Cardinality(overdue)]]

sweep_expired(t, now_us, buf_cap) ==
  LET now     == SweepTime(t, now_us)
      overdue == Overdue(t, now)
  IN  [expired |-> {t.m_slots[i].env : i \in FirstN(overdue, buf_cap)},
       tracker |-> [Release(t, overdue \union InState(t, "ACKED"))
                      EXCEPT !.m_last_sweep_us = now,
                             !.timeouts = @ + Cardinality(overdue)]]

\* The destination recorded with the message, or NODE_ID_INVALID when no
\* PENDING slot holds it (the code's ERR_INVALID).
get_tracked_destination(t, our_id, msg_id) ==
  IF PendingFor(t, our_id, msg_id) = {}
    THEN NODE_ID_INVALID
    ELSE t.m_slots[Min(PendingFor(t, our_id, msg_id))].env.destination_id
=============================================================================
