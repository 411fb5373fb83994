---------------------------- MODULE RetryManager ----------------------------
(***************************************************************************)
(* src/core/RetryManager.cpp as a data type: the table of RELIABLE_RETRY   *)
(* messages to send again until an ACK, their expiry or their last retry.  *)
(* An inactive slot keeps stale bytes in the code that nothing reads; here *)
(* it becomes IdleSlot.  Backoff and time are in the same unit (ticks).    *)
(***************************************************************************)
EXTENDS MessageEnvelope, FiniteSets, FiniteSetsExt

CONSTANTS
  ACK_TRACKER_CAPACITY,   \* the table has as many slots as the AckTracker
  BACKOFF_CAP             \* 60000 ms in the code

ASSUME RetryAssumption == /\ ACK_TRACKER_CAPACITY \in Nat \ {0}
                          /\ BACKOFF_CAP \in Nat \ {0}
                          /\ BACKOFF_CAP % 2 = 0

IdleSlot == [active |-> FALSE]

RetryIndex == 1 .. ACK_TRACKER_CAPACITY

RetrySlot == {IdleSlot} \union [active        : {TRUE},
                                env           : Envelope,
                                next_retry_us : Nat,
                                expiry_us     : Nat,
                                retry_count   : Nat,
                                max_retries   : Nat,
                                backoff_ms    : Nat]

Manager == [m_slots           : [RetryIndex -> RetrySlot],
            m_count           : 0 .. ACK_TRACKER_CAPACITY,
            m_last_collect_us : Nat,
            retries_sent      : Nat,
            acks_received     : Nat,
            slots_expired     : Nat,
            slots_exhausted   : Nat]

init == [m_slots           |-> [i \in RetryIndex |-> IdleSlot],
         m_count           |-> 0,
         m_last_collect_us |-> 0,
         retries_sent      |-> 0,
         acks_received     |-> 0,
         slots_expired     |-> 0,
         slots_exhausted   |-> 0]

Active(r) == {i \in RetryIndex : r.m_slots[i].active}

ActiveFor(r, src, msg_id) ==
  {i \in Active(r) : /\ r.m_slots[i].env.source_id = src
                     /\ r.m_slots[i].env.message_id = msg_id}

ActiveTo(r, dst) == {i \in Active(r) : r.m_slots[i].env.destination_id = dst}

\* The code asserts m_count > 0 before each decrement.
Deactivate(r, S) ==
  [r EXCEPT !.m_slots = [i \in RetryIndex |-> IF i \in S THEN IdleSlot
                                                         ELSE r.m_slots[i]],
            !.m_count = @ - Cardinality(S)]

\* Mutant: doubling without the ceiling and without the floor of one.
advance_backoff_Plain(current_ms) == current_ms * 2

\* Doubled, at most BACKOFF_CAP, at least 1.
advance_backoff(current_ms) ==
  LET capped == IF current_ms > BACKOFF_CAP \div 2 THEN BACKOFF_CAP \div 2
                                                   ELSE current_ms
  IN  IF capped = 0 THEN 1 ELSE capped * 2

schedule(r, env, max_retries, backoff_ms, now_us) ==
  IF Active(r) = RetryIndex
    THEN [res |-> "ERR_FULL", manager |-> r]
    ELSE LET i == Min(RetryIndex \ Active(r))
         IN  [res     |-> "OK",
              manager |-> [r EXCEPT !.m_slots[i] =
                                       [active        |-> TRUE,
                                        env           |-> env,
                                        next_retry_us |-> now_us,
                                        expiry_us     |-> env.expiry_time_us,
                                        retry_count   |-> 0,
                                        max_retries   |-> max_retries,
                                        backoff_ms    |-> backoff_ms],
                                    !.m_count = @ + 1]]

cancel(r, src, msg_id) ==
  IF ActiveFor(r, src, msg_id) = {}
    THEN [res |-> "ERR_INVALID", manager |-> r]
    ELSE [res     |-> "OK",
          manager |-> Deactivate(r, {Min(ActiveFor(r, src, msg_id))})]

\* Mutant: the slot is left active, only the counter moves.
on_ack_KeepsSlot(r, src, msg_id) ==
  LET c == cancel(r, src, msg_id)
  IN  [c EXCEPT !.manager =
         IF c.res = "OK" THEN [r EXCEPT !.acks_received = @ + 1] ELSE r]

on_ack(r, src, msg_id) ==
  LET c == cancel(r, src, msg_id)
  IN  IF c.res = "OK" THEN [c EXCEPT !.manager.acks_received = @ + 1] ELSE c

cancel_peer(r, dst) == [cancelled |-> Cardinality(ActiveTo(r, dst)),
                        manager   |-> Deactivate(r, ActiveTo(r, dst))]

Expired(r, now_us) ==
  {i \in Active(r) : timestamp_expired(r.m_slots[i].expiry_us, now_us)}

Exhausted(r) ==
  {i \in Active(r) : r.m_slots[i].retry_count >= r.m_slots[i].max_retries}

\* Mutant: entries that have used up their retries are not reaped.
reap_terminated_slots_ExpiredOnly(r, now_us) ==
  [Deactivate(r, Expired(r, now_us))
     EXCEPT !.slots_expired = @ + Cardinality(Expired(r, now_us))]

\* Phase 1 of collect_due(): an entry that is both counts as expired.
reap_terminated_slots(r, now_us) ==
  LET expired   == Expired(r, now_us)
      exhausted == Exhausted(r) \ expired
  IN  [Deactivate(r, expired \union exhausted)
         EXCEPT !.slots_expired   = @ + Cardinality(expired),
                !.slots_exhausted = @ + Cardinality(exhausted)]

CollectTime(r, now_us) ==
  IF now_us < r.m_last_collect_us THEN r.m_last_collect_us ELSE now_us

\* The first n indices of S in slot order: what fits the caller's buffer.
FirstN(S, n) == {i \in S : Cardinality({j \in S : j < i}) < n}

Due(r, now_us) == {i \in Active(r) : r.m_slots[i].next_retry_us <= now_us}

\* The slot after one retransmission at now_us.
Retried(slot, now_us) ==
  LET backoff == advance_backoff(slot.backoff_ms)
  IN  [slot EXCEPT !.retry_count   = @ + 1,
                   !.backoff_ms    = backoff,
                   !.next_retry_us = now_us + backoff]

collect_due(r, now_us, buf_cap) ==
  LET now    == CollectTime(r, now_us)
      reaped == reap_terminated_slots(r, now)
      due    == FirstN(Due(reaped, now), buf_cap)
  IN  [due     |-> {reaped.m_slots[i].env : i \in due},
       manager |-> [reaped EXCEPT
                      !.m_slots = [i \in RetryIndex |->
                                     IF i \in due
                                       THEN Retried(reaped.m_slots[i], now)
                                       ELSE reaped.m_slots[i]],
                      !.m_last_collect_us = now,
                      !.retries_sent = @ + Cardinality(due)]]
=============================================================================
