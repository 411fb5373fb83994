-------------------------- MODULE RetryManagerSpec --------------------------
(***************************************************************************)
(* The RetryManager driven by any caller that schedules each message once. *)
(* collect_due() may be given a buffer too small for all that is due, and  *)
(* a timestamp read some time ago.                                         *)
(***************************************************************************)
EXTENDS RetryManager, Sequences

CONSTANTS
  MaxTime,         \* bound on the clock
  MaxRetries,      \* ChannelConfig.max_retries
  InitialBackoff,  \* values of ChannelConfig.retry_backoff_ms
  Message          \* the envelopes that callers may schedule

ASSUME RetrySpecAssumption == /\ MaxTime \in Nat
                              /\ MaxRetries \in Nat
                              /\ InitialBackoff \subseteq 0 .. BACKOFF_CAP
                              /\ Message \subseteq Envelope

VARIABLES
  manager,      \* the RetryManager object
  clock,        \* CLOCK_MONOTONIC
  scheduled,    \* history: schedule() returned OK for these
  stopped,      \* history: acknowledged or cancelled
  attempts      \* history: when each message was handed out again

vars == <<manager, clock, scheduled, stopped, attempts>>

Init == /\ manager   = init
        /\ clock     = 1
        /\ scheduled = {}
        /\ stopped   = {}
        /\ attempts  = [m \in Message |-> <<>>]

EnvsOf(S) == {manager.m_slots[i].env : i \in S}

Schedule(m, backoff) ==
  /\ \A o \in scheduled : o.message_id # m.message_id
  /\ LET r == schedule(manager, m, MaxRetries, backoff, clock)
     IN  /\ manager'   = r.manager
         /\ scheduled' = IF r.res = "OK" THEN scheduled \union {m} ELSE scheduled
  /\ UNCHANGED <<clock, stopped, attempts>>

OnAck(src, id) ==
  /\ manager' = on_ack(manager, src, id).manager
  /\ stopped' = stopped \union EnvsOf(ActiveFor(manager, src, id))
  /\ UNCHANGED <<clock, scheduled, attempts>>

Cancel(src, id) ==
  /\ manager' = cancel(manager, src, id).manager
  /\ stopped' = stopped \union EnvsOf(ActiveFor(manager, src, id))
  /\ UNCHANGED <<clock, scheduled, attempts>>

CancelPeer(dst) ==
  /\ manager' = cancel_peer(manager, dst).manager
  /\ stopped' = stopped \union EnvsOf(ActiveTo(manager, dst))
  /\ UNCHANGED <<clock, scheduled, attempts>>

CollectDue(now, buf_cap) ==
  LET r == collect_due(manager, now, buf_cap)
  IN  /\ manager'  = r.manager
      /\ attempts' = [m \in Message |->
                        IF m \in r.due
                          THEN Append(attempts[m], r.manager.m_last_collect_us)
                          ELSE attempts[m]]
      /\ UNCHANGED <<clock, scheduled, stopped>>

Tick == /\ clock < MaxTime
        /\ clock' = clock + 1
        /\ UNCHANGED <<manager, scheduled, stopped, attempts>>

Next == \/ \E m \in Message, b \in InitialBackoff : Schedule(m, b)
        \/ \E src \in Node, id \in MessageId : OnAck(src, id) \/ Cancel(src, id)
        \/ \E dst \in Node : CancelPeer(dst)
        \/ \E now \in 1 .. clock, cap \in 1 .. ACK_TRACKER_CAPACITY :
             CollectDue(now, cap)
        \/ Tick

Spec == Init /\ [][Next]_vars
-----------------------------------------------------------------------------
TypeOK == /\ manager \in Manager
          /\ clock \in Nat
          /\ scheduled \in SUBSET Message
          /\ stopped \in SUBSET Message
          /\ attempts \in [Message -> Seq(Nat)]

(***************************************************************************)
(* No retry storm (HAZ-002): a message is handed out at most max_retries   *)
(* times, never at or after its expiry, and the pause after the k-th       *)
(* hand-out is at least 2^(k-1) ticks until it reaches the ceiling, even   *)
(* for a channel configured with retry_backoff_ms = 0, for a buffer that   *)
(* was too small last time and for timestamps that go backwards.           *)
(***************************************************************************)
RetriesBoundedAndSpaced ==
  \A m \in Message :
    LET s == attempts[m]
    IN  /\ Len(s) <= MaxRetries
        /\ \A k \in 1 .. Len(s) : ~timestamp_expired(m.expiry_time_us, s[k])
        /\ \A k \in 1 .. Len(s) - 1 :
             \/ s[k + 1] - s[k] >= 2 ^ (k - 1)
             \/ s[k + 1] - s[k] >= BACKOFF_CAP

(***************************************************************************)
(* Once an ACK, a rollback or a reconnect has stopped a message it is      *)
(* never handed out again.                                                 *)
(***************************************************************************)
StoppedMeansSilent ==
  [][\A m \in stopped : attempts'[m] = attempts[m]]_vars
=============================================================================
