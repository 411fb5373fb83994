--------------------------- MODULE AckTrackerSpec ---------------------------
(***************************************************************************)
(* The AckTracker driven by any caller that gives every message it tracks  *)
(* a fresh id (DeliveryEngine::send() takes them from MessageIdGen).  The  *)
(* caller may hand sweep_expired() a timestamp it read some time ago.      *)
(***************************************************************************)
EXTENDS AckTracker

CONSTANTS
  MaxTime,     \* bound on the clock
  Timeout,     \* recv_timeout_ms: how long a message waits for its ACK
  Message      \* the envelopes that callers may track

ASSUME AckSpecAssumption == /\ MaxTime \in Nat
                            /\ Timeout \in Nat \ {0}
                            /\ Message \subseteq Envelope

VARIABLES
  tracker,     \* the AckTracker object
  clock,       \* CLOCK_MONOTONIC
  tracked,     \* history: messages for which track() returned OK
  acked,       \* history: messages for which on_ack() returned OK
  cancelled,   \* history: messages released by cancel() or cancel_peer()
  expired      \* history: messages that sweep_expired() returned

vars == <<tracker, clock, tracked, acked, cancelled, expired>>

Init == /\ tracker   = init
        /\ clock     = 1
        /\ tracked   = {}
        /\ acked     = {}
        /\ cancelled = {}
        /\ expired   = {}

EnvsOf(S) == {tracker.m_slots[i].env : i \in S}

Track(m) ==
  /\ \A o \in tracked : o.message_id # m.message_id
  /\ LET r == track(tracker, m, timestamp_deadline_us(clock, Timeout))
     IN  /\ tracker' = r.tracker
         /\ tracked' = IF r.res = "OK" THEN tracked \union {m} ELSE tracked
  /\ UNCHANGED <<clock, acked, cancelled, expired>>

OnAck(src, id) ==
  LET r == on_ack(tracker, src, id)
  IN  /\ tracker' = r.tracker
      /\ acked'   = IF r.res = "OK"
                      THEN acked \union EnvsOf(PendingFor(tracker, src, id))
                      ELSE acked
      /\ UNCHANGED <<clock, tracked, cancelled, expired>>

Cancel(src, id) ==
  LET r == cancel(tracker, src, id)
  IN  /\ tracker'   = r.tracker
      /\ cancelled' = IF r.res = "OK"
                        THEN cancelled \union EnvsOf(PendingFor(tracker, src, id))
                        ELSE cancelled
      /\ UNCHANGED <<clock, tracked, acked, expired>>

CancelPeer(dst) ==
  /\ tracker'   = cancel_peer(tracker, dst).tracker
  /\ cancelled' = cancelled \union EnvsOf(PendingTo(tracker, dst))
  /\ UNCHANGED <<clock, tracked, acked, expired>>

SweepExpired(now) ==
  LET r == sweep_expired(tracker, now, ACK_TRACKER_CAPACITY)
  IN  /\ tracker' = r.tracker
      /\ expired' = expired \union r.expired
      /\ UNCHANGED <<clock, tracked, acked, cancelled>>

Tick == /\ clock < MaxTime
        /\ clock' = clock + 1
        /\ UNCHANGED <<tracker, tracked, acked, cancelled, expired>>

Next == \/ \E m \in Message : Track(m)
        \/ \E src \in Node, id \in MessageId : OnAck(src, id) \/ Cancel(src, id)
        \/ \E dst \in Node : CancelPeer(dst)
        \/ \E now \in 1 .. clock : SweepExpired(now)
        \/ Tick

Spec == Init /\ [][Next]_vars

\* The application's poll loop calls sweep_ack_timeouts() with the current
\* time again and again (src/app/Server.cpp, src/app/Client.cpp).
FairSpec == Spec /\ WF_vars(Tick) /\ WF_vars(SweepExpired(clock))
-----------------------------------------------------------------------------
TypeOK == /\ tracker \in Tracker
          /\ clock \in Nat
          /\ tracked \in SUBSET Message
          /\ acked \in SUBSET Message
          /\ cancelled \in SUBSET Message
          /\ expired \in SUBSET Message

(***************************************************************************)
(* m_count, which every method asserts to be at most the capacity and      *)
(* which track() relies on when it reports ERR_FULL, is the number of      *)
(* slots in use, so the saturating decrements never hide an imbalance.     *)
(***************************************************************************)
CountIsOccupancy ==
  tracker.m_count = Cardinality(AckIndex \ InState(tracker, "FREE"))

(***************************************************************************)
(* No tracked message is lost or accounted for twice: it is either still   *)
(* PENDING, or was acknowledged, or cancelled, or reported as timed out,   *)
(* and only one of these.  A late ACK therefore never resolves a message   *)
(* already reported as timed out, and an acknowledged one never times out; *)
(* the counters (REQ-7.2.3) agree with the outcomes.                       *)
(***************************************************************************)
ExactlyOneOutcome ==
  LET pending == EnvsOf(InState(tracker, "PENDING"))
  IN  /\ tracked = pending \union acked \union cancelled \union expired
      /\ acked \intersect (cancelled \union expired \union pending) = {}
      /\ cancelled \intersect (expired \union pending) = {}
      /\ expired \intersect pending = {}
      /\ tracker.acks_received = Cardinality(acked)
      /\ tracker.timeouts = Cardinality(expired)

(***************************************************************************)
(* A clock reading that goes backwards never postpones a timeout: the time *)
(* of the last sweep only grows, and no message stays PENDING whose        *)
(* deadline some sweep had already reached.                                *)
(***************************************************************************)
NoTimeoutPostponed ==
  [][/\ tracker'.m_last_sweep_us >= tracker.m_last_sweep_us
     /\ \A i \in InState(tracker', "PENDING") :
          tracker'.m_slots[i].deadline_us > tracker'.m_last_sweep_us]_vars

(***************************************************************************)
(* No slot leaks: every message that is tracked leaves the table, as long  *)
(* as the clock advances past its deadline.                                *)
(***************************************************************************)
SlotsDrain ==
  \A i \in AckIndex :
    (tracker.m_slots[i].state # "FREE" /\ clock + Timeout <= MaxTime)
      ~> tracker.m_slots[i].state = "FREE"
=============================================================================
