------------------------- MODULE OrderingBufferSpec -------------------------
(***************************************************************************)
(* The OrderingBuffer under the protocol its caller follows.  The network  *)
(* may lose, repeat and reorder what a source sends.  After every data     *)
(* message that ingest() or try_release_next() hands out, DeliveryEngine   *)
(* asks for the next held one of the same source before it ingests again;  *)
(* sweeps and resets may come in between.                                  *)
(*                                                                         *)
(* An epoch of a source begins when its gate is (re)set to 1: when it      *)
(* reconnects, is evicted from the peer table or wraps around.             *)
(***************************************************************************)
EXTENDS OrderingBuffer

CONSTANTS
  MaxTime,      \* bound on the clock
  MaxSession,   \* bound on the sessions of a source
  Message       \* what the network may deliver; message_id is the session

ASSUME OrderingSpecAssumption == /\ MaxTime \in Nat
                                 /\ MaxSession \in Nat \ {0}
                                 /\ Message \subseteq Envelope

VARIABLES
  buffer,       \* the OrderingBuffer object
  clock,        \* CLOCK_MONOTONIC
  releasing,    \* the source whose held messages the caller is draining
  session,      \* per source: how often it has connected
  delivered,    \* history: sequence numbers handed out in this epoch
  reported      \* history: sequence numbers reported expired in this epoch

vars == <<buffer, clock, releasing, session, delivered, reported>>

Init == /\ buffer    = init
        /\ clock     = 1
        /\ releasing = NODE_ID_INVALID
        /\ session   = [n \in Node |-> 1]
        /\ delivered = [n \in Node |-> <<>>]
        /\ reported  = [n \in Node |-> {}]

\* The expected number of src, 1 when src has no peer entry.
Expected(o, src) ==
  IF find_peer(o, src) = {} THEN 1
    ELSE o.m_peers[CHOOSE i \in find_peer(o, src) : TRUE].next_expected_seq

Evicted(n) == find_peer(buffer, n) # {} /\ find_peer(buffer', n) = {}

\* The histories after the envelopes of out were handed out.
Deliver(out) ==
  LET got(n)  == {e \in out : Ordered(e) /\ e.source_id = n}
      over(n) == Evicted(n) \/ \E e \in got(n) : e.sequence_num = SEQ_MAX
  IN  /\ delivered' = [n \in Node |->
                         IF over(n) THEN <<>>
                         ELSE IF got(n) = {} THEN delivered[n]
                         ELSE Append(delivered[n],
                                     (CHOOSE e \in got(n) : TRUE).sequence_num)]
      /\ reported' = [n \in Node |-> IF over(n) THEN {} ELSE reported[n]]

Ingest(m) ==
  /\ releasing = NODE_ID_INVALID
  /\ m.message_id = session[m.source_id]
  /\ LET r == ingest(buffer, m)
     IN  /\ buffer' = r.buffer
         /\ Deliver(IF r.res = "OK" THEN {m} ELSE {})
         /\ releasing' = IF r.res = "OK" /\ ~envelope_is_control(m)
                           THEN m.source_id ELSE NODE_ID_INVALID
  /\ UNCHANGED <<clock, session>>

TryReleaseNext ==
  /\ releasing # NODE_ID_INVALID
  /\ LET r == try_release_next(buffer, releasing)
     IN  /\ buffer' = r.buffer
         /\ Deliver(r.out)
         /\ releasing' = IF r.res = "OK" THEN releasing ELSE NODE_ID_INVALID
  /\ UNCHANGED <<clock, session>>

SweepExpiredHolds ==
  LET r == sweep_expired_holds(buffer, clock, ORDERING_HOLD_COUNT)
  IN  /\ buffer' = r.buffer
      /\ reported' = [n \in Node |-> reported[n] \union
                        {r.freed[k].sequence_num :
                           k \in {k \in DOMAIN r.freed : r.freed[k].source_id = n}}]
      /\ UNCHANGED <<clock, releasing, session, delivered>>

\* src reconnects (HELLO); what it sent before is gone with its connection.
ResetPeer(src) ==
  /\ session[src] < MaxSession
  /\ session'   = [session EXCEPT ![src] = @ + 1]
  /\ buffer'    = reset_peer(buffer, src)
  /\ delivered' = [delivered EXCEPT ![src] = <<>>]
  /\ reported'  = [reported EXCEPT ![src] = {}]
  /\ releasing' = IF releasing = src THEN NODE_ID_INVALID ELSE releasing
  /\ UNCHANGED clock

Tick == /\ clock < MaxTime
        /\ clock' = clock + 1
        /\ UNCHANGED <<buffer, releasing, session, delivered, reported>>

Next == \/ \E m \in Message : Ingest(m)
        \/ TryReleaseNext
        \/ SweepExpiredHolds
        \/ \E src \in Node : ResetPeer(src)
        \/ Tick

Spec == Init /\ [][Next]_vars
-----------------------------------------------------------------------------
TypeOK == /\ buffer \in Buffer
          /\ clock \in Nat
          /\ releasing \in Node \union {NODE_ID_INVALID}
          /\ session \in [Node -> Nat]
          /\ delivered \in [Node -> Seq(Nat)]
          /\ reported \in [Node -> SUBSET Nat]

(***************************************************************************)
(* A held message always has a gate that can release it: its source is in  *)
(* the peer table, in one slot only.  Evicting a peer with held messages   *)
(* would strand them, and a hold slot with them, for good.                 *)
(***************************************************************************)
HoldsHavePeer ==
  /\ \A h \in Held(buffer) :
       find_peer(buffer, buffer.m_hold[h].env.source_id) # {}
  /\ \A i, j \in PeerIndex :
       /\ buffer.m_peers[i].active
       /\ buffer.m_peers[j].active
       /\ buffer.m_peers[i].src = buffer.m_peers[j].src
       => i = j

(***************************************************************************)
(* No source takes more than its share of the hold pool (SECfix-7), and no *)
(* message takes two slots of it however often it is retransmitted.        *)
(***************************************************************************)
FairShare ==
  /\ \A n \in Node : Cardinality(HeldFrom(buffer, n)) <= k_hold_per_peer_max
  /\ \A g, h \in Held(buffer) :
       /\ buffer.m_hold[g].env.source_id = buffer.m_hold[h].env.source_id
       /\ buffer.m_hold[g].env.sequence_num = buffer.m_hold[h].env.sequence_num
       => g = h

(***************************************************************************)
(* Within an epoch the numbers handed out only increase (so nothing is     *)
(* delivered twice), whatever the network repeats or reorders and however  *)
(* sweeps and resets interleave with the draining of held messages.        *)
(***************************************************************************)
InOrder ==
  \A n \in Node : \A j \in 1 .. Len(delivered[n]) :
    /\ delivered[n][j] < Expected(buffer, n)
    /\ \A i \in 1 .. j - 1 : delivered[n][i] < delivered[n][j]

(***************************************************************************)
(* A number that the gate has passed was handed out, unless a message with *)
(* that or a higher number was reported as expired: the gate never skips a *)
(* message for any other reason.                                           *)
(***************************************************************************)
GapsOnlyAfterExpiry ==
  \A n \in Node : \A s \in 1 .. Expected(buffer, n) - 1 :
    \/ \E j \in 1 .. Len(delivered[n]) : delivered[n][j] = s
    \/ \E t \in reported[n] : s <= t

(***************************************************************************)
(* A reconnect leaves nothing of the old session behind that could be      *)
(* delivered into the new one.                                             *)
(***************************************************************************)
HeldAreCurrent ==
  \A h \in Held(buffer) :
    buffer.m_hold[h].env.message_id = session[buffer.m_hold[h].env.source_id]
=============================================================================
