--------------------------- MODULE OrderingBuffer ---------------------------
(***************************************************************************)
(* src/core/OrderingBuffer.cpp as a data type: per source the sequence     *)
(* number expected next, and a small shared pool of messages that arrived  *)
(* too early.  Array indices start at 1.                                   *)
(*                                                                         *)
(* lru_stamp and m_lru_counter are written but never read (eviction takes  *)
(* the first peer without held messages), so they are left out.            *)
(***************************************************************************)
EXTENDS MessageEnvelope, FiniteSets, FiniteSetsExt, Sequences

CONSTANTS
  ORDERING_HOLD_COUNT,   \* 8 in the code
  ORDERING_PEER_COUNT,   \* 16 in the code
  SEQ_MAX                \* UINT32_MAX; 0 marks an unordered message

\* The second conjunct is the static_assert at the top of the source file.
ASSUME OrderingAssumption == /\ ORDERING_HOLD_COUNT \in Nat \ {0}
                             /\ ORDERING_PEER_COUNT \in Nat
                             /\ ORDERING_HOLD_COUNT < ORDERING_PEER_COUNT
                             /\ SEQ_MAX \in Nat \ {0}

HoldIndex == 1 .. ORDERING_HOLD_COUNT
PeerIndex == 1 .. ORDERING_PEER_COUNT

NoHold == [active |-> FALSE]
NoPeer == [active |-> FALSE]

HoldSlot  == {NoHold} \union [active : {TRUE}, env : Envelope]
PeerState == {NoPeer} \union [active : {TRUE}, src : Node,
                              next_expected_seq : 1 .. SEQ_MAX]

Buffer == [m_hold  : [HoldIndex -> HoldSlot],
           m_peers : [PeerIndex -> PeerState]]

init == [m_hold  |-> [i \in HoldIndex |-> NoHold],
         m_peers |-> [i \in PeerIndex |-> NoPeer]]

Held(o) == {i \in HoldIndex : o.m_hold[i].active}

HeldFrom(o, src) == {i \in Held(o) : o.m_hold[i].env.source_id = src}

HeldAs(o, src, seq) ==
  {i \in HeldFrom(o, src) : o.m_hold[i].env.sequence_num = seq}

find_peer(o, src) ==
  {i \in PeerIndex : o.m_peers[i].active /\ o.m_peers[i].src = src}

\* Mutant: any peer may be evicted.
PeersWithoutHolds_Any(o) == {i \in PeerIndex : o.m_peers[i].active}

PeersWithoutHolds(o) ==
  {i \in PeerIndex : /\ o.m_peers[i].active
                     /\ HeldFrom(o, o.m_peers[i].src) = {}}

\* Where get_or_create_peer() puts src: its own slot, else the first unused
\* slot, else the first slot whose peer holds nothing (evict_lru_peer).
PeerSlotFor(o, src) ==
  LET unused == {i \in PeerIndex : ~o.m_peers[i].active}
  IN  CASE find_peer(o, src) # {} -> Min(find_peer(o, src))
        [] find_peer(o, src) = {} /\ unused # {} -> Min(unused)
        [] OTHER -> Min(PeersWithoutHolds(o))

get_or_create_peer(o, src) ==
  IF find_peer(o, src) # {} THEN o
    ELSE [o EXCEPT !.m_peers[PeerSlotFor(o, src)] =
                     [active |-> TRUE, src |-> src, next_expected_seq |-> 1]]

\* 0 is skipped when the counter wraps.
advance_next_expected(seq) == IF seq = SEQ_MAX THEN 1 ELSE seq + 1

Ordered(msg) == ~envelope_is_control(msg) /\ msg.sequence_num # 0

k_hold_per_peer_max == ORDERING_HOLD_COUNT \div 2

\* Mutant: the limit per source is missing.
hold_NoLimit(o, msg) ==
  IF HeldAs(o, msg.source_id, msg.sequence_num) # {}
    THEN [res |-> "ERR_AGAIN", buffer |-> o]
    ELSE IF Held(o) = HoldIndex
    THEN [res |-> "ERR_FULL", buffer |-> o]
    ELSE [res    |-> "ERR_AGAIN",
          buffer |-> [o EXCEPT !.m_hold[Min(HoldIndex \ Held(o))] =
                                 [active |-> TRUE, env |-> msg]]]

\* Mutant: the message is not stored.
hold_Forgets(o, msg) == [res |-> "ERR_AGAIN", buffer |-> o]

\* The out-of-order end of ingest().
hold(o, msg) ==
  CASE HeldAs(o, msg.source_id, msg.sequence_num) # {} ->
         [res |-> "ERR_AGAIN", buffer |-> o]
    [] /\ HeldAs(o, msg.source_id, msg.sequence_num) = {}
       /\ \/ Cardinality(HeldFrom(o, msg.source_id)) >= k_hold_per_peer_max
          \/ Held(o) = HoldIndex ->
         [res |-> "ERR_FULL", buffer |-> o]
    [] OTHER ->
         [res    |-> "ERR_AGAIN",
          buffer |-> [o EXCEPT !.m_hold[Min(HoldIndex \ Held(o))] =
                                 [active |-> TRUE, env |-> msg]]]

\* Mutant: a message older than the expected one is delivered again.
ingest_NoOldCheck(o, msg) ==
  IF ~Ordered(msg)
    THEN [res |-> "OK", buffer |-> o]
    ELSE LET i == PeerSlotFor(o, msg.source_id)
             p == get_or_create_peer(o, msg.source_id)
             expected == p.m_peers[i].next_expected_seq
         IN  IF msg.sequence_num > expected
               THEN hold(p, msg)
               ELSE [res    |-> "OK",
                     buffer |-> [p EXCEPT !.m_peers[i].next_expected_seq =
                                            advance_next_expected(@)]]

\* On OK the caller delivers msg itself.
ingest(o, msg) ==
  IF ~Ordered(msg)
    THEN [res |-> "OK", buffer |-> o]
    ELSE LET i == PeerSlotFor(o, msg.source_id)
             p == get_or_create_peer(o, msg.source_id)
             expected == p.m_peers[i].next_expected_seq
         IN  CASE msg.sequence_num < expected ->
                    [res |-> "ERR_AGAIN", buffer |-> p]
               [] msg.sequence_num = expected ->
                    [res    |-> "OK",
                     buffer |-> [p EXCEPT !.m_peers[i].next_expected_seq =
                                            advance_next_expected(@)]]
               [] msg.sequence_num > expected -> hold(p, msg)

Unhold(o, S) ==
  [o EXCEPT !.m_hold = [h \in HoldIndex |-> IF h \in S THEN NoHold
                                                       ELSE o.m_hold[h]]]

\* The slot that holds what src's gate waits for, if any.
ReleasableFrom(o, src) ==
  UNION {HeldAs(o, src, o.m_peers[i].next_expected_seq) : i \in find_peer(o, src)}

\* On OK, out is the envelope released.
try_release_next(o, src) ==
  IF ReleasableFrom(o, src) = {}
    THEN [res |-> "ERR_AGAIN", out |-> {}, buffer |-> o]
    ELSE LET h == Min(ReleasableFrom(o, src))
             i == Min(find_peer(o, src))
         IN  [res    |-> "OK",
              out    |-> {o.m_hold[h].env},
              buffer |-> [Unhold(o, {h}) EXCEPT !.m_peers[i].next_expected_seq =
                                                  advance_next_expected(@)]]

\* Mutant: the held messages of the old session stay.
reset_peer_KeepsHolds(o, src) ==
  IF find_peer(o, src) = {} THEN o
    ELSE [o EXCEPT !.m_peers[Min(find_peer(o, src))].next_expected_seq = 1]

reset_peer(o, src) ==
  IF find_peer(o, src) = {} THEN o
    ELSE [Unhold(o, HeldFrom(o, src))
            EXCEPT !.m_peers[Min(find_peer(o, src))].next_expected_seq = 1]

advance_sequence(o, src, up_to_seq) ==
  IF find_peer(o, src) = {} THEN o
    ELSE LET i     == Min(find_peer(o, src))
             stale == {h \in HeldFrom(o, src) :
                         o.m_hold[h].env.sequence_num < up_to_seq}
         IN  IF up_to_seq > o.m_peers[i].next_expected_seq
               THEN [Unhold(o, stale) EXCEPT !.m_peers[i].next_expected_seq = up_to_seq]
               ELSE o

\* Mutant: one number too far.
seq_next_guarded_OffByOne(seq) == IF seq + 1 < SEQ_MAX THEN seq + 2 ELSE 1

seq_next_guarded(seq) == IF seq < SEQ_MAX THEN seq + 1 ELSE 1

ExpiredHolds(o, now_us) ==
  {h \in Held(o) : timestamp_expired(o.m_hold[h].env.expiry_time_us, now_us)}

\* One iteration of the loop of sweep_expired_holds(): a hold that an earlier
\* iteration has freed is skipped.
SweepHold(s, h, now_us, out_cap) ==
  IF h \notin ExpiredHolds(s.buffer, now_us) THEN s
    ELSE LET env == s.buffer.m_hold[h].env
         IN  [freed  |-> IF Len(s.freed) < out_cap THEN Append(s.freed, env)
                                                   ELSE s.freed,
              buffer |-> Unhold(advance_sequence(s.buffer, env.source_id,
                                  seq_next_guarded(env.sequence_num)), {h})]

sweep_expired_holds(o, now_us, out_cap) ==
  LET sweep[n \in 0 .. ORDERING_HOLD_COUNT] ==
        IF n = 0 THEN [freed |-> <<>>, buffer |-> o]
                 ELSE SweepHold(sweep[n - 1], n, now_us, out_cap)
  IN  sweep[ORDERING_HOLD_COUNT]
=============================================================================
