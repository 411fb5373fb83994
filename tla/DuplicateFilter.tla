-------------------------- MODULE DuplicateFilter --------------------------
(***************************************************************************)
(* src/core/DuplicateFilter.cpp as a data type: a window of the (source,   *)
(* message id) pairs seen last.  Slots are numbered from 0 as in the code, *)
(* because m_next wraps around with `%'.                                   *)
(***************************************************************************)
EXTENDS MessageEnvelope, FiniteSets, FiniteSetsExt

CONSTANT DEDUP_WINDOW_SIZE

ASSUME DedupAssumption == DEDUP_WINDOW_SIZE \in Nat \ {0}

WindowIndex == 0 .. DEDUP_WINDOW_SIZE - 1

NoEntry == [valid |-> FALSE]

Entry == {NoEntry} \union [valid : {TRUE}, src : Node, msg_id : MessageId,
                           recorded_us : Nat]

Filter == [m_window : [WindowIndex -> Entry],
           m_next   : WindowIndex,
           m_count  : 0 .. DEDUP_WINDOW_SIZE]

init == [m_window |-> [i \in WindowIndex |-> NoEntry],
         m_next   |-> 0,
         m_count  |-> 0]

Valid(f) == {i \in WindowIndex : f.m_window[i].valid}

is_duplicate(f, src, msg_id) ==
  \E i \in Valid(f) : /\ f.m_window[i].src = src
                      /\ f.m_window[i].msg_id = msg_id

\* Valid slots that no other valid slot is older than.
Oldest(f) == {i \in Valid(f) : \A j \in Valid(f) :
                f.m_window[i].recorded_us <= f.m_window[j].recorded_us}

\* Mutant: the ring position, as before the fix that the code calls SECfix-3,
\* started one slot too far.
find_evict_idx_Ring(f) == (f.m_next + 1) % DEDUP_WINDOW_SIZE

\* An unused slot if there is one, else the oldest entry; the lowest index
\* wins in both cases.
find_evict_idx(f) ==
  IF Valid(f) # WindowIndex THEN Min(WindowIndex \ Valid(f)) ELSE Min(Oldest(f))

\* Mutant: the write position does not wrap around.
NextIndex_NoWrap(f) == f.m_next + 1

\* Mutant: the write position moves on once too often.
NextIndex_Skips(f) == (f.m_next + 2) % DEDUP_WINDOW_SIZE

\* The write position after record(); used until the window is full.
NextIndex(f) == (f.m_next + 1) % DEDUP_WINDOW_SIZE

record(f, src, msg_id, now_us) ==
  LET i == IF f.m_count >= DEDUP_WINDOW_SIZE THEN find_evict_idx(f) ELSE f.m_next
  IN  [m_window |-> [f.m_window EXCEPT ![i] = [valid       |-> TRUE,
                                               src         |-> src,
                                               msg_id      |-> msg_id,
                                               recorded_us |-> now_us]],
       m_next   |-> NextIndex(f),
       m_count  |-> IF f.m_count < DEDUP_WINDOW_SIZE THEN f.m_count + 1
                                                     ELSE f.m_count]

check_and_record(f, src, msg_id, now_us) ==
  IF is_duplicate(f, src, msg_id)
    THEN [res |-> "ERR_DUPLICATE", filter |-> f]
    ELSE [res |-> "OK", filter |-> record(f, src, msg_id, now_us)]
=============================================================================
