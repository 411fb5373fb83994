------------------------ MODULE DuplicateFilterSpec ------------------------
(***************************************************************************)
(* The DuplicateFilter fed with any sequence of (source, id) pairs at      *)
(* times that do not decrease; several arrivals may share a timestamp.     *)
(***************************************************************************)
EXTENDS DuplicateFilter, Sequences

CONSTANTS
  MaxTime,       \* bound on the clock
  MaxAccepted    \* bound on the history of accepted messages

ASSUME DedupSpecAssumption == MaxTime \in Nat /\ MaxAccepted \in Nat

VARIABLES
  filter,        \* the DuplicateFilter object
  clock,         \* CLOCK_MONOTONIC
  accepted       \* history: the entries for which the filter returned OK

vars == <<filter, clock, accepted>>

Init == /\ filter   = init
        /\ clock    = 1
        /\ accepted = <<>>

CheckAndRecord(src, id) ==
  LET r == check_and_record(filter, src, id, clock)
  IN  /\ filter'   = r.filter
      /\ accepted' = IF r.res = "OK"
                       THEN Append(accepted, [src |-> src, msg_id |-> id,
                                              at |-> clock])
                       ELSE accepted
      /\ Len(accepted') <= MaxAccepted
      /\ clock' = clock

Tick == /\ clock < MaxTime
        /\ clock' = clock + 1
        /\ UNCHANGED <<filter, accepted>>

Next == \/ \E src \in Node, id \in MessageId : CheckAndRecord(src, id)
        \/ Tick

Spec == Init /\ [][Next]_vars
-----------------------------------------------------------------------------
TypeOK == /\ filter \in Filter
          /\ clock \in Nat
          /\ accepted \in Seq([src : Node, msg_id : MessageId, at : Nat])

(***************************************************************************)
(* Until the window is full the write pointer and the count move together  *)
(* over unused slots, so record() never overwrites a live entry early and  *)
(* find_evict_idx() is only called on a window without unused slots.       *)
(***************************************************************************)
FillsInOrder ==
  /\ Valid(filter) = 0 .. filter.m_count - 1
  /\ filter.m_count < DEDUP_WINDOW_SIZE => filter.m_next = filter.m_count

SamePair(a, b) == a.src = b.src /\ a.msg_id = b.msg_id

\* Acceptances before the i-th that bear its timestamp.
Ties(i) == {k \in 1 .. i - 1 : accepted[k].at = accepted[i].at}

(***************************************************************************)
(* What a receiver may rely on: between two acceptances of a message lie   *)
(* at least DEDUP_WINDOW_SIZE others, save as many as were accepted before *)
(* it under the same timestamp.  With distinct timestamps a full window of *)
(* later messages must come first.  Among equal ones find_evict_idx() goes *)
(* by index, not by age (with three slots and A, B, C, D, E at one time,   *)
(* E takes the place of D, the newest), so each tie weakens the promise by *)
(* one; nothing else does.                                                 *)
(***************************************************************************)
NoEarlyReacceptance ==
  \A j \in 1 .. Len(accepted) : \A i \in 1 .. j - 1 :
    SamePair(accepted[i], accepted[j]) =>
      Cardinality((i + 1 .. j - 1) \union Ties(i)) >= DEDUP_WINDOW_SIZE
=============================================================================
