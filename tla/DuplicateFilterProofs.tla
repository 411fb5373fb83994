----------------------- MODULE DuplicateFilterProofs -----------------------
(***************************************************************************)
(* Proofs about DuplicateFilterSpec, for every window size and every set   *)
(* of sources and message ids.                                             *)
(***************************************************************************)
EXTENDS DuplicateFilterSpec, FiniteSetTheorems,
        WellFoundedInduction, TLAPS

\* A non-empty set of naturals has a least element: the order of the naturals is
\* well-founded.
LEMMA MinIsLeast ==
  ASSUME NEW S, S \subseteq Nat, S # {}
  PROVE  Min(S) \in S /\ \A y \in S : Min(S) <= y
<1> DEFINE R == OpToRel(<, Nat)
<1>1. IsWellFoundedOn(R, Nat)
  BY NatLessThanWellFounded, Zenon
<1>2. \A x, y \in Nat : y < x => <<y, x>> \in R
  BY DEF OpToRel
<1> HIDE DEF R
<1>3. PICK x \in S : \A y \in S : ~ (<<y, x>> \in R)
  BY <1>1, WFMin
<1>4. ASSUME NEW y \in S PROVE x <= y
  <2>1. x \in Nat /\ y \in Nat /\ ~ (<<y, x>> \in R)
    BY <1>3
  <2>2. ~ (y < x)
    BY <1>2, <2>1, Zenon
  <2>3. QED
    BY <2>1, <2>2
<1>5. QED
  BY <1>4 DEF Min

FillsInOrderF(f) ==
  /\ Valid(f) = 0 .. f.m_count - 1
  /\ f.m_count < DEDUP_WINDOW_SIZE => f.m_next = f.m_count

(***************************************************************************)
(* record() keeps the window well formed and filled in order.  In a full   *)
(* window every slot is valid, so it does not matter here which one is     *)
(* overwritten; before that the slot at m_next is the first unused one.    *)
(***************************************************************************)
LEMMA RecordFills ==
  ASSUME NEW f \in Filter, FillsInOrderF(f),
         NEW src \in Node, NEW id \in MessageId, NEW now \in Nat
  PROVE  LET g == record(f, src, id, now)
         IN  g \in Filter /\ FillsInOrderF(g)
<1> DEFINE g == record(f, src, id, now)
           i == IF f.m_count >= DEDUP_WINDOW_SIZE THEN find_evict_idx(f) ELSE f.m_next
           e == [valid |-> TRUE, src |-> src, msg_id |-> id, recorded_us |-> now]
           N == DEDUP_WINDOW_SIZE
<1>1. /\ g.m_window = [f.m_window EXCEPT ![i] = e]
      /\ g.m_next = (f.m_next + 1) % N
      /\ g.m_count = IF f.m_count < N THEN f.m_count + 1 ELSE f.m_count
  BY DEF record, NextIndex
<1>2. /\ f.m_window \in [WindowIndex -> Entry]
      /\ f.m_next \in WindowIndex
      /\ f.m_count \in 0 .. N
      /\ N \in Nat /\ N > 0
  BY DedupAssumption DEF Filter
<1>3. e \in Entry /\ e.valid
  BY DEF Entry
<1>4. /\ g.m_window \in [WindowIndex -> Entry]
      /\ \A j \in WindowIndex : g.m_window[j] = IF j = i THEN e ELSE f.m_window[j]
  <2> HIDE DEF i, e, g
  <2>1. QED
    BY <1>1, <1>2, <1>3
<1>5. g.m_next \in WindowIndex
  BY <1>1, <1>2 DEF WindowIndex
<1>6. g.m_count \in 0 .. N
  BY <1>1, <1>2
<1>7. g = [m_window |-> g.m_window, m_next |-> g.m_next, m_count |-> g.m_count]
  BY DEF record
<1>8. g \in Filter
  <2> HIDE DEF g
  <2>1. QED
    BY <1>4, <1>5, <1>6, <1>7 DEF Filter
<1>9. CASE f.m_count < N
  <2>1. i = f.m_count /\ i \in WindowIndex
    BY <1>2, <1>9 DEF FillsInOrderF, WindowIndex
  <2>2. Valid(g) = Valid(f) \union {f.m_count}
    <3> HIDE DEF g, i, e
    <3>1. QED
      BY <1>3, <1>4, <2>1 DEF Valid
  <2>3. Valid(g) = 0 .. g.m_count - 1
    BY <1>1, <1>2, <1>9, <2>2 DEF FillsInOrderF
  <2>4. g.m_count < N => g.m_next = g.m_count
    BY <1>1, <1>2, <1>9 DEF FillsInOrderF
  <2>5. QED
    BY <1>8, <2>3, <2>4 DEF FillsInOrderF
<1>10. CASE f.m_count = N
  <2>1. Valid(f) = WindowIndex
    BY <1>2, <1>10 DEF FillsInOrderF, WindowIndex
  <2>2. Valid(g) = WindowIndex
    <3> HIDE DEF g, i, e
    <3>1. QED
      BY <1>3, <1>4, <2>1 DEF Valid
  <2>3. g.m_count = N
    BY <1>1, <1>2, <1>10
  <2>4. QED
    BY <1>2, <1>8, <2>2, <2>3 DEF FillsInOrderF, WindowIndex
<1>11. QED
  BY <1>2, <1>9, <1>10

\* The window that init() leaves is empty and its write position is 0.
LEMMA InitFills == Init => TypeOK /\ FillsInOrderF(filter)
<1> SUFFICES ASSUME Init PROVE TypeOK /\ FillsInOrderF(filter)
  OBVIOUS
<1>1. init \in Filter
  BY DedupAssumption DEF init, Filter, Entry, WindowIndex
<1>2. Valid(init) = {} /\ init.m_count = 0 /\ init.m_next = 0
  BY DEF init, Valid, NoEntry
<1>3. FillsInOrderF(init)
  BY <1>2 DEF FillsInOrderF
<1>4. QED
  BY <1>1, <1>3 DEF Init, TypeOK

\* check_and_record() keeps the window filled from index 0 on.
LEMMA StepFills ==
  ASSUME TypeOK, FillsInOrderF(filter), [Next]_vars
  PROVE  TypeOK' /\ FillsInOrderF(filter)'
<1>1. CASE UNCHANGED vars
  BY <1>1 DEF vars, TypeOK, FillsInOrderF, Valid
<1>2. ASSUME NEW src \in Node, NEW id \in MessageId, CheckAndRecord(src, id)
      PROVE  TypeOK' /\ FillsInOrderF(filter)'
  <2> DEFINE Rec == [src : Node, msg_id : MessageId, at : Nat]
             e   == [src |-> src, msg_id |-> id, at |-> clock]
  <2>1. /\ filter' = check_and_record(filter, src, id, clock).filter
        /\ clock' = clock
        /\ accepted' \in {accepted, Append(accepted, e)}
    BY <1>2 DEF CheckAndRecord
  <2>4. accepted' \in Seq(Rec)
    <3>1. e \in Rec /\ accepted \in Seq(Rec)
      BY DEF TypeOK
    <3> HIDE DEF e, Rec
    <3>2. Append(accepted, e) \in Seq(Rec)
      BY <3>1
    <3>3. QED
      BY <2>1, <3>1, <3>2
  <2>2. filter' \in {filter, record(filter, src, id, clock)}
    BY <2>1 DEF check_and_record
  <2>3. filter' \in Filter /\ FillsInOrderF(filter')
    BY <2>2, RecordFills DEF TypeOK
  <2>5. QED
    BY <2>1, <2>3, <2>4 DEF TypeOK
<1>3. CASE Tick
  BY <1>3 DEF Tick, TypeOK, FillsInOrderF, Valid
<1>4. QED
  BY <1>1, <1>2, <1>3 DEF Next

(***************************************************************************)
(* record() leaves a well-formed window: m_next stays inside it and        *)
(* m_count never exceeds its size.                                         *)
(***************************************************************************)
THEOREM TypeCorrect == Spec => []TypeOK
<1>1. TypeOK /\ FillsInOrderF(filter) /\ [Next]_vars => (TypeOK /\ FillsInOrderF(filter))'
  BY StepFills
<1>2. QED
  BY <1>1, InitFills, PTL DEF Spec

(***************************************************************************)
(* Until the window is full record() only writes unused slots, for every   *)
(* window size: no live entry is forgotten early.                          *)
(***************************************************************************)
THEOREM WindowFillsInOrder == Spec => []FillsInOrder
<1>1. TypeOK /\ FillsInOrderF(filter) /\ [Next]_vars => (TypeOK /\ FillsInOrderF(filter))'
  BY StepFills
<1>2. FillsInOrderF(filter) => FillsInOrder
  BY DEF FillsInOrderF, FillsInOrder
<1>3. QED
  BY <1>1, <1>2, InitFills, PTL DEF Spec

-----------------------------------------------------------------------------
Accepted == [src : Node, msg_id : MessageId, at : Nat]

(***************************************************************************)
(* What the window f remembers of the history acc: g names, for every      *)
(* valid slot, the acceptance it stems from.  Slots stem from different    *)
(* acceptances, and one that no slot stems from was forgotten: that only   *)
(* happens to a full window, and in favour of acceptances no older.        *)
(***************************************************************************)
Remembers(f, acc, g) ==
  /\ \A i, j \in Valid(f) : g[i] = g[j] => i = j
  /\ \A i \in Valid(f) : /\ f.m_window[i].src = acc[g[i]].src
                         /\ f.m_window[i].msg_id = acc[g[i]].msg_id
                         /\ f.m_window[i].recorded_us = acc[g[i]].at
  /\ \A k \in 1 .. Len(acc) :
       (\A i \in Valid(f) : g[i] # k) =>
         /\ Valid(f) = WindowIndex
         /\ \A i \in Valid(f) : acc[k].at <= acc[g[i]].at

\* The clock does not run backwards between acceptances.
InTimeOrder(acc) == \A l \in 1 .. Len(acc) : \A k \in 1 .. l : acc[k].at <= acc[l].at

\* Acceptances after the i-th, and those before it that tie with it.
Counted(acc, i, n) == (i + 1 .. n) \union {k \in 1 .. i - 1 : acc[k].at = acc[i].at}

(***************************************************************************)
(* The inductive invariant for NoEarlyReacceptance.                        *)
(***************************************************************************)
WInv ==
  /\ TypeOK
  /\ FillsInOrderF(filter)
  /\ \A k \in 1 .. Len(accepted) : accepted[k].at <= clock
  /\ InTimeOrder(accepted)
  /\ \E g \in [Valid(filter) -> 1 .. Len(accepted)] : Remembers(filter, accepted, g)
  /\ NoEarlyReacceptance


\* A valid slot holds a complete entry.
LEMMA ValidFacts ==
  ASSUME NEW f \in Filter
  PROVE  /\ Valid(f) \subseteq WindowIndex
         /\ \A i \in Valid(f) : f.m_window[i].recorded_us \in Nat
<1>1. ASSUME NEW i \in Valid(f) PROVE f.m_window[i].recorded_us \in Nat
  <2>1. i \in WindowIndex /\ f.m_window[i] \in Entry
    BY DEF Filter, Valid
  <2>2. f.m_window[i] # NoEntry
    BY DEF Valid, NoEntry
  <2>3. QED
    BY <2>1, <2>2 DEF Entry
<1>2. QED
  BY <1>1 DEF Valid

\* A window with valid slots has an oldest one, so the slot that
\* find_evict_idx() falls back to exists and is oldest.
LEMMA OldestExists ==
  ASSUME NEW f \in Filter, Valid(f) # {}
  PROVE  /\ Min(Oldest(f)) \in Valid(f)
         /\ \A j \in Valid(f) :
              f.m_window[Min(Oldest(f))].recorded_us <= f.m_window[j].recorded_us
<1> DEFINE T == {f.m_window[i].recorded_us : i \in Valid(f)}
<1>1. T \subseteq Nat /\ T # {}
  BY ValidFacts
<1>2. Min(T) \in T /\ \A y \in T : Min(T) <= y
  BY <1>1, MinIsLeast
<1>3. PICK i \in Valid(f) : f.m_window[i].recorded_us = Min(T)
  BY <1>2
<1>4. i \in Oldest(f)
  BY <1>2, <1>3 DEF Oldest
<1>5. Oldest(f) \subseteq Nat /\ Oldest(f) # {}
  BY <1>4, ValidFacts, DedupAssumption DEF Oldest, WindowIndex
<1>6. Min(Oldest(f)) \in Oldest(f)
  BY <1>5, MinIsLeast
<1>7. QED
  BY <1>6 DEF Oldest

\* g is f with the entry e in slot i, an unused one or, in a full window, one
\* no other is older than.
Overwrites(g, f, i, e) ==
  /\ i \in WindowIndex
  /\ Valid(g) = Valid(f) \union {i}
  /\ g.m_window[i] = e
  /\ \A j \in Valid(f) \ {i} : g.m_window[j] = f.m_window[j]
  /\ i \in Valid(f) =>
       /\ Valid(f) = WindowIndex
       /\ \A j \in Valid(f) : f.m_window[i].recorded_us <= f.m_window[j].recorded_us

\* record() forgets nothing but an oldest entry of a full window.
LEMMA RecordOverwrites ==
  ASSUME NEW f \in Filter, FillsInOrderF(f),
         NEW src \in Node, NEW id \in MessageId, NEW now \in Nat
  PROVE  \E i \in WindowIndex :
           Overwrites(record(f, src, id, now), f, i,
                      [valid |-> TRUE, src |-> src, msg_id |-> id, recorded_us |-> now])
<1> DEFINE N == DEDUP_WINDOW_SIZE
           i == IF f.m_count >= N THEN find_evict_idx(f) ELSE f.m_next
           e == [valid |-> TRUE, src |-> src, msg_id |-> id, recorded_us |-> now]
           g == record(f, src, id, now)
<1>1. N \in Nat /\ N > 0 /\ f.m_count \in 0 .. N /\ f.m_window \in [WindowIndex -> Entry]
  BY DedupAssumption DEF Filter
<1>2. /\ i \in WindowIndex
      /\ i \in Valid(f) =>
           /\ Valid(f) = WindowIndex
           /\ \A j \in Valid(f) : f.m_window[i].recorded_us <= f.m_window[j].recorded_us
  <2>1. CASE f.m_count < N
    <3>1. i = f.m_count /\ Valid(f) = 0 .. f.m_count - 1
      BY <1>1, <2>1 DEF FillsInOrderF
    <3>2. i \in WindowIndex /\ i \notin Valid(f)
      BY <1>1, <2>1, <3>1 DEF WindowIndex
    <3>3. QED
      BY <3>2
  <2>2. CASE f.m_count = N
    <3>1. Valid(f) = WindowIndex /\ Valid(f) # {}
      <4>1. Valid(f) = WindowIndex
        BY <2>2 DEF FillsInOrderF, WindowIndex
      <4>2. 0 \in WindowIndex
        BY <1>1 DEF WindowIndex
      <4>3. QED
        BY <4>1, <4>2
    <3>2. i = Min(Oldest(f))
      BY <1>1, <2>2, <3>1 DEF find_evict_idx
    <3> HIDE DEF i
    <3>3. QED
      BY <3>1, <3>2, OldestExists
  <2>3. QED
    BY <1>1, <2>1, <2>2
<1>3. g.m_window = [f.m_window EXCEPT ![i] = e] /\ e.valid = TRUE
  BY DEF record
<1> HIDE DEF i, g, e
<1>4. g.m_window[i] = e /\ \A j \in WindowIndex \ {i} : g.m_window[j] = f.m_window[j]
  BY <1>1, <1>2, <1>3
<1>5. Valid(g) = Valid(f) \union {i}
  <2>1. \A j \in WindowIndex \ {i} : g.m_window[j].valid = f.m_window[j].valid
    BY <1>4
  <2>2. g.m_window[i].valid = TRUE
    BY <1>3, <1>4
  <2>3. QED
    BY <1>2, <2>1, <2>2 DEF Valid
<1>6. Overwrites(g, f, i, e)
  BY <1>2, <1>4, <1>5 DEF Overwrites, Valid
<1>7. QED
  BY <1>2, <1>6 DEF g, e

(***************************************************************************)
(* The window remembers the history after one more acceptance x, which the *)
(* overwritten slot now stems from.                                        *)
(***************************************************************************)
LEMMA RemembersMore ==
  ASSUME NEW f \in Filter, NEW h, NEW i, NEW e, Overwrites(h, f, i, e),
         NEW acc \in Seq(Accepted), NEW x \in Accepted,
         e.src = x.src, e.msg_id = x.msg_id, e.recorded_us = x.at,
         \A k \in 1 .. Len(acc) : acc[k].at <= x.at,
         NEW g \in [Valid(f) -> 1 .. Len(acc)], Remembers(f, acc, g)
  PROVE  \E g2 \in [Valid(h) -> 1 .. Len(Append(acc, x))] :
           Remembers(h, Append(acc, x), g2)
<1> DEFINE n  == Len(acc)
           a2 == Append(acc, x)
           g2 == [j \in Valid(h) |-> IF j = i THEN n + 1 ELSE g[j]]
<1>1. /\ n \in Nat /\ Len(a2) = n + 1 /\ a2[n + 1] = x
      /\ \A k \in 1 .. n : a2[k] = acc[k] /\ acc[k].at \in Nat /\ acc[k].at <= x.at
      /\ x.at \in Nat
  <2>1. n \in Nat /\ Len(a2) = n + 1 /\ a2[n + 1] = x
    OBVIOUS
  <2>2. \A k \in 1 .. n : a2[k] = acc[k] /\ acc[k] \in Accepted
    OBVIOUS
  <2>3. \A y \in Accepted : y.at \in Nat
    BY DEF Accepted
  <2>4. QED
    BY <2>1, <2>2, <2>3
<1>2. /\ Valid(h) = Valid(f) \union {i} /\ i \in Valid(h)
      /\ h.m_window[i] = e
      /\ \A j \in Valid(f) \ {i} : h.m_window[j] = f.m_window[j]
      /\ i \in Valid(f) =>
           /\ Valid(f) = WindowIndex
           /\ \A j \in Valid(f) : f.m_window[i].recorded_us <= f.m_window[j].recorded_us
      /\ i \in WindowIndex
  BY DEF Overwrites
<1>3. /\ g2[i] = n + 1
      /\ \A j \in Valid(h) \ {i} : /\ j \in Valid(f)
                                   /\ g2[j] = g[j] /\ g[j] \in 1 .. n /\ g2[j] # n + 1
  <2>1. \A j \in Valid(f) : g[j] \in 1 .. n /\ g[j] # n + 1
    BY <1>1
  <2>2. QED
    BY <1>2, <2>1
<1>4. g2 \in [Valid(h) -> 1 .. (n + 1)]
  <2>1. n + 1 \in 1 .. (n + 1) /\ 1 .. n \subseteq 1 .. (n + 1)
    BY <1>1
  <2>2. QED
    BY <1>3, <2>1
<1> HIDE DEF g2, a2, n
<1>5. \A j, k \in Valid(h) : g2[j] = g2[k] => j = k
  BY <1>3 DEF Remembers
<1>6. ASSUME NEW j \in Valid(h)
      PROVE  /\ h.m_window[j].src = a2[g2[j]].src
             /\ h.m_window[j].msg_id = a2[g2[j]].msg_id
             /\ h.m_window[j].recorded_us = a2[g2[j]].at
  <2>1. CASE j = i
    BY <1>1, <1>2, <1>3, <2>1
  <2>2. CASE j # i
    <3>1. j \in Valid(f) \ {i} /\ g2[j] = g[j] /\ a2[g[j]] = acc[g[j]]
      BY <1>1, <1>3, <2>2
    <3>2. QED
      BY <1>2, <3>1 DEF Remembers
  <2>3. QED
    BY <2>1, <2>2
<1>7. ASSUME NEW k \in 1 .. (n + 1), \A j \in Valid(h) : g2[j] # k
      PROVE  Valid(h) = WindowIndex /\ \A j \in Valid(h) : a2[k].at <= a2[g2[j]].at
  <2>1. k \in 1 .. n /\ a2[k] = acc[k]
    <3>1. k # n + 1
      BY <1>2, <1>3, <1>7
    <3>2. k \in 1 .. n
      BY <1>1, <3>1
    <3>3. QED
      BY <1>1, <3>2
  <2>2. Valid(f) = WindowIndex /\ \A j \in Valid(f) : acc[k].at <= acc[g[j]].at
    <3>1. CASE \A j \in Valid(f) : g[j] # k
      BY <2>1, <3>1 DEF Remembers, n
    <3>2. CASE \E j \in Valid(f) : g[j] = k
      <4>1. i \in Valid(f) /\ g[i] = k
        BY <1>2, <1>3, <1>7, <3>2
      <4>2. \A j \in Valid(f) : f.m_window[j].recorded_us = acc[g[j]].at
        BY DEF Remembers
      <4>3. QED
        BY <1>2, <4>1, <4>2
    <3>3. QED
      BY <3>1, <3>2
  <2>3. Valid(h) = WindowIndex
    BY <1>2, <2>2
  <2>4. ASSUME NEW j \in Valid(h) PROVE a2[k].at <= a2[g2[j]].at
    <3>1. CASE j = i
      BY <1>1, <1>3, <2>1, <3>1
    <3>2. CASE j # i
      <4>1. j \in Valid(f) /\ g2[j] = g[j] /\ a2[g[j]] = acc[g[j]]
        BY <1>1, <1>3, <3>2
      <4>2. QED
        BY <2>1, <2>2, <4>1
    <3>3. QED
      BY <3>1, <3>2
  <2>5. QED
    BY <2>3, <2>4
<1>8. Remembers(h, a2, g2)
  BY <1>1, <1>5, <1>6, <1>7 DEF Remembers
<1>9. QED
  BY <1>1, <1>4, <1>8 DEF a2


\* Why a repetition was let through: the acceptances that the window's slots
\* stem from are DEDUP_WINDOW_SIZE many, all different from i and none older;
\* those before i are not younger either.
LEMMA ForgottenLate ==
  ASSUME NEW f \in Filter, NEW acc \in Seq(Accepted),
         NEW g \in [Valid(f) -> 1 .. Len(acc)], Remembers(f, acc, g),
         NEW src, NEW id, ~is_duplicate(f, src, id),
         NEW i \in 1 .. Len(acc), acc[i].src = src, acc[i].msg_id = id,
         InTimeOrder(acc)
  PROVE  Cardinality(Counted(acc, i, Len(acc))) >= DEDUP_WINDOW_SIZE
<1> DEFINE n == Len(acc)
           K == Counted(acc, i, n)
<1>1. \A s \in Valid(f) : g[s] # i
  BY DEF Remembers, is_duplicate
<1>2. Valid(f) = WindowIndex /\ \A s \in Valid(f) : acc[i].at <= acc[g[s]].at
  BY <1>1 DEF Remembers
<1>3. \A k \in 1 .. n : acc[k].at \in Nat
  <2>1. \A k \in 1 .. n : acc[k] \in Accepted
    OBVIOUS
  <2>2. QED
    BY <2>1 DEF Accepted
<1>4. g \in Injection(WindowIndex, K)
  <2>1. ASSUME NEW s \in WindowIndex PROVE g[s] \in K
    <3>1. g[s] \in 1 .. n /\ g[s] # i /\ acc[i].at <= acc[g[s]].at
      BY <1>1, <1>2
    <3>2. CASE g[s] > i
      BY <3>1, <3>2 DEF Counted
    <3>3. CASE g[s] < i
      <4>1. acc[g[s]].at <= acc[i].at
        BY <3>1, <3>3 DEF InTimeOrder
      <4>2. acc[g[s]].at = acc[i].at /\ g[s] \in 1 .. i - 1
        BY <1>3, <3>1, <3>3, <4>1
      <4>3. QED
        BY <4>2 DEF Counted
    <3>4. QED
      BY <3>1, <3>2, <3>3
  <2>2. g \in [WindowIndex -> K]
    BY <1>2, <2>1
  <2>3. QED
    BY <1>2, <2>2 DEF Injection, IsInjective, Remembers
<1>5. IsFiniteSet(K) /\ Cardinality(K) \in Nat
  <2>1. IsFiniteSet(1 .. n)
    BY FS_Interval
  <2>2. K \in SUBSET (1 .. n)
    BY DEF Counted
  <2>3. QED
    BY <2>1, <2>2, FS_Subset, FS_CardinalityType
<1>6. Cardinality(WindowIndex) = DEDUP_WINDOW_SIZE /\ DEDUP_WINDOW_SIZE \in Nat
  <2>1. DEDUP_WINDOW_SIZE - 1 \in Int /\ DEDUP_WINDOW_SIZE \in Nat /\ DEDUP_WINDOW_SIZE > 0
    BY DedupAssumption
  <2>2. Cardinality(0 .. (DEDUP_WINDOW_SIZE - 1)) = (DEDUP_WINDOW_SIZE - 1) - 0 + 1
    BY <2>1, FS_Interval
  <2>3. QED
    BY <2>1, <2>2 DEF WindowIndex
<1> HIDE DEF K
<1>7. Cardinality(WindowIndex) <= Cardinality(K)
  BY <1>4, <1>5, FS_Injection
<1>8. QED
  BY <1>5, <1>6, <1>7 DEF K

\* The bookkeeping behind NoEarlyReacceptance holds of an empty window.
LEMMA InitRemembers == Init => WInv
<1> SUFFICES ASSUME Init PROVE WInv
  OBVIOUS
<1>1. TypeOK /\ FillsInOrderF(filter)
  BY InitFills
<1>2. accepted = <<>> /\ Len(accepted) = 0 /\ Valid(filter) = {}
  BY DEF Init, init, Valid, NoEntry
<1>3. \E g \in [Valid(filter) -> 1 .. Len(accepted)] : Remembers(filter, accepted, g)
  <2> DEFINE g == [i \in {} |-> 0]
  <2>1. g \in [Valid(filter) -> 1 .. Len(accepted)]
    BY <1>2
  <2>2. Remembers(filter, accepted, g)
    BY <1>2 DEF Remembers
  <2>3. QED
    BY <2>1, <2>2
<1>4. NoEarlyReacceptance
  BY <1>2 DEF NoEarlyReacceptance
<1>5. InTimeOrder(accepted) /\ \A k \in 1 .. Len(accepted) : accepted[k].at <= clock
  BY <1>2 DEF InTimeOrder
<1>6. QED
  BY <1>1, <1>3, <1>4, <1>5 DEF WInv

\* Every step keeps it: see ForgottenLate for the step that could break it.
LEMMA StepRemembers ==
  ASSUME WInv, [Next]_vars
  PROVE  WInv'
<1>1. TypeOK' /\ FillsInOrderF(filter)' /\ clock \in Nat /\ filter \in Filter
  BY StepFills DEF WInv, TypeOK
<1>2. accepted \in Seq(Accepted)
  BY DEF WInv, TypeOK, Accepted
<1>3. \A k \in 1 .. Len(accepted) : accepted[k].at \in Nat /\ accepted[k].at <= clock
  <2>1. \A k \in 1 .. Len(accepted) : accepted[k] \in Accepted
    BY <1>2
  <2>2. QED
    BY <2>1 DEF WInv, Accepted
<1>4. ASSUME filter' = filter, accepted' = accepted, clock' \in Nat, clock' >= clock
      PROVE  WInv'
  <2>1. \A k \in 1 .. Len(accepted') : accepted'[k].at <= clock'
    BY <1>1, <1>3, <1>4
  <2>2. /\ NoEarlyReacceptance'
        /\ InTimeOrder(accepted')
        /\ \E g \in [Valid(filter') -> 1 .. Len(accepted')] :
             Remembers(filter', accepted', g)
    BY <1>4 DEF WInv, NoEarlyReacceptance, Ties
  <2>3. QED
    BY <1>1, <2>1, <2>2 DEF WInv
<1>5. CASE UNCHANGED vars
  BY <1>1, <1>4, <1>5 DEF vars
<1>6. CASE Tick
  BY <1>1, <1>4, <1>6 DEF Tick
<1>7. ASSUME NEW src \in Node, NEW id \in MessageId, CheckAndRecord(src, id)
      PROVE  WInv'
  <2> DEFINE x == [src |-> src, msg_id |-> id, at |-> clock]
             e == [valid |-> TRUE, src |-> src, msg_id |-> id, recorded_us |-> clock]
             n == Len(accepted)
  <2>1. CASE is_duplicate(filter, src, id)
    <3>1. filter' = filter /\ accepted' = accepted /\ clock' = clock
      BY <1>7, <2>1 DEF CheckAndRecord, check_and_record
    <3>2. QED
      BY <1>1, <1>4, <3>1
  <2>2. CASE ~is_duplicate(filter, src, id)
    <3>1. /\ filter' = record(filter, src, id, clock)
          /\ accepted' = Append(accepted, x)
          /\ clock' = clock
      BY <1>7, <2>2 DEF CheckAndRecord, check_and_record
    <3>2. PICK g \in [Valid(filter) -> 1 .. n] : Remembers(filter, accepted, g)
      BY DEF WInv
    <3>3. PICK i \in WindowIndex : Overwrites(filter', filter, i, e)
      BY <1>1, <3>1, RecordOverwrites DEF WInv
    <3>4. /\ x \in Accepted /\ x.src = src /\ x.msg_id = id /\ x.at = clock
          /\ e.src = x.src /\ e.msg_id = x.msg_id /\ e.recorded_us = x.at
      BY <1>1 DEF Accepted
    <3> HIDE DEF x, e
    <3>5. \E g2 \in [Valid(filter') -> 1 .. Len(accepted')] :
            Remembers(filter', accepted', g2)
      BY <1>1, <1>2, <1>3, <3>1, <3>2, <3>3, <3>4, RemembersMore
    <3>6. /\ n \in Nat /\ Len(accepted') = n + 1 /\ accepted'[n + 1] = x
          /\ \A k \in 1 .. n : accepted'[k] = accepted[k]
      BY <1>2, <3>1, <3>4
    <3> HIDE DEF n
    <3>7. \A k \in 1 .. (n + 1) : accepted'[k].at <= clock'
      <4> SUFFICES ASSUME NEW k \in 1 .. (n + 1) PROVE accepted'[k].at <= clock'
        OBVIOUS
      <4>1. CASE k = n + 1
        BY <1>1, <3>1, <3>4, <3>6, <4>1
      <4>2. CASE k \in 1 .. n
        BY <1>3, <3>1, <3>6, <4>2 DEF n
      <4>3. QED
        BY <3>6, <4>1, <4>2
    <3>8. ASSUME NEW j \in 1 .. (n + 1), NEW k \in 1 .. j - 1,
                 SamePair(accepted'[k], accepted'[j])
          PROVE  Cardinality(Counted(accepted', k, j - 1)) >= DEDUP_WINDOW_SIZE
      <4>1. /\ k \in 1 .. n /\ accepted'[k] = accepted[k]
            /\ \A l \in 1 .. k - 1 : accepted'[l] = accepted[l]
        BY <3>6
      <4>2. Counted(accepted', k, j - 1) = Counted(accepted, k, j - 1)
        BY <4>1 DEF Counted
      <4>3. Cardinality(Counted(accepted, k, j - 1)) >= DEDUP_WINDOW_SIZE
        <5>1. CASE j = n + 1
          <6>1. accepted[k].src = src /\ accepted[k].msg_id = id /\ j - 1 = n
            BY <3>4, <3>6, <3>8, <4>1, <5>1 DEF SamePair
          <6>2. InTimeOrder(accepted)
            BY DEF WInv
          <6>3. Cardinality(Counted(accepted, k, n)) >= DEDUP_WINDOW_SIZE
            BY <1>1, <1>2, <2>2, <3>2, <4>1, <6>1, <6>2, ForgottenLate DEF n
          <6>4. QED
            BY <6>1, <6>3
        <5>2. CASE j \in 1 .. n
          <6>1. SamePair(accepted[k], accepted[j])
            BY <3>6, <3>8, <4>1, <5>2
          <6>2. QED
            BY <5>2, <6>1 DEF WInv, NoEarlyReacceptance, Ties, Counted, n
        <5>3. QED
          BY <3>6, <5>1, <5>2
      <4>4. QED
        BY <4>2, <4>3
    <3>9. NoEarlyReacceptance'
      BY <3>6, <3>8 DEF NoEarlyReacceptance, SamePair, Ties, Counted
    <3>10. InTimeOrder(accepted')
      <4> SUFFICES ASSUME NEW l \in 1 .. (n + 1), NEW k \in 1 .. l
                   PROVE  accepted'[k].at <= accepted'[l].at
        BY <3>6 DEF InTimeOrder
      <4>1. CASE l = n + 1
        BY <3>1, <3>4, <3>6, <3>7, <4>1
      <4>2. CASE l \in 1 .. n
        BY <3>6, <4>2 DEF WInv, InTimeOrder, n
      <4>3. QED
        BY <3>6, <4>1, <4>2
    <3>11. QED
      BY <1>1, <3>5, <3>6, <3>7, <3>9, <3>10 DEF WInv
  <2>3. QED
    BY <2>1, <2>2
<1>8. QED
  BY <1>5, <1>6, <1>7 DEF Next

(***************************************************************************)
(* The window's promise to the receiver, for every window size and every   *)
(* history: a message is accepted a second time only after as many others  *)
(* as the window has slots; besides the later ones only those count that   *)
(* bear its own timestamp, among which find_evict_idx() goes by index.     *)
(***************************************************************************)
THEOREM ReacceptedLate == Spec => []NoEarlyReacceptance
<1>1. WInv /\ [Next]_vars => WInv'
  BY StepRemembers
<1>2. WInv => NoEarlyReacceptance
  BY DEF WInv
<1>3. QED
  BY <1>1, <1>2, InitRemembers, PTL DEF Spec
===============================================================================
