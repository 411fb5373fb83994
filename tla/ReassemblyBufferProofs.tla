----------------------- MODULE ReassemblyBufferProofs -----------------------
(***************************************************************************)
(* Proofs about ReassemblyBufferSpec, for every number of slots, every     *)
(* size and number of fragments, and all messages and stray frames that    *)
(* FramesAssumption allows, frames of the wrong size among them.           *)
(***************************************************************************)
EXTENDS ReassemblyBufferSpec, FiniteSetTheorems, SequenceTheorems,
        WellFoundedInduction, TLAPS

\* A non-empty set of naturals has a least element: the order of the naturals is
\* well-founded.
LEMMA MinIsLeast ==
  ASSUME NEW S, S \subseteq Nat, S # {}
  PROVE  Min(S) \in S /\ \A y \in S : Min(S) <= y
<1> DEFINE R == OpToRel(<, Nat)
<1>1. IsWellFoundedOn(R, Nat)
  BY NatLessThanWellFounded, Zenon
<1>2. \A x, y \in Nat : y < x => <<y, x>> \in R
  BY DEF OpToRel
<1> HIDE DEF R
<1>3. PICK x \in S : \A y \in S : ~ (<<y, x>> \in R)
  BY <1>1, WFMin
<1>4. ASSUME NEW y \in S PROVE x <= y
  <2>1. x \in Nat /\ y \in Nat /\ ~ (<<y, x>> \in R)
    BY <1>3
  <2>2. ~ (y < x)
    BY <1>2, <2>1, Zenon
  <2>3. QED
    BY <2>1, <2>2
<1>5. QED
  BY <1>4 DEF Min

\* A bag after copies of the elements of S were added to it.
LEMMA CopiesAdded ==
  ASSUME NEW B, IsABag(B), NEW S
  PROVE  LET C == B (+) SetToBag(S)
         IN  /\ IsABag(C) /\ BagToSet(C) = BagToSet(B) \union S
             /\ \A x : Copies(x, C) = Copies(x, B) + (IF x \in S THEN 1 ELSE 0)
<1> DEFINE C == B (+) SetToBag(S)
<1>1. /\ DOMAIN SetToBag(S) = S /\ \A x \in S : SetToBag(S)[x] = 1
  BY DEF SetToBag
<1>2. \A x \in DOMAIN B : B[x] \in Nat /\ B[x] > 0
  BY DEF IsABag
<1>3. C = [x \in (DOMAIN B) \cup S |-> (IF x \in DOMAIN B THEN B[x] ELSE 0)
                                       + (IF x \in S THEN SetToBag(S)[x] ELSE 0)]
  BY <1>1 DEF (+)
<1>4. DOMAIN C = DOMAIN B \union S
  BY <1>3
<1>5. \A x \in DOMAIN C : C[x] = (IF x \in DOMAIN B THEN B[x] ELSE 0)
                                   + (IF x \in S THEN 1 ELSE 0)
  BY <1>1, <1>3, <1>4
<1>6. C = [x \in DOMAIN C |-> C[x]]
  BY <1>3
<1> HIDE DEF C
<1>7. IsABag(C)
  <2>1. \A x \in DOMAIN C : C[x] \in {n \in Nat : n > 0}
    BY <1>2, <1>4, <1>5
  <2>2. QED
    BY <1>6, <2>1 DEF IsABag
<1>8. ASSUME NEW x
      PROVE  Copies(x, C) = Copies(x, B) + (IF x \in S THEN 1 ELSE 0)
  BY <1>2, <1>4, <1>5 DEF Copies, BagIn, BagToSet
<1>9. QED
  BY <1>4, <1>7, <1>8 DEF C, BagToSet

-----------------------------------------------------------------------------
(* Cutting a message into frames.                                          *)

F == FRAG_MAX_PAYLOAD_BYTES

LEMMA Blocks ==
  ASSUME NEW b \in Nat, NEW c \in Nat, b < c
  PROVE  /\ b * F \in Nat /\ c * F \in Nat /\ b * F + F <= c * F
<1>1. F \in Nat /\ F > 0
  BY ReassemblyAssumption DEF F
<1> HIDE DEF F
<1>2. PICK d \in Nat : c = b + 1 + d
  <2>1. c - b - 1 \in Nat /\ c = b + 1 + (c - b - 1)
    OBVIOUS
  <2>2. QED
    BY <2>1
<1>3. b * F \in Nat /\ d * F \in Nat
  BY <1>1
<1>4. c * F = b * F + F + d * F
  BY <1>1, <1>2
<1>5. QED
  BY <1>1, <1>3, <1>4

LEMMA BlockOf ==
  ASSUME NEW t \in Nat
  PROVE  LET q == t \div F
         IN  q \in Nat /\ q * F \in Nat /\ q * F <= t /\ t < q * F + F
<1>1. F \in Nat /\ F > 0
  BY ReassemblyAssumption DEF F
<1> HIDE DEF F
<1>2. QED
  BY <1>1

\* The number of frames of a message.
Count(m) == IF Len(m.payload) = 0 THEN 1 ELSE (Len(m.payload) + F - 1) \div F

LEMMA CountFacts ==
  ASSUME NEW m \in Envelope
  PROVE  /\ Count(m) \in Nat \ {0} /\ Len(m.payload) \in Nat
         /\ (Count(m) - 1) * F \in Nat /\ (Count(m) - 1) * F <= Len(m.payload)
         /\ Len(m.payload) <= (Count(m) - 1) * F + F
         /\ Count(m) > 1 => (Count(m) - 1) * F < Len(m.payload)
<1> DEFINE n == Len(m.payload)
           q == (n + F - 1) \div F
<1>1. F \in Nat /\ F > 0
  BY ReassemblyAssumption DEF F
<1>2. n \in Nat
  BY DEF Envelope
<1> HIDE DEF F, n
<1>3. CASE n = 0
  <2>1. Count(m) = 1 /\ (1 - 1) * F = 0
    BY <1>1, <1>3 DEF Count, n
  <2>2. QED
    BY <1>1, <1>2, <1>3, <2>1 DEF n
<1>4. CASE n > 0
  <2>1. Count(m) = q
    BY <1>2, <1>4 DEF Count, n
  <2>2. n + F - 1 \in Nat
    BY <1>1, <1>2, <1>4
  <2>3. q \in Nat /\ q * F \in Nat /\ q * F <= n + F - 1 /\ n + F - 1 < q * F + F
    BY <2>2, BlockOf
  <2> HIDE DEF q
  <2>4. q # 0
    <3>1. ASSUME q = 0 PROVE FALSE
      <4>1. q * F = 0
        BY <1>1, <3>1
      <4>2. QED
        BY <1>1, <1>2, <1>4, <2>3, <4>1
    <3>2. QED
      BY <3>1
  <2>5. q - 1 \in Nat /\ (q - 1) * F = q * F - F
    BY <1>1, <2>3, <2>4
  <2>6. (q - 1) * F \in Nat
    BY <1>1, <2>5
  <2>7. (q - 1) * F < n /\ n <= (q - 1) * F + F
    BY <1>1, <1>2, <1>4, <2>3, <2>5, <2>6
  <2>8. QED
    BY <1>2, <2>1, <2>3, <2>4, <2>6, <2>7 DEF n
<1>5. QED
  BY <1>2, <1>3, <1>4

\* Where the payload of frame b (from 0) ends.
End(m, b) == IF b = Count(m) - 1 THEN Len(m.payload) ELSE b * F + F

FrameOf(m, b) == [m EXCEPT !.fragment_index       = b,
                           !.fragment_count       = Count(m),
                           !.total_payload_length = Len(m.payload),
                           !.payload              = SubSeq(@, b * F + 1, End(m, b))]

LEMMA FrameBounds ==
  ASSUME NEW m \in Envelope, NEW b \in 0 .. Count(m) - 1
  PROVE  /\ b * F \in Nat /\ End(m, b) \in Nat /\ End(m, b) <= Len(m.payload)
         /\ b * F <= End(m, b) /\ End(m, b) <= b * F + F
<1> DEFINE c == Count(m)
<1>1. F \in Nat /\ F > 0
  BY ReassemblyAssumption DEF F
<1>2. c \in Nat \ {0} /\ Len(m.payload) \in Nat
  BY CountFacts
<1>3. CASE b = c - 1
  BY <1>2, <1>3, CountFacts DEF End
<1>4. CASE b < c - 1
  <2>1. b \in Nat /\ c - 1 \in Nat
    BY <1>2, <1>4
  <2>2. b * F \in Nat /\ b * F + F <= (c - 1) * F
    BY <1>4, <2>1, Blocks
  <2>3. (c - 1) * F \in Nat /\ (c - 1) * F <= Len(m.payload)
    BY CountFacts
  <2>4. End(m, b) = b * F + F
    BY <1>2, <1>4 DEF End
  <2> HIDE DEF F, c
  <2>5. QED
    BY <1>1, <1>2, <2>2, <2>3, <2>4
<1>5. b = c - 1 \/ b < c - 1
  BY <1>2
<1>6. QED
  BY <1>3, <1>4, <1>5

LEMMA FrameFields ==
  ASSUME NEW m \in Envelope, NEW b \in 0 .. Count(m) - 1
  PROVE  LET f == FrameOf(m, b)
         IN  /\ f \in Envelope
             /\ f.source_id = m.source_id /\ f.message_id = m.message_id
             /\ f.fragment_index = b /\ f.fragment_count = Count(m)
             /\ f.total_payload_length = Len(m.payload)
             /\ Len(f.payload) = End(m, b) - b * F
             /\ Len(f.payload) \in Nat /\ Len(f.payload) <= F
             /\ \A k \in 1 .. Len(f.payload) : f.payload[k] = m.payload[b * F + k]
<1> DEFINE f == FrameOf(m, b)
           p == m.payload
           lo == b * F
           hi == End(m, b)
           s == SubSeq(p, lo + 1, hi)
<1>1. /\ lo \in Nat /\ hi \in Nat /\ hi <= Len(p) /\ lo <= hi /\ hi <= lo + F
      /\ F \in Nat /\ b \in Nat
  BY FrameBounds, CountFacts, ReassemblyAssumption DEF F
<1>2. p \in Seq(Nat) /\ Len(p) \in Nat /\ Count(m) \in Nat
  BY CountFacts DEF Envelope
<1>3. f = [m EXCEPT !.fragment_index = b, !.fragment_count = Count(m),
                    !.total_payload_length = Len(p), !.payload = s]
  BY DEF FrameOf
<1> HIDE DEF p, lo, hi, F
<1>4. /\ s \in Seq(Nat) /\ Len(s) = hi - lo
      /\ \A k \in 1 .. Len(s) : s[k] = p[lo + k]
  BY <1>1, <1>2
<1> HIDE DEF s, f
<1>5. /\ f \in Envelope /\ f.payload = s
      /\ f.source_id = m.source_id /\ f.message_id = m.message_id
      /\ f.fragment_index = b /\ f.fragment_count = Count(m)
      /\ f.total_payload_length = Len(p)
  BY <1>1, <1>2, <1>3, <1>4 DEF Envelope
<1>6. QED
  BY <1>1, <1>4, <1>5 DEF f, p, lo, hi

LEMMA FramesAre ==
  ASSUME NEW m \in Message
  PROVE  /\ m \in Envelope
         /\ Len(m.payload) <= MSG_MAX_PAYLOAD_BYTES =>
              Frames(m) = {FrameOf(m, b) : b \in 0 .. Count(m) - 1}
         /\ ~(Len(m.payload) <= MSG_MAX_PAYLOAD_BYTES) => Frames(m) = {}
<1> DEFINE total == Len(m.payload)
           g == fragment_message(m)
           c == Count(m)
<1>1. m \in Envelope
  BY ReassemblySpecAssumption
<1>2. /\ total \in Nat /\ c \in Nat \ {0} /\ F \in Nat /\ MSG_MAX_PAYLOAD_BYTES \in Nat
  BY <1>1, CountFacts, ReassemblyAssumption DEF F, MSG_MAX_PAYLOAD_BYTES
<1> DEFINE Cut == [k \in 1 .. c |->
                     [m EXCEPT !.fragment_index       = k - 1,
                               !.fragment_count       = c,
                               !.total_payload_length = total,
                               !.payload = SubSeq(@, (k - 1) * F + 1,
                                                  IF k = c THEN total ELSE k * F)]]
<1>a. g = IF total > MSG_MAX_PAYLOAD_BYTES THEN <<>> ELSE Cut
  BY Zenon DEF fragment_message, Count, F
<1>3. ASSUME ~(total <= MSG_MAX_PAYLOAD_BYTES) PROVE Frames(m) = {}
  <2> HIDE DEF Cut, g
  <2>1. g = <<>>
    BY <1>a, <1>2, <1>3
  <2>2. QED
    BY <2>1 DEF Frames, Range, g
<1>4. ASSUME total <= MSG_MAX_PAYLOAD_BYTES
      PROVE  Frames(m) = {FrameOf(m, b) : b \in 0 .. c - 1}
  <2>1. /\ DOMAIN g = 1 .. c
        /\ \A k \in 1 .. c :
             g[k] = [m EXCEPT !.fragment_index       = k - 1,
                              !.fragment_count       = c,
                              !.total_payload_length = total,
                              !.payload = SubSeq(@, (k - 1) * F + 1,
                                                 IF k = c THEN total ELSE k * F)]
    <3>1. ~(total > MSG_MAX_PAYLOAD_BYTES)
      BY <1>2, <1>4
    <3>2. g = Cut
      BY <1>a, <3>1, Zenon
    <3> HIDE DEF g
    <3>3. QED
      BY <3>2
  <2>2. ASSUME NEW k \in 1 .. c PROVE k - 1 \in 0 .. c - 1 /\ g[k] = FrameOf(m, k - 1)
    <3>1. k * F = (k - 1) * F + F
      BY <1>2
    <3>2. k = c <=> k - 1 = c - 1
      BY <1>2
    <3>3. (IF k = c THEN total ELSE k * F) = End(m, k - 1)
      BY <3>1, <3>2 DEF End
    <3>4. g[k] = FrameOf(m, k - 1)
      BY <2>1, <3>3 DEF FrameOf
    <3>5. QED
      BY <1>2, <3>4
  <2>3. ASSUME NEW b \in 0 .. c - 1 PROVE b + 1 \in 1 .. c /\ g[b + 1] = FrameOf(m, b)
    <3>1. b + 1 \in 1 .. c /\ (b + 1) - 1 = b
      BY <1>2
    <3>2. g[b + 1] = FrameOf(m, (b + 1) - 1)
      BY <2>2, <3>1
    <3>3. QED
      BY <3>1, <3>2
  <2>4. Frames(m) = {g[k] : k \in 1 .. c}
    BY <2>1 DEF Frames, Range
  <2> HIDE DEF g, c
  <2>5. QED
    BY <2>2, <2>3, <2>4
<1>5. QED
  BY <1>1, <1>3, <1>4


\* A frame is a stray one or one of a message.
LEMMA FrameKinds ==
  ASSUME NEW f \in Frame
  PROVE  /\ f \in Envelope
         /\ f \notin Stray => \E m \in Message : f \in Frames(m)
         /\ \A m \in Message : f \in Frames(m) =>
              /\ Len(m.payload) <= MSG_MAX_PAYLOAD_BYTES
              /\ \E b \in 0 .. Count(m) - 1 : f = FrameOf(m, b)
<1>1. f \notin Stray => \E m \in Message : f \in Frames(m)
  BY DEF Frame
<1>2. ASSUME NEW m \in Message, f \in Frames(m)
      PROVE  /\ Len(m.payload) <= MSG_MAX_PAYLOAD_BYTES
             /\ \E b \in 0 .. Count(m) - 1 : f = FrameOf(m, b)
  BY <1>2, FramesAre
<1>3. ASSUME NEW m \in Message, f \in Frames(m) PROVE f \in Envelope
  BY <1>2, <1>3, FramesAre, FrameFields
<1>4. f \in Envelope
  BY <1>1, <1>3, ReassemblySpecAssumption
<1>5. QED
  BY <1>1, <1>2, <1>4

\* A frame that validate_metadata() lets pass has its place in the buffer.
LEMMA FrameFits ==
  ASSUME NEW f \in Frame, validate_metadata(f)
  PROVE  /\ f \in Envelope /\ Len(f.payload) \in Nat
         /\ f.fragment_index \in FragmentBit /\ f.fragment_index \in Nat
         /\ f.fragment_count \in Nat /\ f.fragment_count <= FRAG_MAX_COUNT
         /\ f.total_payload_length \in Nat /\ f.total_payload_length <= MSG_MAX_PAYLOAD_BYTES
         /\ f.fragment_index * F \in Nat
         /\ f.fragment_index * F + F <= MSG_MAX_PAYLOAD_BYTES
<1> DEFINE i == f.fragment_index
           M == MSG_MAX_PAYLOAD_BYTES
<1>1. F \in Nat /\ F > 0 /\ FRAG_MAX_COUNT \in Nat \ {0} /\ M = FRAG_MAX_COUNT * F
  BY ReassemblyAssumption DEF F, MSG_MAX_PAYLOAD_BYTES
<1>2. /\ f \in Envelope /\ Len(f.payload) \in Nat /\ i \in Nat /\ f.fragment_count \in Nat
      /\ f.total_payload_length \in Nat
  BY FrameKinds DEF Envelope
<1>3. i < FRAG_MAX_COUNT
  BY <1>1, <1>2 DEF validate_metadata
<1>4. i * F \in Nat /\ i * F + F <= M /\ M \in Nat
  BY <1>1, <1>2, <1>3, Blocks
<1>5. i \in FragmentBit
  BY <1>1, <1>2, <1>3 DEF FragmentBit
<1>6. QED
  BY <1>2, <1>4, <1>5 DEF validate_metadata

\* The frames of a message share its header and differ in their index.
LEMMA FramesSame ==
  ASSUME NEW m \in Message, NEW f \in Frames(m), NEW g \in Frames(m)
  PROVE  /\ SameHeader(f, g) /\ (f.fragment_index = g.fragment_index => f = g)
         /\ f.source_id = m.source_id /\ f.message_id = m.message_id
<1>1. f \in Frame /\ g \in Frame
  BY DEF Frame
<1>2. PICK i \in 0 .. Count(m) - 1 : f = FrameOf(m, i)
  BY <1>1, FrameKinds
<1>3. PICK j \in 0 .. Count(m) - 1 : g = FrameOf(m, j)
  BY <1>1, FrameKinds
<1>4. m \in Envelope
  BY FramesAre
<1>5. /\ f.source_id = m.source_id /\ f.message_id = m.message_id
      /\ f.fragment_index = i /\ f.fragment_count = Count(m)
      /\ f.total_payload_length = Len(m.payload)
  BY <1>2, <1>4, FrameFields
<1>6. /\ g.source_id = m.source_id /\ g.message_id = m.message_id
      /\ g.fragment_index = j /\ g.fragment_count = Count(m)
      /\ g.total_payload_length = Len(m.payload)
  BY <1>3, <1>4, FrameFields
<1>7. QED
  BY <1>2, <1>3, <1>5, <1>6 DEF SameHeader

\* There is a frame for every index below the count.
LEMMA AllIndices ==
  ASSUME NEW m \in Message, NEW f \in Frames(m), NEW k \in 0 .. f.fragment_count - 1
  PROVE  \E g \in Frames(m) : g.fragment_index = k
<1>1. f \in Frame
  BY DEF Frame
<1>2. m \in Envelope /\ Frames(m) = {FrameOf(m, b) : b \in 0 .. Count(m) - 1}
  BY <1>1, FrameKinds, FramesAre
<1>3. PICK b \in 0 .. Count(m) - 1 : f = FrameOf(m, b)
  BY <1>2
<1>4. f.fragment_count = Count(m)
  BY <1>2, <1>3, FrameFields
<1>5. FrameOf(m, k) \in Frames(m) /\ FrameOf(m, k).fragment_index = k
  BY <1>2, <1>4, FrameFields
<1>6. QED
  BY <1>5

-----------------------------------------------------------------------------
(* The size of a fragment, and of several.                                 *)

LEMMA FragmentBytes ==
  ASSUME NEW h \in Envelope, NEW i \in Nat
  PROVE  /\ BytesOf(h, {i}) \in Int
         /\ i * F \in Nat
         /\ i = h.fragment_count - 1 => BytesOf(h, {i}) = h.total_payload_length - i * F
         /\ i # h.fragment_count - 1 => BytesOf(h, {i}) = F
<1> DEFINE c == h.fragment_count
           n == h.total_payload_length
<1>1. F \in Nat /\ F > 0 /\ c \in Nat /\ n \in Nat
  BY ReassemblyAssumption DEF F, Envelope
<1>2. Cardinality({i}) = 1
  BY FS_Singleton
<1>3. BytesOf(h, {i}) = 1 * F - (IF c - 1 \in {i} THEN c * F - n ELSE 0)
  BY <1>2 DEF BytesOf, F
<1> HIDE DEF F, c, n
<1>4. 1 * F = F /\ c * F \in Nat /\ i * F \in Nat /\ (c - 1 = i => c * F = i * F + F)
  BY <1>1
<1>5. CASE i = c - 1
  <2>1. BytesOf(h, {i}) = F - (c * F - n)
    BY <1>3, <1>4, <1>5
  <2>2. QED
    BY <1>1, <1>4, <1>5, <2>1 DEF c, n
<1>6. CASE i # c - 1
  <2>1. BytesOf(h, {i}) = F - 0
    BY <1>3, <1>4, <1>6
  <2>2. QED
    BY <1>1, <1>4, <1>6, <2>1 DEF c
<1>7. QED
  BY <1>5, <1>6

LEMMA BytesAdd ==
  ASSUME NEW h \in Envelope, NEW M, IsFiniteSet(M), NEW i \in Nat, i \notin M
  PROVE  /\ BytesOf(h, M) \in Int
         /\ BytesOf(h, M \union {i}) = BytesOf(h, M) + BytesOf(h, {i})
<1> DEFINE N == M \union {i}
           c == h.fragment_count
           n == h.total_payload_length
           d == c * F - n
<1>1. F \in Nat /\ F > 0 /\ c \in Nat /\ n \in Nat
  BY ReassemblyAssumption DEF F, Envelope
<1>2. /\ Cardinality(M) \in Nat /\ Cardinality(N) = Cardinality(M) + 1
      /\ Cardinality({i}) = 1
  BY FS_CardinalityType, FS_AddElement, FS_Singleton
<1>3. /\ BytesOf(h, M) = Cardinality(M) * F - (IF c - 1 \in M THEN d ELSE 0)
      /\ BytesOf(h, N) = Cardinality(N) * F - (IF c - 1 \in N THEN d ELSE 0)
      /\ BytesOf(h, {i}) = 1 * F - (IF c - 1 \in {i} THEN d ELSE 0)
  BY <1>2 DEF BytesOf, F
<1>4. d \in Int
  <2> HIDE DEF F, c, n
  <2>1. QED
    BY <1>1
<1>5. /\ Cardinality(N) * F = Cardinality(M) * F + F /\ Cardinality(M) * F \in Nat
      /\ 1 * F = F
  <2> HIDE DEF F, N
  <2>1. QED
    BY <1>1, <1>2
<1> HIDE DEF F, d, c, n
<1>6. CASE c - 1 = i
  <2>1. c - 1 \notin M /\ c - 1 \in N /\ c - 1 \in {i}
    BY <1>6
  <2> HIDE DEF N
  <2>2. QED
    BY <1>1, <1>3, <1>4, <1>5, <2>1 DEF N
<1>7. CASE c - 1 # i
  <2>1. (c - 1 \in N <=> c - 1 \in M) /\ c - 1 \notin {i}
    BY <1>7
  <2> HIDE DEF N
  <2>2. QED
    BY <1>1, <1>3, <1>4, <1>5, <2>1 DEF N
<1>8. QED
  BY <1>6, <1>7

LEMMA SameBytes ==
  ASSUME NEW f, NEW h, SameHeader(f, h), NEW M
  PROVE  BytesOf(f, M) = BytesOf(h, M)
BY DEF SameHeader, BytesOf

LEMMA SameHeaderFacts ==
  /\ \A f : SameHeader(f, f)
  /\ \A f, g : SameHeader(f, g) => SameHeader(g, f)
  /\ \A f, g, h : SameHeader(f, g) /\ SameHeader(g, h) => SameHeader(f, h)
BY DEF SameHeader

\* The first count bits: the bytes of the whole message.
LEMMA FullBytes ==
  ASSUME NEW h \in Envelope, h.fragment_count > 0
  PROVE  BytesOf(h, 0 .. h.fragment_count - 1) = h.total_payload_length
<1> DEFINE c == h.fragment_count
           n == h.total_payload_length
           e == c - 1
<1>1. F \in Nat /\ F > 0 /\ c \in Nat /\ n \in Nat
  BY ReassemblyAssumption DEF F, Envelope
<1>2. Cardinality(0 .. c - 1) = c
  <2>1. e \in Int /\ 0 \in Int /\ ~(0 > e) /\ e - 0 + 1 = c
    BY <1>1
  <2> HIDE DEF e
  <2>2. Cardinality(0 .. e) = IF 0 > e THEN 0 ELSE e - 0 + 1
    BY <2>1, FS_Interval
  <2>3. QED
    BY <2>1, <2>2 DEF e
<1>3. c - 1 \in 0 .. c - 1
  BY <1>1
<1>4. BytesOf(h, 0 .. c - 1) = c * F - (c * F - n)
  BY <1>2, <1>3 DEF BytesOf, F
<1> HIDE DEF c, n, F
<1>5. c * F \in Nat
  BY <1>1
<1>6. QED
  BY <1>1, <1>4, <1>5 DEF c, n

\* The frames of a message have the right size.
LEMMA FrameSize ==
  ASSUME NEW m \in Message, NEW f \in Frames(m)
  PROVE  ~WrongSize(f)
<1>0. f \in Frame
  BY DEF Frame
<1>1. PICK b \in 0 .. Count(m) - 1 : f = FrameOf(m, b)
  BY <1>0, FrameKinds
<1>2. /\ m \in Envelope /\ f \in Envelope /\ f.fragment_index = b
      /\ f.fragment_count = Count(m) /\ f.total_payload_length = Len(m.payload)
      /\ Len(f.payload) = End(m, b) - b * F
  BY <1>1, FramesAre, FrameFields
<1>3. b \in Nat /\ Count(m) \in Nat /\ Len(m.payload) \in Nat /\ b * F \in Nat
  BY <1>2, CountFacts, FrameBounds
<1>4. F \in Nat
  BY ReassemblyAssumption DEF F
<1>5. Len(f.payload) = BytesOf(f, {b})
  <2>1. CASE b = Count(m) - 1
    <3>1. End(m, b) = Len(m.payload)
      BY <2>1 DEF End
    <3>2. BytesOf(f, {b}) = f.total_payload_length - b * F
      BY <1>2, <1>3, <2>1, FragmentBytes
    <3>3. QED
      BY <1>2, <3>1, <3>2
  <2>2. CASE b # Count(m) - 1
    <3>1. End(m, b) = b * F + F
      BY <2>2 DEF End
    <3>2. BytesOf(f, {b}) = F
      BY <1>2, <1>3, <2>2, FragmentBytes
    <3> HIDE DEF F
    <3>3. QED
      BY <1>2, <1>3, <1>4, <3>1, <3>2
  <2>3. QED
    BY <2>1, <2>2
<1>6. BytesOf(f, {b}) \in Int
  BY <1>2, <1>3, FragmentBytes
<1>7. QED
  BY <1>2, <1>5, <1>6 DEF WrongSize, TooShort, TooLong

\* What TooShort and TooLong say of a frame that validate_metadata() lets pass.
LEMMA SizeKinds ==
  ASSUME NEW f \in Frame, validate_metadata(f), f.fragment_count > 1
  PROVE  LET e == BytesOf(f, {f.fragment_index})
         IN  /\ e \in Int /\ Len(f.payload) \in Nat
             /\ f.fragment_index \in 0 .. f.fragment_count - 1
             /\ TooShort(f) <=> Len(f.payload) < e
             /\ TooLong(f) <=> Len(f.payload) > e
             /\ ~WrongSize(f) <=> Len(f.payload) = e
<1>1. /\ f \in Envelope /\ Len(f.payload) \in Nat /\ f.fragment_index \in Nat
      /\ f.fragment_count \in Nat
  BY FrameFits
<1>2. f.fragment_index < f.fragment_count
  BY <1>1 DEF validate_metadata
<1>3. BytesOf(f, {f.fragment_index}) \in Int
  BY <1>1, FragmentBytes
<1>4. QED
  BY <1>1, <1>2, <1>3 DEF TooShort, TooLong, WrongSize, InCount

\* A frame of the right size ends within the buffer.
LEMMA RightSizeFits ==
  ASSUME NEW f \in Frame, validate_metadata(f), f.fragment_count > 1, ~WrongSize(f)
  PROVE  /\ f.fragment_index * F + Len(f.payload) <= MSG_MAX_PAYLOAD_BYTES
         /\ f.fragment_index # f.fragment_count - 1 => Len(f.payload) = F
         /\ \A k \in 1 .. Len(f.payload) : f.fragment_index * F + k \in ByteIndex
<1> DEFINE i == f.fragment_index
           len == Len(f.payload)
           M == MSG_MAX_PAYLOAD_BYTES
<1>1. /\ f \in Envelope /\ len \in Nat /\ i \in Nat /\ i * F \in Nat /\ i * F + F <= M
      /\ f.total_payload_length \in Nat /\ f.total_payload_length <= M
  BY FrameFits
<1>2. F \in Nat /\ M \in Nat
  BY ReassemblyAssumption DEF F, MSG_MAX_PAYLOAD_BYTES
<1>3. len = BytesOf(f, {i})
  BY SizeKinds
<1>4. /\ i = f.fragment_count - 1 => len = f.total_payload_length - i * F
      /\ i # f.fragment_count - 1 => len = F
  BY <1>1, <1>3, FragmentBytes
<1>5. i * F + len <= M
  <2> HIDE DEF F, M, len
  <2>1. CASE i = f.fragment_count - 1
    BY <1>1, <1>2, <1>4, <2>1
  <2>2. CASE i # f.fragment_count - 1
    BY <1>1, <1>4, <2>2
  <2>3. QED
    BY <2>1, <2>2
<1>6. \A k \in 1 .. len : i * F + k \in 1 .. M
  <2> HIDE DEF F, M, len, i
  <2>1. QED
    BY <1>1, <1>2, <1>5
<1>7. QED
  BY <1>4, <1>5, <1>6 DEF ByteIndex

\* Frames of the right size with the header of a message's frame are frames of
\* that message.
LEMMA OneMessage ==
  ASSUME NEW m \in Message, NEW f \in Frames(m), NEW g \in Frame, validate_metadata(g),
         SameHeader(g, f), ~WrongSize(g)
  PROVE  g \in Frames(m)
<1>0. f \in Frame /\ SameHeader(f, g)
  BY SameHeaderFacts DEF Frame
<1>1. f.source_id = m.source_id /\ f.message_id = m.message_id
  BY FramesSame
<1>2. ASSUME NEW n \in Message, g \in Frames(n) PROVE n = m
  <2>1. g.source_id = n.source_id /\ g.message_id = n.message_id
    BY <1>2, FramesSame
  <2>2. QED
    BY <1>1, <2>1, FramesAssumption DEF SameHeader
<1>3. ASSUME g \in Stray PROVE FALSE
  <2>1. InCount(g)
    BY <1>3, FramesAssumption, FrameKinds DEF validate_metadata, Envelope, InCount
  <2>2. PICK k \in 0 .. g.fragment_count - 1 :
          \A t \in Frame : SameHeader(t, g) => t.fragment_index # k
    BY <1>3, <2>1, FramesAssumption
  <2>3. f.fragment_count = g.fragment_count
    BY DEF SameHeader
  <2>4. PICK t \in Frames(m) : t.fragment_index = k
    BY <2>3, AllIndices
  <2>5. t \in Frame /\ SameHeader(t, f)
    BY FramesSame DEF Frame
  <2>6. QED
    BY <1>0, <2>2, <2>4, <2>5, SameHeaderFacts
<1>4. QED
  BY <1>2, <1>3, FrameKinds

-----------------------------------------------------------------------------
(* Slots.  A is the set of the frames that have arrived.                   *)

\* A frame of the right size is in its place in slot s.
Recorded(s, f) ==
  /\ validate_metadata(f) /\ SameHeader(f, s.header) /\ ~WrongSize(f)
  /\ \A k \in 1 .. Len(f.payload) : s.buf[f.fragment_index * F + k] = f.payload[k]

Short(A, h) == \E f \in A : TooShort(f) /\ SameHeader(f, h)
Long(A, h)  == \E f \in A : TooLong(f) /\ SameHeader(f, h)

\* Only frames of the right size are in the slot.
Sound(s, A) ==
  /\ ~Spoilt(s)
  /\ s.received_mask = {} \/ ~WrongSize(s.header)
  /\ \A b \in s.received_mask : \E f \in A : Recorded(s, f) /\ f.fragment_index = b

\* Wrong sizes show in the byte count, unless there are both kinds of them.
SlotOK(s, A) ==
  LET right == BytesOf(s.header, s.received_mask)
  IN  /\ s.header \in Frame /\ validate_metadata(s.header) /\ s.header.fragment_count > 1
      /\ \A b \in s.received_mask : \E f \in A : /\ validate_metadata(f)
                                                 /\ SameHeader(f, s.header)
                                                 /\ f.fragment_index = b
      /\ \/ Sound(s, A)
         \/ Short(A, s.header) /\ s.received_bytes < right
         \/ Long(A, s.header) /\ s.received_bytes > right
         \/ SizesMixed(A, s.header)

LEMMA MixedIs == \A A, h : SizesMixed(A, h) <=> Short(A, h) /\ Long(A, h)
BY DEF SizesMixed, Short, Long

LEMMA SlotOKMore ==
  ASSUME NEW s, NEW A, NEW B, A \subseteq B, SlotOK(s, A)
  PROVE  SlotOK(s, B)
<1>1. Sound(s, A) => Sound(s, B)
  BY DEF Sound
<1>2. /\ Short(A, s.header) => Short(B, s.header)
      /\ Long(A, s.header) => Long(B, s.header)
  BY DEF Short, Long
<1>3. QED
  BY <1>1, <1>2, MixedIs DEF SlotOK

\* A slot that is spoilt has received a frame of the wrong size.
LEMMA SpoiltBy ==
  ASSUME NEW s, NEW A, SlotOK(s, A), Spoilt(s) \/ SizesMixed(A, s.header)
  PROVE  \E f \in A : WrongSize(f) /\ SameHeader(f, s.header)
<1>1. Short(A, s.header) \/ Long(A, s.header)
  BY MixedIs DEF SlotOK, Sound
<1>2. QED
  BY <1>1 DEF Short, Long, WrongSize

ActiveSlot == {s \in ReassemblySlot : s.active}

LEMMA SlotFields ==
  ASSUME NEW s \in ActiveSlot
  PROVE  /\ s \in [active : {TRUE}, buf : [ByteIndex -> Nat],
                   received_mask : SUBSET FragmentBit,
                   received_bytes : 0 .. MSG_MAX_PAYLOAD_BYTES,
                   open_time_us : Nat, header : Envelope]
         /\ IsFiniteSet(s.received_mask) /\ Cardinality(s.received_mask) \in Nat
<1>1. s \in [active : {TRUE}, buf : [ByteIndex -> Nat],
             received_mask : SUBSET FragmentBit,
             received_bytes : 0 .. MSG_MAX_PAYLOAD_BYTES,
             open_time_us : Nat, header : Envelope]
  <2>1. NoSlot.active = FALSE
    BY DEF NoSlot
  <2>2. s \in ReassemblySlot /\ s.active /\ s # NoSlot
    BY <2>1 DEF ActiveSlot
  <2>3. QED
    BY <2>2 DEF ReassemblySlot
<1>2. IsFiniteSet(FragmentBit)
  <2>1. 0 \in Int /\ FRAG_MAX_COUNT - 1 \in Int
    BY ReassemblyAssumption
  <2>2. QED
    BY <2>1, FS_Interval DEF FragmentBit
<1>3. QED
  BY <1>1, <1>2, FS_Subset, FS_CardinalityType

LEMMA OpenedOK ==
  ASSUME NEW f \in Frame, validate_metadata(f), f.fragment_count > 1, NEW now \in Nat, NEW A
  PROVE  LET s == open_slot(f, now)
         IN  /\ s \in ActiveSlot /\ SlotOK(s, A) /\ s.header = f /\ s.received_mask = {}
             /\ s.open_time_us = now
<1> DEFINE s == open_slot(f, now)
<1>1. MSG_MAX_PAYLOAD_BYTES \in Nat /\ F \in Nat
  BY ReassemblyAssumption DEF MSG_MAX_PAYLOAD_BYTES, F
<1>2. f \in Envelope
  BY FrameFits
<1>3. s \in ActiveSlot
  BY <1>1, <1>2 DEF open_slot, ActiveSlot, ReassemblySlot
<1>4. /\ s.header = f /\ s.received_mask = {} /\ s.received_bytes = 0
      /\ s.open_time_us = now
  BY DEF open_slot
<1> HIDE DEF s
<1>5. Cardinality({}) = 0
  BY FS_EmptySet
<1>6. ~Spoilt(s)
  <2>1. BytesOf(f, {}) = 0 * F - 0
    BY <1>5 DEF BytesOf, F
  <2>2. 0 * F - 0 = 0
    BY <1>1
  <2>3. QED
    BY <1>4, <2>1, <2>2 DEF Spoilt
<1>7. SlotOK(s, A)
  BY <1>4, <1>6 DEF SlotOK, Sound
<1>8. QED
  BY <1>3, <1>4, <1>7 DEF s

LEMMA MaskIn ==
  ASSUME NEW s, NEW A, A \subseteq Frame, SlotOK(s, A)
  PROVE  s.received_mask \subseteq 0 .. s.header.fragment_count - 1
<1> SUFFICES ASSUME NEW b \in s.received_mask PROVE b \in 0 .. s.header.fragment_count - 1
  OBVIOUS
<1>1. PICK f \in A : validate_metadata(f) /\ SameHeader(f, s.header) /\ f.fragment_index = b
  BY DEF SlotOK
<1>2. f \in Frame /\ f.fragment_count = s.header.fragment_count /\ f.fragment_count > 1
  BY <1>1 DEF SameHeader, SlotOK
<1>3. QED
  BY <1>1, <1>2, SizeKinds

\* Two frames of the right size do not overlap in the buffer.
LEMMA Disjoint ==
  ASSUME NEW f \in Frame, NEW g \in Frame, validate_metadata(f), validate_metadata(g),
         SameHeader(f, g), f.fragment_count > 1, ~WrongSize(f), ~WrongSize(g),
         f.fragment_index # g.fragment_index, NEW k \in 1 .. Len(g.payload)
  PROVE  g.fragment_index * F + k
           \notin f.fragment_index * F + 1 .. f.fragment_index * F + Len(f.payload)
<1> DEFINE i == f.fragment_index
           b == g.fragment_index
           len == Len(f.payload)
<1>1. F \in Nat /\ F > 0
  BY ReassemblyAssumption DEF F
<1>2. g.fragment_count = f.fragment_count
  BY DEF SameHeader
<1>3. /\ i \in Nat /\ b \in Nat /\ len \in Nat /\ Len(g.payload) \in Nat
      /\ f.fragment_count \in Nat
      /\ i \in 0 .. f.fragment_count - 1 /\ b \in 0 .. f.fragment_count - 1
  BY <1>2, FrameFits, SizeKinds
<1>4. CASE i < b
  <2>1. i * F \in Nat /\ b * F \in Nat /\ i * F + F <= b * F
    BY <1>3, <1>4, Blocks
  <2>2. i # f.fragment_count - 1
    BY <1>3, <1>4
  <2>3. len = F
    BY <2>2, RightSizeFits
  <2> HIDE DEF F, len, i, b
  <2>4. QED
    BY <1>1, <1>3, <2>1, <2>3 DEF i, b, len
<1>5. CASE b < i
  <2>1. i * F \in Nat /\ b * F \in Nat /\ b * F + F <= i * F
    BY <1>3, <1>5, Blocks
  <2>2. b # f.fragment_count - 1
    BY <1>3, <1>5
  <2>3. Len(g.payload) = F
    BY <1>2, <2>2, RightSizeFits
  <2>4. k \in Nat /\ k <= F
    BY <1>1, <2>3
  <2> HIDE DEF F, len, i, b
  <2>5. b * F + k \notin i * F + 1 .. i * F + len
    BY <1>1, <1>3, <2>1, <2>4
  <2>6. QED
    BY <2>5 DEF i, b, len
<1>6. QED
  BY <1>3, <1>4, <1>5

\* A slot and a frame that find no room have met a frame of the wrong size.
LEMMA NoOverrun ==
  ASSUME NEW s \in ActiveSlot, NEW A, A \subseteq Frame, SlotOK(s, A), ~Spoilt(s),
         NEW f \in Frame, validate_metadata(f), SameHeader(f, s.header), ~WrongSize(f),
         f.fragment_index \notin s.received_mask
  PROVE  ~Overruns(s, f)
<1> DEFINE i == f.fragment_index
           len == Len(f.payload)
           mask == s.received_mask
           more == mask \union {i}
           M == MSG_MAX_PAYLOAD_BYTES
           h == s.header
           c == h.fragment_count
           n == h.total_payload_length
<1>1. /\ h \in Envelope /\ IsFiniteSet(mask) /\ Cardinality(mask) \in Nat
      /\ s.received_bytes \in Nat
  <2>1. M \in Nat
    BY ReassemblyAssumption DEF MSG_MAX_PAYLOAD_BYTES
  <2>2. /\ h \in Envelope /\ s.received_bytes \in 0 .. M
        /\ IsFiniteSet(mask) /\ Cardinality(mask) \in Nat
    BY SlotFields
  <2> HIDE DEF M, h, mask
  <2>3. QED
    BY <2>1, <2>2
<1>2. /\ c > 1 /\ f.fragment_count = c /\ h \in Frame /\ validate_metadata(h)
  BY DEF SlotOK, SameHeader
<1>3. /\ c \in Nat /\ n \in Nat /\ n <= M /\ c <= FRAG_MAX_COUNT
  BY <1>2, FrameFits
<1>4. F \in Nat /\ F > 0 /\ M = FRAG_MAX_COUNT * F /\ FRAG_MAX_COUNT \in Nat /\ M \in Nat
  BY ReassemblyAssumption DEF F, MSG_MAX_PAYLOAD_BYTES
<1>5. i \in Nat /\ len \in Nat /\ i \in 0 .. c - 1 /\ len = BytesOf(h, {i})
  <2>1. len = BytesOf(f, {i}) /\ i \in 0 .. c - 1 /\ len \in Nat
    BY <1>2, SizeKinds
  <2>2. QED
    BY <1>3, <2>1, SameBytes
<1>6. BytesOf(h, more) = s.received_bytes + len
  BY <1>1, <1>5, BytesAdd DEF Spoilt
<1>7. IsFiniteSet(more) /\ Cardinality(more) \in Nat /\ Cardinality(more) <= c
  <2>1. more \subseteq 0 .. c - 1
    BY <1>5, MaskIn
  <2> DEFINE e == c - 1
  <2>2. e \in Int /\ 0 \in Int /\ ~(0 > e) /\ e - 0 + 1 = c
    BY <1>2, <1>3
  <2> HIDE DEF e
  <2>3. IsFiniteSet(0 .. e) /\ Cardinality(0 .. e) = c
    BY <2>2, FS_Interval
  <2>4. more \subseteq 0 .. e
    BY <2>1 DEF e
  <2> HIDE DEF more
  <2>5. QED
    BY <2>3, <2>4, FS_Subset, FS_CardinalityType
<1>8. c * F \in Nat /\ c * F <= M /\ Cardinality(more) * F \in Nat
      /\ Cardinality(more) * F <= c * F
  <2> HIDE DEF F, more, M, c
  <2>1. ASSUME NEW x \in Nat, NEW y \in Nat, x <= y
        PROVE  x * F \in Nat /\ x * F <= y * F
    <3>1. CASE x = y
      BY <1>4, <3>1
    <3>2. CASE x < y
      BY <1>4, <3>2, Blocks
    <3>3. QED
      BY <2>1, <3>1, <3>2
  <2>2. QED
    BY <1>3, <1>4, <1>7, <2>1
<1>9. s.received_bytes + len <= M
  <2>1. BytesOf(h, more) = Cardinality(more) * F - (IF c - 1 \in more THEN c * F - n ELSE 0)
    BY DEF BytesOf, F
  <2> DEFINE x == Cardinality(more) * F
             y == c * F
  <2>2. x \in Nat /\ y \in Nat /\ x <= y /\ y <= M
    BY <1>8
  <2> HIDE DEF x, y, more, M, c, n, len
  <2>3. CASE c - 1 \in more
    <3>1. BytesOf(h, more) = x - (y - n)
      BY <2>1, <2>3 DEF x, y
    <3>2. QED
      BY <1>3, <1>4, <1>6, <2>2, <3>1
  <2>4. CASE c - 1 \notin more
    <3>1. BytesOf(h, more) = x - 0
      BY <2>1, <2>4 DEF x, y
    <3>2. QED
      BY <1>4, <1>6, <2>2, <3>1
  <2>5. QED
    BY <2>3, <2>4
<1>10. i * F + len <= M
  BY <1>2, RightSizeFits
<1>11. i * F \in Nat
  BY FrameFits
<1> HIDE DEF M, len, i
<1>12. ~(i * F + len > M) /\ ~(s.received_bytes + len > M)
  BY <1>1, <1>4, <1>5, <1>9, <1>10, <1>11
<1>13. QED
  BY <1>12 DEF Overruns, F, M, len, i

\* A frame that is not in the slot yet and finds room in it.
LEMMA RecordOK ==
  ASSUME NEW s \in ActiveSlot, NEW A, A \subseteq Frame, SlotOK(s, A),
         NEW f \in Frame, validate_metadata(f), SameHeader(f, s.header),
         f.fragment_index \notin s.received_mask,
         s.received_mask = {} => f = s.header, ~Overruns(s, f)
  PROVE  LET n == record_fragment(s, f)
             B == A \union {f}
         IN  /\ n \in ActiveSlot /\ SlotOK(n, B) /\ n.header = s.header
             /\ n.received_mask = s.received_mask \union {f.fragment_index}
             /\ Spoilt(n) => Spoilt(s) \/ WrongSize(f)
             /\ ~Spoilt(n) /\ ~SizesMixed(B, n.header) => ~Spoilt(s) /\ ~WrongSize(f)
<1> DEFINE n == record_fragment(s, f)
           B == A \union {f}
           i == f.fragment_index
           len == Len(f.payload)
           mask == s.received_mask
           more == mask \union {i}
           M == MSG_MAX_PAYLOAD_BYTES
           bytes == s.received_bytes
           h == s.header
<1>1. /\ s \in [active : {TRUE}, buf : [ByteIndex -> Nat], received_mask : SUBSET FragmentBit,
                received_bytes : 0 .. M, open_time_us : Nat, header : Envelope]
      /\ IsFiniteSet(mask) /\ Cardinality(mask) \in Nat
  BY SlotFields
<1>2. /\ f \in Envelope /\ len \in Nat /\ i \in FragmentBit /\ i \in Nat /\ i * F \in Nat
  BY FrameFits
<1>3. F \in Nat /\ M \in Nat /\ F > 0
  BY ReassemblyAssumption DEF F, MSG_MAX_PAYLOAD_BYTES
<1>4. f.fragment_count > 1 /\ h \in Envelope
  BY <1>1 DEF SlotOK, SameHeader
<1>5. bytes \in Nat /\ bytes + len \in 0 .. M /\ i * F + len <= M
  <2>1. ~(i * F + len > M) /\ ~(bytes + len > M)
    BY DEF Overruns, F
  <2>2. bytes \in Nat
    BY <1>1, <1>3
  <2> HIDE DEF F, M, len, i, bytes
  <2>3. QED
    BY <1>2, <1>3, <2>1, <2>2
<1> DEFINE buf == [k \in ByteIndex |-> IF k \in i * F + 1 .. i * F + len
                                         THEN f.payload[k - i * F] ELSE s.buf[k]]
<1>6. n = [s EXCEPT !.buf = buf, !.received_bytes = bytes + len, !.received_mask = more]
  BY DEF record_fragment, F
<1>7. buf \in [ByteIndex -> Nat]
  <2>1. ASSUME NEW k \in ByteIndex, k \in i * F + 1 .. i * F + len
        PROVE  f.payload[k - i * F] \in Nat
    <3>1. k - i * F \in 1 .. len
      <4>1. k \in Nat
        BY <1>3 DEF ByteIndex
      <4> HIDE DEF F, len, i
      <4>2. QED
        BY <1>2, <2>1, <4>1
    <3>2. f.payload \in Seq(Nat)
      BY <1>2 DEF Envelope
    <3> HIDE DEF i
    <3>3. QED
      BY <3>1, <3>2
  <2>2. \A k \in ByteIndex : s.buf[k] \in Nat
    BY <1>1
  <2> HIDE DEF i, len, M, F
  <2>3. QED
    BY <2>1, <2>2
<1> HIDE DEF buf, n
<1>8. /\ n.buf = buf /\ n.received_bytes = bytes + len /\ n.received_mask = more
      /\ n.header = h /\ n.open_time_us = s.open_time_us /\ n.active = TRUE
  BY <1>1, <1>6
<1>9. n \in ActiveSlot
  <2>1. more \in SUBSET FragmentBit
    BY <1>1, <1>2
  <2> HIDE DEF M, more, bytes, len, h
  <2>2. n \in [active : {TRUE}, buf : [ByteIndex -> Nat], received_mask : SUBSET FragmentBit,
               received_bytes : 0 .. M, open_time_us : Nat, header : Envelope]
    BY <1>1, <1>5, <1>6, <1>7, <2>1
  <2>3. QED
    BY <2>2, <1>8 DEF ActiveSlot, ReassemblySlot, M
<1> DEFINE e == BytesOf(f, {i})
           right == BytesOf(h, mask)
           right2 == BytesOf(h, more)
<1>10. /\ e \in Int /\ right \in Int /\ right2 = right + e
       /\ TooShort(f) <=> len < e
       /\ TooLong(f) <=> len > e
       /\ ~WrongSize(f) <=> len = e
       /\ Spoilt(s) <=> bytes # right
       /\ Spoilt(n) <=> bytes + len # right2
  <2>1. BytesOf(h, {i}) = e
    BY SameBytes
  <2>2. right \in Int /\ right2 = right + e
    BY <1>1, <1>2, <1>4, <2>1, BytesAdd
  <2>3. QED
    BY <1>4, <1>8, <2>2, SizeKinds DEF Spoilt
<1>11. \A b \in n.received_mask : \E g \in B : /\ validate_metadata(g) /\ SameHeader(g, h)
                                               /\ g.fragment_index = b
  BY <1>8 DEF SlotOK
<1>12. ASSUME Sound(s, A), ~WrongSize(f) PROVE Sound(n, B)
  <2>1. ~Spoilt(n)
    <3> HIDE DEF e, right, right2, len, bytes
    <3>1. bytes = right /\ len = e
      BY <1>10, <1>12 DEF Sound
    <3>2. QED
      BY <1>10, <3>1
  <2>2. ~WrongSize(n.header)
    BY <1>8, <1>12 DEF Sound
  <2>3. Recorded(n, f)
    <3>1. ASSUME NEW k \in 1 .. len PROVE n.buf[i * F + k] = f.payload[k]
      <4>1. i * F + k \in ByteIndex
        BY <1>4, <1>12, RightSizeFits
      <4>2. i * F + k \in i * F + 1 .. i * F + len /\ (i * F + k) - i * F = k
        <5> HIDE DEF F, i, len
        <5>1. QED
          BY <1>2
      <4> HIDE DEF F, len, i
      <4>3. QED
        BY <1>8, <4>1, <4>2 DEF buf
    <3>2. QED
      BY <1>8, <1>12, <3>1 DEF Recorded
  <2>4. ASSUME NEW b \in mask PROVE \E g \in B : Recorded(n, g) /\ g.fragment_index = b
    <3>1. PICK g \in A : Recorded(s, g) /\ g.fragment_index = b
      BY <1>12 DEF Sound
    <3>2. /\ g \in Frame /\ validate_metadata(g) /\ SameHeader(g, h) /\ SameHeader(f, g)
          /\ ~WrongSize(g) /\ g.fragment_count > 1
      BY <1>4, <3>1, SameHeaderFacts DEF Recorded, SameHeader
    <3>3. ASSUME NEW k \in 1 .. Len(g.payload) PROVE n.buf[b * F + k] = g.payload[k]
      <4>1. b * F + k \in ByteIndex
        BY <3>1, <3>2, RightSizeFits
      <4>2. b * F + k \notin i * F + 1 .. i * F + len
        BY <1>4, <1>12, <3>1, <3>2, Disjoint
      <4>3. s.buf[b * F + k] = g.payload[k]
        BY <3>1 DEF Recorded
      <4> HIDE DEF F, len, i
      <4>4. QED
        BY <1>8, <4>1, <4>2, <4>3 DEF buf
    <3>4. Recorded(n, g)
      BY <1>8, <3>1, <3>2, <3>3 DEF Recorded
    <3>5. QED
      BY <3>1, <3>4
  <2>5. QED
    BY <1>8, <2>1, <2>2, <2>3, <2>4 DEF Sound
<1>13. /\ TooShort(f) => Short(B, h)
       /\ TooLong(f) => Long(B, h)
       /\ Short(A, h) => Short(B, h)
       /\ Long(A, h) => Long(B, h)
  BY DEF Short, Long
<1>14. \/ Sound(s, A)
       \/ Short(A, h) /\ bytes < right
       \/ Long(A, h) /\ bytes > right
       \/ SizesMixed(A, h)
  BY DEF SlotOK
<1>15. \/ Sound(n, B) /\ ~Spoilt(s) /\ ~WrongSize(f)
       \/ Short(B, h) /\ bytes + len < right2
       \/ Long(B, h) /\ bytes + len > right2
       \/ SizesMixed(B, h)
  <2>1. Sound(s, A) => bytes = right /\ ~Spoilt(s)
    BY <1>10 DEF Sound
  <2>2. SizesMixed(A, h) => SizesMixed(B, h)
    BY <1>13, MixedIs
  <2>3. Short(B, h) /\ Long(B, h) => SizesMixed(B, h)
    BY MixedIs
  <2>4. ~WrongSize(f) => ~TooShort(f) /\ ~TooLong(f)
    BY DEF WrongSize
  <2> HIDE DEF e, right, right2, len, bytes, h, B
  <2>5. CASE ~WrongSize(f)
    BY <1>5, <1>2, <1>10, <1>12, <1>13, <1>14, <2>1, <2>2, <2>5
  <2>6. CASE TooShort(f)
    BY <1>5, <1>2, <1>10, <1>13, <1>14, <2>1, <2>2, <2>3, <2>6
  <2>7. CASE TooLong(f)
    BY <1>5, <1>2, <1>10, <1>13, <1>14, <2>1, <2>2, <2>3, <2>7
  <2>8. QED
    BY <2>5, <2>6, <2>7 DEF WrongSize
<1>16. SlotOK(n, B)
  BY <1>8, <1>11, <1>15 DEF SlotOK
<1>17. Spoilt(n) => Spoilt(s) \/ WrongSize(f)
  <2> HIDE DEF e, right, right2, len, bytes
  <2>1. QED
    BY <1>10
<1>18. ~Spoilt(n) /\ ~SizesMixed(B, h) => ~Spoilt(s) /\ ~WrongSize(f)
  <2>1. ~Spoilt(n) => bytes + len = right2
    BY <1>10
  <2>2. bytes + len \in Int /\ right2 \in Int
    <3> HIDE DEF e, right, right2, len, bytes
    <3>1. QED
      BY <1>2, <1>5, <1>10
  <2> HIDE DEF e, right, right2, len, bytes, h, B
  <2>3. QED
    BY <1>15, <2>1, <2>2
<1>19. QED
  BY <1>8, <1>9, <1>16, <1>17, <1>18 DEF n

\* The frames recorded in the slot of a message are its own.
LEMMA RecordedFrame ==
  ASSUME NEW s \in ActiveSlot, NEW A, A \subseteq Frame, Sound(s, A),
         NEW m \in Message, s.header \in Frames(m), NEW b \in s.received_mask
  PROVE  /\ b \in 0 .. Count(m) - 1
         /\ \A k \in 1 .. End(m, b) - b * F : s.buf[b * F + k] = m.payload[b * F + k]
<1>1. PICK f \in A : Recorded(s, f) /\ f.fragment_index = b
  BY DEF Sound
<1>2. f \in Frames(m) /\ f \in Frame
  BY <1>1, OneMessage DEF Recorded
<1>3. PICK d \in 0 .. Count(m) - 1 : f = FrameOf(m, d)
  BY <1>2, FrameKinds
<1>4. /\ f.fragment_index = d /\ Len(f.payload) = End(m, d) - d * F
      /\ \A k \in 1 .. Len(f.payload) : f.payload[k] = m.payload[d * F + k]
  BY <1>3, FramesAre, FrameFields
<1>5. QED
  BY <1>1, <1>4 DEF Recorded

\* Stray frames alone never complete a slot; a complete one has all its bits set.
LEMMA CompleteIsMessage ==
  ASSUME NEW s \in ActiveSlot, NEW A, A \subseteq Frame, SlotOK(s, A), is_complete(s)
  PROVE  /\ \E m \in Message : \E g \in Frames(m) : SameHeader(g, s.header)
         /\ s.received_mask = 0 .. s.header.fragment_count - 1
         /\ s.received_mask # {}
         /\ BytesOf(s.header, s.received_mask) = s.header.total_payload_length
<1> DEFINE h == s.header
<1>1. h \in Frame /\ validate_metadata(h) /\ h.fragment_count > 1 /\ h \in Envelope
  BY FrameKinds DEF SlotOK
<1>2. s.received_mask = 0 .. h.fragment_count - 1
  BY MaskIn DEF is_complete
<1>3. 0 \in 0 .. h.fragment_count - 1 /\ h.fragment_count > 0
  BY <1>1 DEF Envelope
<1>4. BytesOf(h, s.received_mask) = h.total_payload_length
  BY <1>1, <1>2, <1>3, FullBytes
<1>5. CASE h \in Stray
  <2>1. CASE \E m \in Message : \E g \in Frames(m) : SameHeader(g, h)
    BY <1>2, <1>3, <1>4, <2>1
  <2>2. CASE \E k \in 0 .. h.fragment_count - 1 :
               \A t \in Frame : SameHeader(t, h) => t.fragment_index # k
    <3>1. PICK k \in s.received_mask :
                 \A t \in Frame : SameHeader(t, h) => t.fragment_index # k
      BY <1>2, <2>2
    <3>2. PICK f \in A : SameHeader(f, h) /\ f.fragment_index = k
      BY DEF SlotOK
    <3>3. QED
      BY <3>1, <3>2
  <2>3. QED
    BY <1>5, <2>1, <2>2, FramesAssumption
<1>6. CASE h \notin Stray
  BY <1>1, <1>2, <1>3, <1>4, <1>6, FrameKinds, SameHeaderFacts
<1>7. QED
  BY <1>5, <1>6

\* A complete sound slot holds the payload of its message.
LEMMA CompleteBytes ==
  ASSUME NEW s \in ActiveSlot, NEW A, A \subseteq Frame, Sound(s, A), NEW m \in Message,
         s.header \in Frames(m), s.received_mask = 0 .. Count(m) - 1
  PROVE  \A k \in 1 .. Len(m.payload) : s.buf[k] = m.payload[k]
<1> DEFINE c == Count(m)
           n == Len(m.payload)
           last == (c - 1) * F
<1>1. m \in Envelope
  BY FramesAre
<1>2. /\ c \in Nat \ {0} /\ n \in Nat /\ last \in Nat /\ last <= n /\ n <= last + F
  BY <1>1, CountFacts
<1>3. F \in Nat /\ F > 0
  BY ReassemblyAssumption DEF F
<1>4. s.received_mask = 0 .. c - 1
  OBVIOUS
<1>6. ASSUME NEW k \in 1 .. n PROVE s.buf[k] = m.payload[k]
  <2> DEFINE b == (k - 1) \div F
  <2>0. k \in Nat /\ k - 1 \in Nat /\ k <= n
    BY <1>2
  <2>1. b \in Nat /\ b * F \in Nat /\ b * F <= k - 1 /\ k - 1 < b * F + F
    BY <2>0, BlockOf
  <2> HIDE DEF b
  <2>2. b <= c - 1
    <3>1. ASSUME c - 1 < b PROVE FALSE
      <4>1. last + F <= b * F
        BY <1>2, <2>1, <3>1, Blocks
      <4> HIDE DEF c, n, last, F
      <4>2. QED
        BY <1>2, <1>3, <2>0, <2>1, <4>1
    <3>2. QED
      BY <1>2, <2>1, <3>1
  <2>3. b \in 0 .. c - 1
    BY <1>2, <2>1, <2>2
  <2> DEFINE j == k - b * F
  <2>4. j \in 1 .. End(m, b) - b * F /\ b * F + j = k
    <3>1. End(m, b) = IF b = c - 1 THEN n ELSE b * F + F
      BY DEF End
    <3> HIDE DEF c, n, last, F
    <3>2. CASE b = c - 1
      BY <1>2, <1>3, <2>0, <2>1, <3>1, <3>2
    <3>3. CASE b # c - 1
      BY <1>2, <1>3, <2>0, <2>1, <3>1, <3>3
    <3>4. QED
      BY <3>2, <3>3
  <2> HIDE DEF j
  <2>5. s.buf[b * F + j] = m.payload[b * F + j]
    <3>1. b \in s.received_mask
      BY <1>4, <2>3
    <3>2. \A i \in 1 .. End(m, b) - b * F : s.buf[b * F + i] = m.payload[b * F + i]
      BY <3>1, RecordedFrame
    <3>3. QED
      BY <2>4, <3>2, Zenon
  <2>6. QED
    BY <2>4, <2>5
<1>7. QED
  BY <1>6

\* A complete slot whose byte count is right holds its message, unless too short
\* and too long frames have made up for each other.
LEMMA CompleteOK ==
  ASSUME NEW s \in ActiveSlot, NEW A, A \subseteq Frame, SlotOK(s, A), is_complete(s),
         ~Spoilt(s), ~SizesMixed(A, s.header)
  PROVE  \E m \in Message :
           /\ s.header \in Frames(m)
           /\ Assembled(s) = Whole(m)
           /\ \A f \in Frames(m) : f.fragment_index \in s.received_mask
<1> DEFINE h == s.header
<1>0. Sound(s, A)
  <2> DEFINE right == BytesOf(h, s.received_mask)
  <2>1. s.received_bytes = right
    BY DEF Spoilt
  <2>2. s.received_bytes \in Nat
    <3>1. MSG_MAX_PAYLOAD_BYTES \in Nat
      BY ReassemblyAssumption DEF MSG_MAX_PAYLOAD_BYTES
    <3>2. s.received_bytes \in 0 .. MSG_MAX_PAYLOAD_BYTES
      BY SlotFields
    <3>3. QED
      BY <3>1, <3>2
  <2>3. \/ Sound(s, A)
        \/ s.received_bytes < right
        \/ s.received_bytes > right
    BY DEF SlotOK
  <2> HIDE DEF right
  <2>4. QED
    BY <2>1, <2>2, <2>3
<1>1. h \in Frame /\ validate_metadata(h)
  BY DEF SlotOK
<1>2. /\ s.received_mask = 0 .. h.fragment_count - 1 /\ s.received_mask # {}
      /\ \E m \in Message : \E g \in Frames(m) : SameHeader(g, h)
  BY CompleteIsMessage
<1>3. PICK m \in Message : h \in Frames(m)
  <2>1. ~WrongSize(h)
    BY <1>0, <1>2 DEF Sound
  <2>2. QED
    BY <1>1, <1>2, <2>1, OneMessage, SameHeaderFacts
<1>4. PICK b \in 0 .. Count(m) - 1 : h = FrameOf(m, b)
  BY <1>1, <1>3, FrameKinds
<1>5. /\ m \in Envelope /\ h.total_payload_length = Len(m.payload)
      /\ h.fragment_count = Count(m)
  BY <1>4, FramesAre, FrameFields
<1>6. \A k \in 1 .. Len(m.payload) : s.buf[k] = m.payload[k]
  BY <1>0, <1>2, <1>3, <1>5, CompleteBytes
<1>7. ASSUME NEW f \in Frames(m) PROVE f.fragment_index \in s.received_mask
  <2>1. f \in Frame
    BY DEF Frame
  <2>2. QED
    BY <1>2, <1>5, <2>1, FrameKinds, FrameFields
<1> DEFINE p == [k \in 1 .. h.total_payload_length |-> s.buf[k]]
<1>8. p = m.payload
  <2>1. m.payload \in Seq(Nat)
    BY <1>5 DEF Envelope
  <2>2. m.payload = [k \in 1 .. Len(m.payload) |-> m.payload[k]]
    BY <2>1
  <2>3. p = [k \in 1 .. Len(m.payload) |-> m.payload[k]]
    BY <1>5, <1>6
  <2>4. QED
    BY <2>2, <2>3
<1>9. Assembled(s) = Whole(m)
  <2>1. Assembled(s) = [h EXCEPT !.payload = m.payload, !.fragment_index = 0,
                                 !.fragment_count = 1]
    BY <1>8 DEF Assembled
  <2> DEFINE q == SubSeq(m.payload, b * F + 1, End(m, b))
  <2>2. h = [m EXCEPT !.fragment_index = b, !.fragment_count = Count(m),
                      !.total_payload_length = Len(m.payload), !.payload = q]
    BY <1>4 DEF FrameOf
  <2> HIDE DEF q, h
  <2>3. QED
    BY <1>5, <2>1, <2>2 DEF Whole, Envelope
<1>10. QED
  BY <1>3, <1>7, <1>9

\* Whatever comes out of a slot is an envelope with the header's ids.
LEMMA AssembledType ==
  ASSUME NEW s \in ActiveSlot, NEW A, SlotOK(s, A)
  PROVE  /\ Assembled(s) \in Envelope
         /\ Assembled(s).source_id = s.header.source_id
         /\ Assembled(s).message_id = s.header.message_id
<1> DEFINE h == s.header
           n == h.total_payload_length
           M == MSG_MAX_PAYLOAD_BYTES
           p == [k \in 1 .. n |-> s.buf[k]]
<1>1. /\ h \in Envelope /\ s.buf \in [1 .. M -> Nat]
      /\ n \in Nat /\ n <= M /\ M \in Nat
  <2>1. h \in Frame /\ validate_metadata(h)
    BY DEF SlotOK
  <2>2. M \in Nat
    BY ReassemblyAssumption DEF MSG_MAX_PAYLOAD_BYTES
  <2>3. QED
    BY <2>1, <2>2, FrameFits, SlotFields DEF ByteIndex
<1> HIDE DEF M, n
<1>2. p \in [1 .. n -> Nat]
  BY <1>1
<1>3. p \in Seq(Nat)
  BY <1>1, <1>2
<1>4. Assembled(s) = [h EXCEPT !.payload = p, !.fragment_index = 0, !.fragment_count = 1]
  BY DEF Assembled, n
<1> HIDE DEF p, h
<1>5. LET x == [h EXCEPT !.payload = p, !.fragment_index = 0, !.fragment_count = 1]
      IN  x \in Envelope /\ x.source_id = h.source_id /\ x.message_id = h.message_id
  BY <1>1, <1>3 DEF Envelope
<1>6. QED
  BY <1>4, <1>5 DEF h

-----------------------------------------------------------------------------
(* The table of slots.                                                     *)

SlotsOK(b, A) == b \in Slots /\ \A i \in Open(b) : SlotOK(b[i], A)

\* No two slots are open for the same message.
Apart(b) ==
  \A i, j \in Open(b) :
    /\ b[i].header.source_id = b[j].header.source_id
    /\ b[i].header.message_id = b[j].header.message_id
    => i = j

\* Between two calls an open slot holds a frame.
Begun(b) == \A i \in Open(b) : b[i].received_mask # {}

\* The bit of frame g is set in a slot that waits for the rest of its message
\* and is not spoilt.
Pending(b, g) ==
  \E i \in Open(b) : /\ SameHeader(g, b[i].header) /\ ~Spoilt(b[i])
                     /\ g.fragment_index \in b[i].received_mask

LEMMA OpenSlot ==
  ASSUME NEW b, NEW A, SlotsOK(b, A), NEW i \in Open(b)
  PROVE  i \in SlotIndex /\ b[i] \in ActiveSlot /\ SlotOK(b[i], A)
BY DEF SlotsOK, Slots, Open, ActiveSlot

LEMMA SlotsOKMore ==
  ASSUME NEW b, NEW A, NEW B, A \subseteq B, SlotsOK(b, A)
  PROVE  SlotsOK(b, B)
BY SlotOKMore DEF SlotsOK

LEMMA FreeOK ==
  ASSUME NEW b, NEW A, SlotsOK(b, A), Apart(b), NEW S
  PROVE  LET c == Free(b, S)
         IN  /\ SlotsOK(c, A) /\ Apart(c) /\ Open(c) = Open(b) \ S
             /\ \A i \in Open(c) : c[i] = b[i]
             /\ \A g : Pending(c, g) => Pending(b, g)
<1> DEFINE c == Free(b, S)
<1>1. c = [i \in SlotIndex |-> IF i \in S THEN NoSlot ELSE b[i]]
  BY DEF Free
<1> HIDE DEF c
<1>2. NoSlot \in ReassemblySlot /\ NoSlot.active = FALSE
  BY DEF ReassemblySlot, NoSlot
<1>3. b \in [SlotIndex -> ReassemblySlot]
  BY DEF SlotsOK, Slots
<1>4. c \in [SlotIndex -> ReassemblySlot]
  BY <1>1, <1>2, <1>3
<1>5. Open(c) = Open(b) \ S
  BY <1>1, <1>2 DEF Open
<1>6. \A i \in Open(c) : c[i] = b[i]
  BY <1>1, <1>5 DEF Open
<1>7. SlotsOK(c, A)
  BY <1>4, <1>5, <1>6 DEF SlotsOK, Slots
<1>8. Apart(c)
  BY <1>5, <1>6 DEF Apart
<1>9. \A g : Pending(c, g) => Pending(b, g)
  BY <1>5, <1>6 DEF Pending
<1>10. QED
  BY <1>5, <1>6, <1>7, <1>8, <1>9 DEF c

\* An open slot is replaced by one of the same message.
LEMMA PutOK ==
  ASSUME NEW b, NEW A, SlotsOK(b, A), Apart(b), NEW i \in Open(b), NEW n \in ActiveSlot,
         SlotOK(n, A), n.header = b[i].header
  PROVE  LET c == [b EXCEPT ![i] = n]
         IN  /\ SlotsOK(c, A) /\ Apart(c) /\ Open(c) = Open(b) /\ c[i] = n
             /\ \A j \in Open(b) : j # i => c[j] = b[j]
<1> DEFINE c == [b EXCEPT ![i] = n]
<1>1. b \in [SlotIndex -> ReassemblySlot] /\ i \in SlotIndex /\ b[i].active
  BY DEF SlotsOK, Slots, Open
<1>2. n \in ReassemblySlot /\ n.active
  BY DEF ActiveSlot
<1>3. /\ c \in [SlotIndex -> ReassemblySlot] /\ c[i] = n
      /\ \A j \in SlotIndex : j # i => c[j] = b[j]
  BY <1>1, <1>2
<1> HIDE DEF c
<1>4. Open(c) = Open(b)
  BY <1>1, <1>2, <1>3 DEF Open
<1>5. \A j \in Open(b) : j \in SlotIndex /\ c[j].header = b[j].header
  BY <1>3 DEF Open
<1>6. SlotsOK(c, A)
  BY <1>3, <1>4, <1>5 DEF SlotsOK, Slots
<1>7. Apart(c)
  BY <1>4, <1>5, Zenon DEF Apart
<1>8. QED
  BY <1>3, <1>4, <1>5, <1>6, <1>7 DEF c

\* find_or_open_slot() finds the slot of the message, or opens one for it; the
\* other open slots stay as they are.
LEMMA FindOrOpen ==
  ASSUME NEW b, NEW A, SlotsOK(b, A), Apart(b), NEW f \in Frame, validate_metadata(f),
         f.fragment_count > 1, NEW now \in Nat,
         find_or_open_slot(b, f, now).res = "OK"
  PROVE  LET r == find_or_open_slot(b, f, now)
         IN  /\ SlotsOK(r.slots, A) /\ Apart(r.slots) /\ r.idx \in Open(r.slots)
             /\ SameHeader(f, r.slots[r.idx].header)
             /\ Open(b) \subseteq Open(r.slots)
             /\ Open(r.slots) \ Open(b) \subseteq {r.idx}
             /\ \A j \in Open(b) : r.slots[j] = b[j]
             /\ \A j \in Open(r.slots) \ Open(b) : /\ r.slots[j].received_mask = {}
                                                   /\ r.slots[j].header = f
<1> DEFINE r     == find_or_open_slot(b, f, now)
           found == find_slot(b, f.source_id, f.message_id)
           full  == \/ Cardinality(OpenFrom(b, f.source_id)) >= k_reasm_per_src_max
                    \/ Open(b) = SlotIndex
           i == Min(SlotIndex \ Open(b))
           s == open_slot(f, now)
           c == [b EXCEPT ![i] = s]
<1>0. SlotIndex \subseteq Nat
  BY ReassemblyAssumption DEF SlotIndex
<1>1. \A j : j \in found <=> /\ j \in Open(b) /\ b[j].header.source_id = f.source_id
                             /\ b[j].header.message_id = f.message_id
  BY DEF find_slot, OpenFrom
<1>2. r = CASE found # {} /\ validate_fragment(b[Min(found)], f) ->
                 [res |-> "OK", idx |-> Min(found), slots |-> b]
            [] found # {} /\ ~validate_fragment(b[Min(found)], f) ->
                 [res |-> "ERR_INVALID", idx |-> 0, slots |-> b]
            [] found = {} /\ full -> [res |-> "ERR_FULL", idx |-> 0, slots |-> b]
            [] OTHER -> [res |-> "OK", idx |-> i, slots |-> c]
  BY DEF find_or_open_slot
<1> HIDE DEF r, found, full, i, s, c
<1>3. \/ /\ found # {} /\ validate_fragment(b[Min(found)], f)
         /\ r = [res |-> "OK", idx |-> Min(found), slots |-> b]
      \/ /\ found = {} /\ ~full
         /\ r = [res |-> "OK", idx |-> i, slots |-> c]
  <2>1. r.res = "OK"
    BY DEF r
  <2>2. CASE found # {} /\ validate_fragment(b[Min(found)], f)
    BY <1>2, <2>2
  <2>3. CASE found # {} /\ ~validate_fragment(b[Min(found)], f)
    BY <1>2, <2>1, <2>3
  <2>4. CASE found = {} /\ full
    BY <1>2, <2>1, <2>4
  <2>5. CASE found = {} /\ ~full
    BY <1>2, <2>5
  <2>6. QED
    BY <2>2, <2>3, <2>4, <2>5
<1>4. CASE /\ found # {} /\ validate_fragment(b[Min(found)], f)
           /\ r = [res |-> "OK", idx |-> Min(found), slots |-> b]
  <2>1. found \subseteq Nat
    BY <1>0, <1>1 DEF Open
  <2>2. Min(found) \in found
    BY <1>4, <2>1, MinIsLeast
  <2>3. /\ Min(found) \in Open(b) /\ SameHeader(f, b[Min(found)].header)
    BY <1>1, <1>4, <2>2 DEF SameHeader, validate_fragment
  <2>4. r.slots = b /\ r.idx = Min(found)
    BY <1>4
  <2>5. QED
    BY <2>3, <2>4 DEF r
<1>5. CASE /\ found = {} /\ ~full
           /\ r = [res |-> "OK", idx |-> i, slots |-> c]
  <2>1. Open(b) # SlotIndex /\ Open(b) \subseteq SlotIndex
    BY <1>5 DEF full, Open
  <2>2. i \in SlotIndex \ Open(b)
    <3>1. SlotIndex \ Open(b) \subseteq Nat /\ SlotIndex \ Open(b) # {}
      BY <1>0, <2>1
    <3>2. QED
      BY <3>1, MinIsLeast DEF i
  <2>3. /\ s \in ActiveSlot /\ SlotOK(s, A) /\ s.header = f /\ s.received_mask = {}
    BY OpenedOK DEF s
  <2>4. s \in ReassemblySlot /\ s.active
    BY <2>3 DEF ActiveSlot
  <2>5. b \in [SlotIndex -> ReassemblySlot]
    BY DEF SlotsOK, Slots
  <2>6. /\ c \in [SlotIndex -> ReassemblySlot] /\ c[i] = s
        /\ \A j \in SlotIndex : j # i => c[j] = b[j]
    BY <2>2, <2>4, <2>5 DEF c
  <2>7. Open(c) = Open(b) \union {i} /\ \A j \in Open(b) : j # i /\ c[j] = b[j]
    BY <2>2, <2>4, <2>6 DEF Open
  <2>8. SlotsOK(c, A)
    BY <2>3, <2>6, <2>7 DEF SlotsOK, Slots
  <2>9. \A j \in Open(b) : ~(/\ c[j].header.source_id = c[i].header.source_id
                             /\ c[j].header.message_id = c[i].header.message_id)
    BY <1>1, <1>5, <2>3, <2>6, <2>7
  <2>10. Apart(c)
    <3> SUFFICES ASSUME NEW j \in Open(c), NEW k \in Open(c),
                        c[j].header.source_id = c[k].header.source_id,
                        c[j].header.message_id = c[k].header.message_id
                 PROVE  j = k
      BY DEF Apart
    <3>1. CASE j \in Open(b) /\ k \in Open(b)
      BY <2>7, <3>1 DEF Apart
    <3>2. CASE j = i \/ k = i
      BY <2>7, <2>9, <3>2
    <3>3. QED
      BY <2>7, <3>1, <3>2
  <2>11. SameHeader(f, c[i].header)
    BY <2>3, <2>6 DEF SameHeader
  <2>12. r.slots = c /\ r.idx = i
    BY <1>5
  <2>13. \A j \in Open(c) \ Open(b) : /\ j = i /\ c[j].received_mask = {}
                                       /\ c[j].header = f
    BY <2>3, <2>6, <2>7
  <2>14. QED
    BY <2>7, <2>8, <2>10, <2>11, <2>12, <2>13 DEF r
<1>6. QED
  BY <1>3, <1>4, <1>5


\* What frame f leaves of table b is table c; B are the frames arrived by now.
\* Nothing comes out: f only adds its own bit, or a slot is given up because of
\* a frame of the wrong size.
Waits(b, c, f, B) ==
  /\ \A j \in Open(b) \ Open(c) :
       \E w \in B : /\ WrongSize(w) /\ SameHeader(w, b[j].header)
                    /\ Spoilt(b[j]) \/ w = f
  /\ \A m \in Message : \A g \in Frames(m) :
       Pending(c, g) => Pending(b, g) \/ g = f \/ SizesMixed(B, g)

\* f was the last frame that message m was waiting for.
Completes(b, c, f, m) ==
  /\ f \in Frames(m) /\ ~Pending(b, f)
  /\ \A g \in Frames(m) : ~Pending(c, g) /\ (g = f \/ Pending(b, g))
  /\ \A g : Pending(c, g) => Pending(b, g)
  /\ \A i \in Open(b) \ Open(c) : /\ b[i].header.source_id = m.source_id
                                  /\ b[i].header.message_id = m.message_id

\* Frames that are too short and too long have made up for each other.
Muddled(b, c, f, B, x) ==
  /\ x \in Envelope /\ x.source_id = f.source_id /\ x.message_id = f.message_id
  /\ SizesMixed(B, f)
  /\ \E m \in Message : \E g \in Frames(m) : SameHeader(g, f)
  /\ \A g : Pending(c, g) => Pending(b, g)
  /\ \A i \in Open(b) \ Open(c) : /\ b[i].header.source_id = x.source_id
                                  /\ b[i].header.message_id = x.message_id

IngestOK(b, f, A, r) ==
  LET B == A \union {f}
  IN  /\ SlotsOK(r.slots, B) /\ Apart(r.slots) /\ Begun(r.slots)
      /\ \/ r.out = {} /\ Waits(b, r.slots, f, B)
         \/ \E m \in Message : r.out = {Whole(m)} /\ Completes(b, r.slots, f, m)
         \/ \E x : r.out = {x} /\ Muddled(b, r.slots, f, B, x)

LEMMA MixedSame ==
  ASSUME NEW f, NEW g, SameHeader(f, g), NEW A, SizesMixed(A, f)
  PROVE  SizesMixed(A, g)
BY SameHeaderFacts DEF SizesMixed

LEMMA MultiOK ==
  ASSUME NEW b, NEW A, A \subseteq Frame, SlotsOK(b, A), Apart(b), Begun(b),
         NEW f \in Frame, validate_metadata(f), f.fragment_count > 1, NEW now \in Nat
  PROVE  IngestOK(b, f, A, ingest_multifrag(b, f, now))
<1> DEFINE q        == find_or_open_slot(b, f, now)
           d        == q.slots
           i        == q.idx
           slot     == d[i]
           seen     == f.fragment_index \in slot.received_mask
           n        == record_fragment(slot, f)
           freed    == [d EXCEPT ![i] = NoSlot]
           sizes_ok == n.received_bytes = n.header.total_payload_length
           r        == ingest_multifrag(b, f, now)
           B        == A \union {f}
<1>1. r = CASE q.res # "OK" -> [res |-> q.res, out |-> {}, slots |-> b]
            [] q.res = "OK" /\ seen -> [res |-> "ERR_AGAIN", out |-> {}, slots |-> d]
            [] q.res = "OK" /\ ~seen /\ Overruns(slot, f) ->
                 [res |-> "ERR_INVALID", out |-> {}, slots |-> freed]
            [] q.res = "OK" /\ ~seen /\ ~Overruns(slot, f) /\ ~is_complete(n) ->
                 [res |-> "ERR_AGAIN", out |-> {}, slots |-> [d EXCEPT ![i] = n]]
            [] OTHER -> [res   |-> IF sizes_ok THEN "OK" ELSE "ERR_INVALID",
                         out   |-> IF sizes_ok THEN {Assembled(n)} ELSE {},
                         slots |-> freed]
  BY DEF ingest_multifrag
<1>2. q.res = "OK" =>
        /\ SlotsOK(d, A) /\ Apart(d) /\ i \in Open(d) /\ SameHeader(f, slot.header)
        /\ Open(b) \subseteq Open(d) /\ Open(d) \ Open(b) \subseteq {i}
        /\ \A j \in Open(b) : d[j] = b[j]
        /\ \A j \in Open(d) \ Open(b) : d[j].received_mask = {} /\ d[j].header = f
  BY FindOrOpen
<1>a. A \subseteq B /\ B \subseteq Frame /\ f \in B
  OBVIOUS
<1> HIDE DEF q, d, i, seen, n, freed, sizes_ok, r, B
<1>3. CASE q.res # "OK"
  <2>1. r = [res |-> q.res, out |-> {}, slots |-> b]
    BY <1>1, <1>3
  <2>2. r.out = {} /\ r.slots = b
    BY <2>1
  <2>3. Waits(b, b, f, B) /\ SlotsOK(b, B)
    BY <1>a, SlotsOKMore DEF Waits
  <2>4. QED
    BY <2>2, <2>3 DEF IngestOK, r, B
<1>4. CASE q.res = "OK"
  <2>1. /\ SlotsOK(d, A) /\ Apart(d) /\ i \in Open(d) /\ SameHeader(f, slot.header)
        /\ Open(b) \subseteq Open(d) /\ Open(d) \ Open(b) \subseteq {i}
        /\ \A j \in Open(b) : d[j] = b[j]
        /\ \A j \in Open(d) \ Open(b) : d[j].received_mask = {} /\ d[j].header = f
    BY <1>2, <1>4
  <2>2. \A g : Pending(d, g) => Pending(b, g)
    BY <2>1 DEF Pending
  <2>3. /\ i \in SlotIndex /\ slot \in ActiveSlot /\ SlotOK(slot, A) /\ SlotsOK(d, B)
        /\ slot.received_mask = {} => f = slot.header
    <3>1. slot.received_mask = {} => f = slot.header
      BY <2>1 DEF Begun
    <3>2. QED
      BY <1>a, <2>1, <3>1, OpenSlot, SlotsOKMore
  <2>b. freed = Free(d, {i})
    <3>1. d \in [SlotIndex -> ReassemblySlot]
      BY <2>1 DEF SlotsOK, Slots
    <3>2. QED
      BY <3>1, <2>3 DEF freed, Free
  <2>c. /\ SlotsOK(freed, B) /\ Apart(freed) /\ Open(freed) = Open(d) \ {i}
        /\ \A j \in Open(freed) : freed[j] = d[j]
        /\ \A g : Pending(freed, g) => Pending(d, g)
    BY <2>1, <2>3, <2>b, FreeOK
  <2>d. /\ Begun(freed) /\ \A j \in Open(b) \ Open(freed) : j = i /\ b[j] = slot
    BY <2>1, <2>c DEF Begun
  <2>4. CASE seen
    <3>1. r = [res |-> "ERR_AGAIN", out |-> {}, slots |-> d]
      BY <1>1, <1>4, <2>4
    <3>2. r.out = {} /\ r.slots = d
      BY <3>1
    <3>3. Waits(b, d, f, B)
      BY <2>1, <2>2 DEF Waits
    <3>4. Begun(d)
      BY <2>1, <2>4 DEF Begun, seen
    <3>5. QED
      BY <2>1, <2>3, <3>2, <3>3, <3>4 DEF IngestOK, r, B
  <2>5. CASE ~seen /\ Overruns(slot, f)
    <3>1. r = [res |-> "ERR_INVALID", out |-> {}, slots |-> freed]
      BY <1>1, <1>4, <2>5
    <3>2. r.out = {} /\ r.slots = freed
      BY <3>1
    <3>3. WrongSize(f) \/ Spoilt(slot)
      BY <2>1, <2>3, <2>5, NoOverrun DEF seen
    <3>4. \E w \in B : /\ WrongSize(w) /\ SameHeader(w, slot.header)
                       /\ Spoilt(slot) \/ w = f
      <4>1. CASE WrongSize(f)
        BY <1>a, <2>1, <4>1
      <4>2. CASE Spoilt(slot)
        BY <1>a, <2>3, <4>2, SpoiltBy
      <4>3. QED
        BY <3>3, <4>1, <4>2
    <3>5. Waits(b, freed, f, B)
      BY <2>2, <2>c, <2>d, <3>4 DEF Waits
    <3>6. QED
      BY <2>c, <2>d, <3>2, <3>5 DEF IngestOK, r, B
  <2>6. CASE ~seen /\ ~Overruns(slot, f)
    <3>1. /\ n \in ActiveSlot /\ SlotOK(n, B) /\ n.header = slot.header
          /\ n.received_mask = slot.received_mask \union {f.fragment_index}
          /\ Spoilt(n) => Spoilt(slot) \/ WrongSize(f)
          /\ ~Spoilt(n) /\ ~SizesMixed(B, n.header) => ~Spoilt(slot) /\ ~WrongSize(f)
      BY <2>1, <2>3, <2>6, RecordOK DEF seen, n, B
    <3>2. CASE ~is_complete(n)
      <4> DEFINE e == [d EXCEPT ![i] = n]
      <4>1. r = [res |-> "ERR_AGAIN", out |-> {}, slots |-> e]
        BY <1>1, <1>4, <2>6, <3>2
      <4>2. r.out = {} /\ r.slots = e
        BY <4>1
      <4>3. /\ SlotsOK(e, B) /\ Apart(e) /\ Open(e) = Open(d) /\ e[i] = n
            /\ \A j \in Open(d) : j # i => e[j] = d[j]
        BY <2>1, <2>3, <3>1, PutOK
      <4> HIDE DEF e
      <4>4. ASSUME NEW m \in Message, NEW g \in Frames(m), Pending(e, g), ~SizesMixed(B, g)
            PROVE  Pending(b, g) \/ g = f
        <5>1. PICK j \in Open(d) : /\ SameHeader(g, e[j].header) /\ ~Spoilt(e[j])
                                   /\ g.fragment_index \in e[j].received_mask
          BY <4>3, <4>4 DEF Pending
        <5>2. CASE j # i
          BY <2>2, <4>3, <5>1, <5>2 DEF Pending
        <5>3. CASE j = i
          <6>1. SameHeader(g, slot.header) /\ ~Spoilt(n)
            BY <3>1, <4>3, <5>1, <5>3
          <6>2. ~SizesMixed(B, slot.header)
            BY <4>4, <6>1, MixedSame, SameHeaderFacts
          <6>3. ~Spoilt(slot) /\ ~WrongSize(f)
            BY <3>1, <6>1, <6>2
          <6>4. CASE g.fragment_index \in slot.received_mask
            <7>1. Pending(d, g)
              BY <2>1, <6>1, <6>3, <6>4 DEF Pending
            <7>2. QED
              BY <2>2, <7>1
          <6>5. CASE g.fragment_index = f.fragment_index
            <7>1. SameHeader(f, g)
              BY <2>1, <6>1, SameHeaderFacts
            <7>2. f \in Frames(m)
              BY <6>3, <7>1, OneMessage
            <7>3. QED
              BY <6>5, <7>2, FramesSame
          <6>6. QED
            BY <3>1, <4>3, <5>1, <5>3, <6>4, <6>5
        <5>4. QED
          BY <5>2, <5>3
      <4>5. Waits(b, e, f, B)
        BY <2>1, <4>3, <4>4 DEF Waits
      <4>6. Begun(e)
        BY <2>1, <3>1, <4>3 DEF Begun
      <4>7. QED
        BY <4>2, <4>3, <4>5, <4>6 DEF IngestOK, r, B
    <3>3. CASE is_complete(n)
      <4>1. r = [res   |-> IF sizes_ok THEN "OK" ELSE "ERR_INVALID",
                 out   |-> IF sizes_ok THEN {Assembled(n)} ELSE {},
                 slots |-> freed]
        BY <1>1, <1>4, <2>6, <3>3
      <4>2. /\ \E m \in Message : \E g \in Frames(m) : SameHeader(g, n.header)
            /\ sizes_ok <=> ~Spoilt(n)
        BY <1>a, <3>1, <3>3, CompleteIsMessage DEF sizes_ok, Spoilt
      <4>3. CASE ~sizes_ok
        <5>1. r.out = {} /\ r.slots = freed
          BY <4>1, <4>3
        <5>2. \E w \in B : /\ WrongSize(w) /\ SameHeader(w, slot.header)
                           /\ Spoilt(slot) \/ w = f
          <6>1. CASE WrongSize(f)
            BY <1>a, <2>1, <6>1
          <6>2. CASE Spoilt(slot)
            BY <1>a, <2>3, <6>2, SpoiltBy
          <6>3. QED
            BY <3>1, <4>2, <4>3, <6>1, <6>2
        <5>3. Waits(b, freed, f, B)
          BY <2>2, <2>c, <2>d, <5>2 DEF Waits
        <5>4. QED
          BY <2>c, <2>d, <5>1, <5>3 DEF IngestOK, r, B
      <4>4. CASE sizes_ok /\ SizesMixed(B, n.header)
        <5>1. r.out = {Assembled(n)} /\ r.slots = freed
          BY <4>1, <4>4
        <5>2. /\ Assembled(n) \in Envelope
              /\ Assembled(n).source_id = n.header.source_id
              /\ Assembled(n).message_id = n.header.message_id
          BY <3>1, AssembledType
        <5>3. SameHeader(f, n.header) /\ SameHeader(n.header, f)
          BY <2>1, <3>1, SameHeaderFacts
        <5>4. /\ SizesMixed(B, f) /\ \E m \in Message : \E g \in Frames(m) : SameHeader(g, f)
          BY <4>2, <4>4, <5>3, MixedSame, SameHeaderFacts
        <5>5. n.header.source_id = f.source_id /\ n.header.message_id = f.message_id
          BY <5>3 DEF SameHeader
        <5>6. Muddled(b, freed, f, B, Assembled(n))
          BY <2>2, <2>c, <2>d, <3>1, <5>2, <5>4, <5>5 DEF Muddled
        <5>7. QED
          BY <2>c, <2>d, <5>1, <5>6 DEF IngestOK, r, B
      <4>5. CASE sizes_ok /\ ~SizesMixed(B, n.header)
        <5>1. PICK m \in Message :
                     /\ n.header \in Frames(m) /\ Assembled(n) = Whole(m)
                     /\ \A g \in Frames(m) : g.fragment_index \in n.received_mask
          BY <1>a, <3>1, <3>3, <4>2, <4>5, CompleteOK
        <5>2. r.out = {Whole(m)} /\ r.slots = freed
          BY <4>1, <4>5, <5>1
        <5>3. ~Spoilt(slot) /\ ~WrongSize(f)
          BY <3>1, <4>2, <4>5
        <5>4. slot.header \in Frames(m) /\ f \in Frames(m)
          BY <2>1, <3>1, <5>1, <5>3, OneMessage
        <5>5. ASSUME NEW g \in Frames(m), NEW j \in Open(d), SameHeader(g, d[j].header)
              PROVE  j = i
          <6>1. SameHeader(g, slot.header)
            BY <5>4, FramesSame
          <6>2. QED
            BY <2>1, <5>5, <6>1 DEF Apart, SameHeader
        <5>6. ~Pending(b, f)
          <6>1. ASSUME NEW j \in Open(b), SameHeader(f, b[j].header),
                       f.fragment_index \in b[j].received_mask
                PROVE  FALSE
            <7>1. j \in Open(d) /\ d[j] = b[j]
              BY <2>1
            <7>2. j = i
              BY <5>4, <5>5, <6>1, <7>1
            <7>3. QED
              BY <2>6, <6>1, <7>1, <7>2 DEF seen
          <6>2. QED
            BY <6>1 DEF Pending
        <5>7. ASSUME NEW g \in Frames(m) PROVE ~Pending(freed, g)
          BY <2>c, <5>5 DEF Pending
        <5>8. ASSUME NEW g \in Frames(m), g # f PROVE Pending(b, g)
          <6>1. g.fragment_index # f.fragment_index
            BY <5>4, <5>8, FramesSame
          <6>2. g.fragment_index \in slot.received_mask
            BY <3>1, <5>1, <6>1
          <6>3. SameHeader(g, slot.header)
            BY <5>4, FramesSame
          <6>4. Pending(d, g)
            BY <2>1, <5>3, <6>2, <6>3 DEF Pending
          <6>5. QED
            BY <2>2, <6>4
        <5>9. ASSUME NEW j \in Open(b) \ Open(freed)
              PROVE  /\ b[j].header.source_id = m.source_id
                     /\ b[j].header.message_id = m.message_id
          BY <2>d, <5>4, FramesSame
        <5>10. Completes(b, freed, f, m)
          BY <2>2, <2>c, <5>4, <5>6, <5>7, <5>8, <5>9 DEF Completes
        <5>11. QED
          BY <2>c, <2>d, <5>2, <5>10 DEF IngestOK, r, B
      <4>6. QED
        BY <4>3, <4>4, <4>5
    <3>4. QED
      BY <3>2, <3>3
  <2>7. QED
    BY <2>4, <2>5, <2>6
<1>5. QED
  BY <1>3, <1>4

\* A message of a single frame passes through.
LEMMA SingleFrame ==
  ASSUME NEW f \in Frame, validate_metadata(f), f.fragment_count <= 1
  PROVE  \E m \in Message : f = Whole(m) /\ Frames(m) = {f}
<1>1. f \in Envelope /\ f.fragment_count \in Nat
  BY FrameKinds DEF Envelope
<1>2. f \notin Stray
  BY <1>1, FramesAssumption
<1>3. PICK m \in Message : f \in Frames(m)
  BY <1>2, FrameKinds
<1>4. /\ m \in Envelope /\ Frames(m) = {FrameOf(m, b) : b \in 0 .. Count(m) - 1}
  BY <1>3, FrameKinds, FramesAre
<1>5. PICK b \in 0 .. Count(m) - 1 : f = FrameOf(m, b)
  BY <1>3, FrameKinds
<1>6. Count(m) = 1
  <2>1. f.fragment_count = Count(m) /\ Count(m) \in Nat \ {0}
    BY <1>4, <1>5, FrameFields, CountFacts
  <2>2. QED
    BY <2>1
<1>7. b = 0 /\ Frames(m) = {f}
  <2>1. 0 .. Count(m) - 1 = {0}
    BY <1>6
  <2>2. QED
    BY <1>4, <1>5, <2>1
<1>8. SubSeq(m.payload, b * F + 1, End(m, b)) = m.payload
  <2>1. F \in Nat /\ m.payload \in Seq(Nat)
    BY <1>4, ReassemblyAssumption DEF F, Envelope
  <2>2. b * F + 1 = 1 /\ End(m, b) = Len(m.payload)
    BY <1>6, <1>7, <2>1 DEF End
  <2>3. SubSeq(m.payload, 1, Len(m.payload)) = m.payload
    BY <2>1
  <2>4. QED
    BY <2>2, <2>3
<1>9. f = [m EXCEPT !.fragment_index = 0, !.fragment_count = 1,
                    !.total_payload_length = Len(m.payload), !.payload = m.payload]
  BY <1>5, <1>6, <1>7, <1>8 DEF FrameOf
<1>10. f = Whole(m)
  BY <1>4, <1>9 DEF Whole, Envelope
<1>11. QED
  BY <1>7, <1>10

LEMMA IngestOutcome ==
  ASSUME NEW b, NEW A, A \subseteq Frame, SlotsOK(b, A), Apart(b), Begun(b),
         NEW f \in Frame, NEW now \in Nat
  PROVE  IngestOK(b, f, A, ingest(b, f, now))
<1> DEFINE r == ingest(b, f, now)
<1>0. SlotsOK(b, A \union {f})
  BY SlotsOKMore
<1>1. CASE ~validate_metadata(f)
  <2>1. r = [res |-> "ERR_INVALID", out |-> {}, slots |-> b]
    BY <1>1 DEF ingest
  <2> HIDE DEF r
  <2>2. r.out = {} /\ r.slots = b
    BY <2>1
  <2>3. Waits(b, b, f, A \union {f})
    BY DEF Waits
  <2>4. QED
    BY <1>0, <2>2, <2>3 DEF IngestOK, r
<1>2. CASE validate_metadata(f) /\ f.fragment_count <= 1
  <2>1. r = [res |-> "OK", out |-> {f}, slots |-> b]
    BY <1>2 DEF ingest
  <2> HIDE DEF r
  <2>2. r.out = {f} /\ r.slots = b
    BY <2>1
  <2>3. PICK m \in Message : f = Whole(m) /\ Frames(m) = {f}
    BY <1>2, SingleFrame
  <2>4. ~Pending(b, f)
    <3>1. ASSUME NEW i \in Open(b), SameHeader(f, b[i].header) PROVE FALSE
      <4>1. b[i].header.fragment_count > 1 /\ b[i].header.fragment_count = f.fragment_count
        BY <3>1 DEF SlotsOK, SlotOK, SameHeader
      <4>2. f.fragment_count \in Nat
        BY FrameKinds DEF Envelope
      <4>3. QED
        BY <1>2, <4>1, <4>2
    <3>2. QED
      BY <3>1 DEF Pending
  <2>5. Completes(b, b, f, m)
    BY <2>3, <2>4 DEF Completes
  <2>6. QED
    BY <1>0, <2>2, <2>3, <2>5 DEF IngestOK, r
<1>3. CASE validate_metadata(f) /\ ~(f.fragment_count <= 1)
  <2>1. f.fragment_count > 1
    BY <1>3, FrameKinds DEF Envelope
  <2>2. r = ingest_multifrag(b, f, now)
    BY <1>3 DEF ingest
  <2>3. QED
    BY <1>3, <2>1, <2>2, MultiOK
<1>4. QED
  BY <1>1, <1>2, <1>3

(***************************************************************************)
(* The inductive invariant.  A message has come out of the buffer no more  *)
(* often than any of its frames has arrived, and strictly less often than  *)
(* a frame whose bit is set in an open slot that is not spoilt; unless     *)
(* frames that are too short and too long have arrived for it.             *)
(***************************************************************************)
Counted ==
  \A m \in Message : \A f \in Frames(m) :
    SizesMixed(BagToSet(arrived), f) \/
    Copies(Whole(m), assembled) + (IF Pending(slots, f) THEN 1 ELSE 0) <= Copies(f, arrived)

\* What may come out once the frames in A have arrived.
Known(x, A) ==
  /\ x \in Envelope
  /\ \/ \E m \in Message : x = Whole(m)
     \/ \E f \in A : /\ x.source_id = f.source_id /\ x.message_id = f.message_id
                     /\ SizesMixed(A, f)

Inv == /\ SlotsOK(slots, BagToSet(arrived)) /\ Apart(slots) /\ Begun(slots)
       /\ clock \in Nat
       /\ IsABag(arrived) /\ BagToSet(arrived) \subseteq Frame
       /\ IsABag(assembled)
       /\ \A x \in BagToSet(assembled) : Known(x, BagToSet(arrived))
       /\ Counted

LEMMA WholeIsOne ==
  ASSUME NEW m \in Message
  PROVE  /\ Whole(m) \in Envelope
         /\ Whole(m).source_id = m.source_id /\ Whole(m).message_id = m.message_id
         /\ \A n \in Message : Whole(n) = Whole(m) => n = m
<1>1. ASSUME NEW n \in Message
      PROVE  /\ Whole(n) \in Envelope
             /\ Whole(n).source_id = n.source_id /\ Whole(n).message_id = n.message_id
  <2>1. n \in Envelope
    BY FramesAre
  <2>2. Len(n.payload) \in Nat
    BY <2>1, CountFacts
  <2>3. QED
    BY <2>1, <2>2 DEF Whole, Envelope
<1>2. QED
  BY <1>1, FramesAssumption

LEMMA CopiesType ==
  ASSUME NEW B, IsABag(B)
  PROVE  \A x : /\ Copies(x, B) \in Nat /\ (Copies(x, B) > 0 <=> x \in BagToSet(B))
<1>1. \A x \in DOMAIN B : B[x] \in Nat /\ B[x] > 0
  BY DEF IsABag
<1>2. QED
  BY <1>1 DEF Copies, BagIn, BagToSet

LEMMA InitInv == Init => Inv
<1> SUFFICES ASSUME Init PROVE Inv
  OBVIOUS
<1>1. NoSlot \in ReassemblySlot /\ NoSlot.active = FALSE
  BY DEF ReassemblySlot, NoSlot
<1>2. slots \in Slots /\ Open(slots) = {}
  BY <1>1 DEF Init, init, Slots, Open
<1>3. /\ \A A : SlotsOK(slots, A)
      /\ Apart(slots) /\ Begun(slots) /\ \A f : ~Pending(slots, f)
  BY <1>2 DEF SlotsOK, Apart, Begun, Pending
<1>4. IsABag(EmptyBag) /\ BagToSet(EmptyBag) = {}
  BY DEF EmptyBag, SetToBag, IsABag, BagToSet
<1>5. \A x : Copies(x, EmptyBag) = 0
  BY <1>4 DEF Copies, BagIn
<1>6. QED
  BY <1>3, <1>4, <1>5 DEF Inv, Init, Counted

LEMMA MixedMore ==
  ASSUME NEW A, NEW B, A \subseteq B, NEW h, SizesMixed(A, h)
  PROVE  SizesMixed(B, h)
BY DEF SizesMixed

\* From table b to table c: if m is among the messages S returned, or the bit of
\* its frame g is set, then that bit was set before or g is the new frame f.
Balance(m, g, f, S, b, c) ==
  (IF Whole(m) \in S THEN 1 ELSE 0) + (IF Pending(c, g) THEN 1 ELSE 0)
    <= (IF Pending(b, g) THEN 1 ELSE 0) + (IF g = f THEN 1 ELSE 0)

\* What a step with frame f that returns the messages in S does to the histories.
LEMMA HistoryStep ==
  ASSUME Inv, NEW f \in Frame, NEW S,
         \A x \in S : Known(x, BagToSet(arrived) \union {f}),
         SlotsOK(slots', BagToSet(arrived) \union {f}), Apart(slots'), Begun(slots'),
         arrived' = arrived (+) SetToBag({f}),
         assembled' = assembled (+) SetToBag(S), UNCHANGED clock,
         \A m \in Message : \A g \in Frames(m) :
           \/ SizesMixed(BagToSet(arrived) \union {f}, g)
           \/ Balance(m, g, f, S, slots, slots')
  PROVE  Inv'
<1> DEFINE A == BagToSet(arrived)
           B == A \union {f}
<1>1. IsABag(arrived) /\ IsABag(assembled) /\ Counted /\ A \subseteq Frame
  BY DEF Inv
<1>2. /\ IsABag(arrived') /\ BagToSet(arrived') = B
      /\ \A x : Copies(x, arrived') = Copies(x, arrived) + (IF x \in {f} THEN 1 ELSE 0)
  BY <1>1, CopiesAdded
<1>3. /\ IsABag(assembled') /\ BagToSet(assembled') = BagToSet(assembled) \union S
      /\ \A x : Copies(x, assembled') =
                  Copies(x, assembled) + (IF x \in S THEN 1 ELSE 0)
  BY <1>1, CopiesAdded
<1>4. ASSUME NEW m \in Message, NEW g \in Frames(m), ~SizesMixed(B, g)
      PROVE  Copies(Whole(m), assembled') + (IF Pending(slots', g) THEN 1 ELSE 0)
               <= Copies(g, arrived')
  <2>1. ~SizesMixed(A, g)
    BY <1>4, MixedMore
  <2> DEFINE p0 == IF Pending(slots, g) THEN 1 ELSE 0
             p1 == IF Pending(slots', g) THEN 1 ELSE 0
             w  == IF Whole(m) \in S THEN 1 ELSE 0
             a  == IF g = f THEN 1 ELSE 0
  <2>2. /\ Copies(Whole(m), assembled) \in Nat /\ Copies(g, arrived) \in Nat
        /\ Copies(Whole(m), assembled) + p0 <= Copies(g, arrived)
    BY <1>1, <2>1, CopiesType DEF Counted
  <2>3. /\ Copies(g, arrived') = Copies(g, arrived) + a
        /\ Copies(Whole(m), assembled') = Copies(Whole(m), assembled) + w
    BY <1>2, <1>3
  <2>4. w + p1 <= p0 + a
    BY <1>4 DEF Balance
  <2>5. w \in Nat /\ p1 \in Nat /\ p0 \in Nat /\ a \in Nat
    OBVIOUS
  <2> HIDE DEF w, p0, p1, a
  <2>6. Copies(Whole(m), assembled') + p1 <= Copies(g, arrived')
    BY <2>2, <2>3, <2>4, <2>5
  <2>7. QED
    BY <2>6 DEF p1
<1>5. Counted'
  <2>1. \A m \in Message : \A g \in Frames(m) :
          SizesMixed(BagToSet(arrived'), g) \/
          Copies(Whole(m), assembled') + (IF Pending(slots', g) THEN 1 ELSE 0)
            <= Copies(g, arrived')
    BY <1>2, <1>4
  <2>2. QED
    BY <2>1 DEF Counted
<1>6. ASSUME NEW x \in BagToSet(assembled') PROVE Known(x, B)
  <2>1. CASE x \in S
    BY <2>1
  <2>2. CASE x \in BagToSet(assembled)
    <3>1. Known(x, A)
      BY <2>2 DEF Inv
    <3>2. QED
      BY <3>1, MixedMore DEF Known
  <2>3. QED
    BY <1>3, <1>6, <2>1, <2>2
<1>7. B \subseteq Frame
  BY <1>1
<1>8. clock' \in Nat
  BY DEF Inv
<1>9. SlotsOK(slots', BagToSet(arrived')) /\ BagToSet(arrived') \subseteq Frame
  BY <1>2, <1>7
<1>10. \A x \in BagToSet(assembled') : Known(x, BagToSet(arrived'))
  BY <1>2, <1>6
<1>11. QED
  BY <1>2, <1>3, <1>5, <1>8, <1>9, <1>10 DEF Inv

\* The last frame of a message arrives.
LEMMA CompletesInv ==
  ASSUME Inv, NEW f \in Frame, NEW m \in Message, Completes(slots, slots', f, m),
         SlotsOK(slots', BagToSet(arrived) \union {f}), Apart(slots'), Begun(slots'),
         arrived' = arrived (+) SetToBag({f}),
         assembled' = assembled (+) SetToBag({Whole(m)}), UNCHANGED clock
  PROVE  Inv'
<1>1. ASSUME NEW n \in Message, NEW g \in Frames(n)
      PROVE  Balance(n, g, f, {Whole(m)}, slots, slots')
  <2>1. CASE n = m
    <3>1. ~Pending(slots', g) /\ (g = f \/ Pending(slots, g))
      BY <2>1 DEF Completes
    <3>2. QED
      BY <2>1, <3>1 DEF Balance
  <2>2. CASE n # m
    <3>1. Whole(n) # Whole(m)
      BY <2>2, WholeIsOne
    <3>2. Pending(slots', g) => Pending(slots, g)
      BY DEF Completes
    <3>3. QED
      BY <3>1, <3>2 DEF Balance
  <2>3. QED
    BY <2>1, <2>2
<1>2. \A x \in {Whole(m)} : Known(x, BagToSet(arrived) \union {f})
  BY WholeIsOne DEF Known
<1>3. QED
  BY <1>1, <1>2, HistoryStep

\* Other frames only set their own bit.
LEMMA WaitsInv ==
  ASSUME Inv, NEW f \in Frame, Waits(slots, slots', f, BagToSet(arrived) \union {f}),
         SlotsOK(slots', BagToSet(arrived) \union {f}), Apart(slots'), Begun(slots'),
         arrived' = arrived (+) SetToBag({f}), assembled' = assembled (+) SetToBag({}),
         UNCHANGED clock
  PROVE  Inv'
<1> DEFINE B == BagToSet(arrived) \union {f}
<1>1. ASSUME NEW n \in Message, NEW g \in Frames(n), ~SizesMixed(B, g)
      PROVE  Balance(n, g, f, {}, slots, slots')
  <2>1. Pending(slots', g) => Pending(slots, g) \/ g = f
    BY <1>1 DEF Waits
  <2>2. QED
    BY <2>1 DEF Balance
<1>2. \A x \in {} : Known(x, B)
  OBVIOUS
<1>3. QED
  BY <1>1, <1>2, HistoryStep

LEMMA MuddledInv ==
  ASSUME Inv, NEW f \in Frame, NEW x,
         Muddled(slots, slots', f, BagToSet(arrived) \union {f}, x),
         SlotsOK(slots', BagToSet(arrived) \union {f}), Apart(slots'), Begun(slots'),
         arrived' = arrived (+) SetToBag({f}), assembled' = assembled (+) SetToBag({x}),
         UNCHANGED clock
  PROVE  Inv'
<1> DEFINE B == BagToSet(arrived) \union {f}
<1>a. PICK m \in Message : \E h \in Frames(m) : SameHeader(h, f)
  BY DEF Muddled
<1>0. PICK h \in Frames(m) : SameHeader(h, f)
  BY <1>a
<1>1. ASSUME NEW n \in Message, NEW g \in Frames(n), ~SizesMixed(B, g)
      PROVE  Balance(n, g, f, {x}, slots, slots')
  <2>1. Pending(slots', g) => Pending(slots, g)
    BY DEF Muddled
  <2>2. ASSUME Whole(n) = x PROVE FALSE
    <3>1. n.source_id = f.source_id /\ n.message_id = f.message_id
      BY <2>2, WholeIsOne DEF Muddled
    <3>2. m.source_id = f.source_id /\ m.message_id = f.message_id
      BY <1>0, FramesSame DEF SameHeader
    <3>3. n = m
      BY <3>1, <3>2, FramesAssumption
    <3>4. SameHeader(f, g)
      BY <1>0, <3>3, FramesSame, SameHeaderFacts
    <3>5. SizesMixed(B, f)
      BY DEF Muddled
    <3>6. QED
      BY <1>1, <3>4, <3>5, MixedSame
  <2>3. QED
    BY <2>1, <2>2 DEF Balance
<1>2. \A y \in {x} : Known(y, B)
  BY DEF Muddled, Known
<1>3. QED
  BY <1>1, <1>2, HistoryStep

\* The fates of an open slot that KeptUntilStale allows when a frame arrives.
Excused(i) ==
  \/ \E x \in BagToSet(assembled') : /\ x.source_id = slots[i].header.source_id
                                     /\ x.message_id = slots[i].header.message_id
                                     /\ Copies(x, assembled') > Copies(x, assembled)
  \/ \E f \in BagToSet(arrived') :
       /\ WrongSize(f) /\ SameHeader(f, slots[i].header)
       /\ Spoilt(slots[i]) \/ Copies(f, arrived') > Copies(f, arrived)

LEMMA IngestInv ==
  ASSUME Inv, NEW f \in Frame, Ingest(f)
  PROVE  Inv' /\ \A i \in Open(slots) \ Open(slots') : Excused(i)
<1> DEFINE r == ingest(slots, f, clock)
           B == BagToSet(arrived) \union {f}
<1>1. /\ slots' = r.slots /\ assembled' = assembled (+) SetToBag(r.out)
      /\ arrived' = arrived (+) SetToBag({f}) /\ UNCHANGED clock
  BY DEF Ingest
<1>2. IngestOK(slots, f, BagToSet(arrived), r)
  BY IngestOutcome DEF Inv
<1> HIDE DEF r
<1>3. /\ SlotsOK(slots', B) /\ Apart(slots') /\ Begun(slots')
  BY <1>1, <1>2 DEF IngestOK
<1>4. /\ BagToSet(arrived') = B /\ Copies(f, arrived') > Copies(f, arrived)
  <2>1. IsABag(arrived)
    BY DEF Inv
  <2>2. BagToSet(arrived') = B /\ Copies(f, arrived') = Copies(f, arrived) + 1
    BY <1>1, <2>1, CopiesAdded
  <2>3. QED
    BY <2>1, <2>2, CopiesType
<1>5. ASSUME NEW x, assembled' = assembled (+) SetToBag({x})
      PROVE  x \in BagToSet(assembled') /\ Copies(x, assembled') > Copies(x, assembled)
  <2>1. IsABag(assembled)
    BY DEF Inv
  <2>2. /\ x \in BagToSet(assembled')
        /\ Copies(x, assembled') = Copies(x, assembled) + 1
    BY <1>5, <2>1, CopiesAdded
  <2>3. QED
    BY <2>1, <2>2, CopiesType
<1> HIDE DEF B
<1>6. CASE r.out = {} /\ Waits(slots, slots', f, B)
  <2>1. Inv'
    BY <1>1, <1>3, <1>6, WaitsInv DEF B
  <2>2. ASSUME NEW i \in Open(slots) \ Open(slots') PROVE Excused(i)
    <3>1. PICK w \in B : /\ WrongSize(w) /\ SameHeader(w, slots[i].header)
                         /\ Spoilt(slots[i]) \/ w = f
      BY <1>6 DEF Waits
    <3>2. QED
      BY <1>4, <3>1 DEF Excused
  <2>3. QED
    BY <2>1, <2>2
<1>7. ASSUME NEW m \in Message, r.out = {Whole(m)}, Completes(slots, slots', f, m)
      PROVE  Inv' /\ \A i \in Open(slots) \ Open(slots') : Excused(i)
  <2>1. assembled' = assembled (+) SetToBag({Whole(m)})
    BY <1>1, <1>7
  <2>2. Inv'
    BY <1>1, <1>3, <1>7, <2>1, CompletesInv DEF B
  <2>3. \A i \in Open(slots) \ Open(slots') :
          /\ Whole(m).source_id = slots[i].header.source_id
          /\ Whole(m).message_id = slots[i].header.message_id
    BY <1>7, WholeIsOne DEF Completes
  <2>4. QED
    BY <1>5, <2>1, <2>2, <2>3 DEF Excused
<1>8. ASSUME NEW x, r.out = {x}, Muddled(slots, slots', f, B, x)
      PROVE  Inv' /\ \A i \in Open(slots) \ Open(slots') : Excused(i)
  <2>1. assembled' = assembled (+) SetToBag({x})
    BY <1>1, <1>8
  <2>2. Inv'
    BY <1>1, <1>3, <1>8, <2>1, MuddledInv DEF B
  <2>3. \A i \in Open(slots) \ Open(slots') : /\ x.source_id = slots[i].header.source_id
                                              /\ x.message_id = slots[i].header.message_id
    BY <1>8 DEF Muddled
  <2>4. QED
    BY <1>5, <2>1, <2>2, <2>3 DEF Excused
<1>9. QED
  BY <1>1, <1>2, <1>6, <1>7, <1>8 DEF IngestOK, B

LEMMA SweepInv ==
  ASSUME Inv, Sweep
  PROVE  /\ Inv'
         /\ \A i \in Open(slots) \ Open(slots') :
              \/ timestamp_expired(slots[i].header.expiry_time_us, clock)
              \/ clock >= slots[i].open_time_us + stale_threshold_us
<1> DEFINE S == ExpiredSlots(slots, clock)
           c == Free(slots, S)
           T == StaleSlots(c, clock, stale_threshold_us)
           A == BagToSet(arrived)
<1>1. slots' = Free(c, T) /\ UNCHANGED <<clock, arrived, assembled>>
  BY DEF Sweep, sweep_expired, sweep_stale
<1>2. SlotsOK(slots, A) /\ Apart(slots) /\ Begun(slots)
  BY DEF Inv
<1>3. /\ SlotsOK(c, A) /\ Apart(c) /\ Open(c) = Open(slots) \ S
      /\ \A i \in Open(c) : c[i] = slots[i]
      /\ \A g : Pending(c, g) => Pending(slots, g)
  BY <1>2, FreeOK
<1>4. \A i \in S : timestamp_expired(slots[i].header.expiry_time_us, clock)
  BY DEF ExpiredSlots
<1>5. \A i \in T : i \in Open(c) /\ clock >= c[i].open_time_us + stale_threshold_us
  BY DEF StaleSlots
<1> HIDE DEF c, S, T
<1>6. /\ SlotsOK(slots', A) /\ Apart(slots') /\ Open(slots') = Open(c) \ T
      /\ \A i \in Open(slots') : slots'[i] = c[i]
      /\ \A g : Pending(slots', g) => Pending(c, g)
  BY <1>1, <1>3, FreeOK
<1>7. Begun(slots')
  BY <1>2, <1>3, <1>6 DEF Begun
<1>8. Counted'
  <2>1. ASSUME NEW m \in Message, NEW f \in Frames(m), ~SizesMixed(A, f)
        PROVE  Copies(Whole(m), assembled) + (IF Pending(slots', f) THEN 1 ELSE 0)
                 <= Copies(f, arrived)
    <3>1. /\ Copies(Whole(m), assembled) \in Nat /\ Copies(f, arrived) \in Nat
          /\ Copies(Whole(m), assembled) + (IF Pending(slots, f) THEN 1 ELSE 0)
               <= Copies(f, arrived)
      BY <2>1, CopiesType DEF Inv, Counted
    <3>2. Pending(slots', f) => Pending(slots, f)
      BY <1>3, <1>6
    <3>3. QED
      BY <3>1, <3>2
  <2>2. assembled' = assembled /\ arrived' = arrived
    BY <1>1
  <2>3. QED
    BY <2>1, <2>2 DEF Counted
<1>9. Inv'
  BY <1>1, <1>6, <1>7, <1>8 DEF Inv
<1>10. QED
  BY <1>3, <1>4, <1>5, <1>6, <1>9

LEMMA NextInv ==
  ASSUME Inv, [Next]_vars
  PROVE  Inv'
<1>1. ASSUME NEW f \in Frame, Ingest(f) PROVE Inv'
  BY <1>1, IngestInv
<1>2. CASE Sweep
  BY <1>2, SweepInv
<1>3. CASE Tick
  BY <1>3 DEF Tick, Inv, Counted, Pending, SlotsOK, Apart, Begun, Open
<1>4. CASE UNCHANGED vars
  BY <1>4 DEF vars, Inv, Counted, Pending, SlotsOK, Apart, Begun, Open
<1>5. QED
  BY <1>1, <1>2, <1>3, <1>4 DEF Next

LEMMA Invariance == Spec => []Inv
BY InitInv, NextInv, PTL DEF Spec

-----------------------------------------------------------------------------
\* ReassemblySlot and the buffer indices: the table stays in its type, the
\* byte count of a slot never exceeds MSG_MAX_PAYLOAD_BYTES.
THEOREM TypeCorrect == Spec => []TypeOK
<1>1. Inv => TypeOK
  BY DEF Inv, SlotsOK, TypeOK, Known
<1>2. QED
  BY <1>1, Invariance, PTL

\* A message comes out of ingest() only as it was sent and never more often
\* than each of its frames has arrived, whatever is lost, repeated, reordered
\* or swept and whichever stray frames arrive, of the wrong header or of the
\* wrong size; unless frames of it arrive that are too short and others that are
\* too long, which the sum in assemble_and_free() cannot tell from right ones.
THEOREM AssembledAsSent == Spec => []AssembledFromFrames
<1>1. ASSUME Inv PROVE AssembledFromFrames
  <2> DEFINE A == BagToSet(arrived)
  <2> SUFFICES ASSUME NEW x \in BagToSet(assembled)
               PROVE  \/ \E m \in Message :
                           /\ x = Whole(m)
                           /\ \A f \in Frames(m) : Copies(x, assembled) <= Copies(f, arrived)
                      \/ \E f \in A : /\ x.source_id = f.source_id
                                      /\ x.message_id = f.message_id
                                      /\ SizesMixed(A, f)
    BY DEF AssembledFromFrames
  <2>1. CASE \E f \in A : /\ x.source_id = f.source_id /\ x.message_id = f.message_id
                          /\ SizesMixed(A, f)
    BY <2>1
  <2>2. ASSUME NEW m \in Message, x = Whole(m), NEW f \in Frames(m), SizesMixed(A, f)
        PROVE  \E g \in A : /\ x.source_id = g.source_id /\ x.message_id = g.message_id
                            /\ SizesMixed(A, g)
    <3>1. PICK g \in A : SameHeader(g, f)
      BY <2>2 DEF SizesMixed
    <3>2. SizesMixed(A, g)
      BY <2>2, <3>1, MixedSame, SameHeaderFacts
    <3>3. x.source_id = g.source_id /\ x.message_id = g.message_id
      BY <2>2, <3>1, FramesSame, WholeIsOne DEF SameHeader
    <3>4. QED
      BY <3>2, <3>3
  <2>3. ASSUME NEW m \in Message, x = Whole(m), \A f \in Frames(m) : ~SizesMixed(A, f),
               NEW f \in Frames(m)
        PROVE  Copies(x, assembled) <= Copies(f, arrived)
    <3>1. /\ Copies(x, assembled) \in Nat /\ Copies(f, arrived) \in Nat
          /\ Copies(x, assembled) + (IF Pending(slots, f) THEN 1 ELSE 0)
               <= Copies(f, arrived)
      BY <1>1, <2>3, CopiesType DEF Inv, Counted
    <3>2. QED
      BY <3>1
  <2>4. QED
    BY <1>1, <2>1, <2>2, <2>3 DEF Inv, Known
<1>2. QED
  BY <1>1, Invariance, PTL

\* An open slot is freed only by the sweeps, on expiry or staleness, by the
\* completion of its own message, or because a frame with its own header and the
\* wrong size arrives or was recorded in it: RecordOK and NoOverrun show that
\* record_fragment() and assemble_and_free() have no other reason to give up.
THEOREM KeptSlots == Spec => KeptUntilStale
<1> DEFINE A == \A i \in Open(slots) \ Open(slots)' :
                  \/ timestamp_expired(slots[i].header.expiry_time_us, clock)
                  \/ clock >= slots[i].open_time_us + stale_threshold_us
                  \/ \E x \in BagToSet(assembled') :
                       /\ x.source_id = slots[i].header.source_id
                       /\ x.message_id = slots[i].header.message_id
                       /\ Copies(x, assembled') > Copies(x, assembled)
                  \/ \E f \in BagToSet(arrived') :
                       /\ WrongSize(f) /\ SameHeader(f, slots[i].header)
                       /\ Spoilt(slots[i]) \/ Copies(f, arrived') > Copies(f, arrived)
<1>1. ASSUME Inv, [Next]_vars PROVE [A]_vars
  <2>0. Open(slots)' = Open(slots')
    BY DEF Open
  <2>1. ASSUME NEW f \in Frame, Ingest(f) PROVE A
    BY <1>1, <2>0, <2>1, IngestInv DEF Excused
  <2>2. ASSUME Sweep PROVE A
    BY <1>1, <2>0, <2>2, SweepInv
  <2>3. ASSUME Tick PROVE A
    BY <2>3 DEF Tick, Open
  <2> HIDE DEF A
  <2>4. QED
    BY <1>1, <2>1, <2>2, <2>3 DEF Next
<1> HIDE DEF A
<1>2. Inv /\ [Next]_vars => [A]_vars
  BY <1>1
<1>3. Spec => [][A]_vars
  BY <1>2, Invariance, PTL DEF Spec
<1>4. QED
  BY <1>3 DEF KeptUntilStale, A
===============================================================================
