------------------------ MODULE ReassemblyBufferSpec ------------------------
(***************************************************************************)
(* The ReassemblyBuffer of one receiver.  The frames of several messages   *)
(* reach it in any order, some never, some more than once.  Stray frames   *)
(* reach it among them: their header contradicts the message's, or it fits *)
(* and the payload is too short or too long.                               *)
(***************************************************************************)
EXTENDS ReassemblyBuffer, Functions, Bags

CONSTANTS
  Message,             \* the logical messages that are sent
  Stray,               \* frames that belong to none of them
  stale_threshold_us,  \* recv_timeout_ms of the channel that sweeps
  MaxArrivals,         \* bound on the number of frames that arrive
  MaxTime              \* bound on the clock

ASSUME ReassemblySpecAssumption == /\ Message \subseteq Envelope
                                   /\ Stray \subseteq Envelope
                                   /\ stale_threshold_us \in Nat
                                   /\ MaxArrivals \in Nat
                                   /\ MaxTime \in Nat

Frames(m) == Range(fragment_message(m))

Frame == Stray \union UNION {Frames(m) : m \in Message}

\* What the frames of a message have in common.
SameHeader(f, g) == /\ f.source_id            = g.source_id
                    /\ f.message_id           = g.message_id
                    /\ f.fragment_count       = g.fragment_count
                    /\ f.total_payload_length = g.total_payload_length

\* The bytes that the fragments in M of a message with header h should bring:
\* all fragments but the last are full.
BytesOf(h, M) ==
  Cardinality(M) * FRAG_MAX_PAYLOAD_BYTES
    - (IF h.fragment_count - 1 \in M
         THEN h.fragment_count * FRAG_MAX_PAYLOAD_BYTES - h.total_payload_length ELSE 0)

InCount(f)   == f.fragment_index < f.fragment_count
TooShort(f)  == InCount(f) /\ Len(f.payload) < BytesOf(f, {f.fragment_index})
TooLong(f)   == InCount(f) /\ Len(f.payload) > BytesOf(f, {f.fragment_index})
WrongSize(f) == TooShort(f) \/ TooLong(f)

\* A source numbers its messages.  A stray frame that has the header of a
\* message, and an index within its count, has the wrong size; the other stray
\* frames make up no whole message.
ASSUME FramesAssumption ==
  /\ \A m, n \in Message :
       m.source_id = n.source_id /\ m.message_id = n.message_id => m = n
  /\ \A s \in Stray :
       /\ s.fragment_count > 1
       /\ \/ \E m \in Message : \E f \in Frames(m) :
               SameHeader(f, s) /\ (InCount(s) => WrongSize(s))
          \/ \E k \in 0 .. s.fragment_count - 1 :
               \A t \in Frame : SameHeader(t, s) => t.fragment_index # k

VARIABLES
  slots,       \* m_slots
  clock,       \* CLOCK_MONOTONIC
  arrived,     \* history: the bag of frames that have arrived
  assembled    \* history: the bag of messages returned with OK

vars == <<slots, clock, arrived, assembled>>

Init == /\ slots     = init
        /\ clock     = 1
        /\ arrived   = EmptyBag
        /\ assembled = EmptyBag

Ingest(f) ==
  /\ BagCardinality(arrived) < MaxArrivals
  /\ arrived' = arrived (+) SetToBag({f})
  /\ \E r \in {ingest(slots, f, clock)} :
       /\ slots'     = r.slots
       /\ assembled' = assembled (+) SetToBag(r.out)
  /\ UNCHANGED clock

\* DeliveryEngine::sweep_ack_timeouts() makes the two sweeps together.
Sweep == /\ slots' = sweep_stale(sweep_expired(slots, clock), clock, stale_threshold_us)
         /\ UNCHANGED <<clock, arrived, assembled>>

Tick == /\ clock < MaxTime
        /\ clock' = clock + 1
        /\ UNCHANGED <<slots, arrived, assembled>>

Next == \/ \E f \in Frame : Ingest(f)
        \/ Sweep
        \/ Tick

\* Time passes and the application's poll loop calls sweep_ack_timeouts();
\* nothing guarantees that a frame arrives.
Spec == Init /\ [][Next]_vars /\ WF_vars(Tick) /\ WF_vars(Sweep)
-----------------------------------------------------------------------------
TypeOK == /\ slots \in Slots
          /\ clock \in Nat
          /\ BagToSet(arrived) \subseteq Frame
          /\ BagToSet(assembled) \subseteq Envelope

\* How often x is in the bag B.
Copies(x, B) == IF BagIn(x, B) THEN B[x] ELSE 0

\* A message as the receiver returns it.
Whole(m) == [m EXCEPT !.fragment_index = 0,
                      !.fragment_count = 1,
                      !.total_payload_length = Len(m.payload)]

\* Too short and too long frames with the header of frame h are among those in A.
SizesMixed(A, h) == /\ \E f \in A : TooShort(f) /\ SameHeader(f, h)
                    /\ \E f \in A : TooLong(f) /\ SameHeader(f, h)

(***************************************************************************)
(* A message comes out of reassembly only as it was sent, and never more   *)
(* often than each single one of its frames has arrived: copies, frames of *)
(* other messages and frames of the wrong size never stand in for a        *)
(* missing frame.  The one exception is what assemble_and_free() cannot    *)
(* see, because it compares only the sum of the sizes: a frame that is too *)
(* short may be made up for by one of the same message that is too long.   *)
(***************************************************************************)
AssembledFromFrames ==
  \A x \in BagToSet(assembled) :
    \/ \E m \in Message :
         /\ x = Whole(m)
         /\ \A f \in Frames(m) : Copies(x, assembled) <= Copies(f, arrived)
    \/ \E f \in BagToSet(arrived) :
         /\ x.source_id = f.source_id /\ x.message_id = f.message_id
         /\ SizesMixed(BagToSet(arrived), f)

\* The bytes in the slot are not those of the fragments whose bits are set.
Spoilt(slot) == slot.received_bytes # BytesOf(slot.header, slot.received_mask)

(***************************************************************************)
(* A message whose frames have begun to arrive is given up only when it    *)
(* has expired, or the receiver has waited for stale_threshold_us, or a    *)
(* frame with its own header and the wrong size arrives now or has been    *)
(* recorded before (record_fragment() and assemble_and_free() free the     *)
(* slot then).  Other messages, copies of its own frames and frames whose  *)
(* index, count or total length contradicts it do not dislodge it.         *)
(***************************************************************************)
KeptUntilStale ==
  [][\A i \in Open(slots) \ Open(slots)' :
       \/ timestamp_expired(slots[i].header.expiry_time_us, clock)
       \/ clock >= slots[i].open_time_us + stale_threshold_us
       \/ \E x \in BagToSet(assembled') :
            /\ x.source_id = slots[i].header.source_id
            /\ x.message_id = slots[i].header.message_id
            /\ Copies(x, assembled') > Copies(x, assembled)
       \/ \E f \in BagToSet(arrived') :
            /\ WrongSize(f) /\ SameHeader(f, slots[i].header)
            /\ Spoilt(slots[i]) \/ Copies(f, arrived') > Copies(f, arrived)]_vars

(***************************************************************************)
(* A slot that waits for a frame that never comes is free again once the   *)
(* threshold has passed, also if the message has no expiry time.           *)
(***************************************************************************)
SlotsDrain ==
  \A i \in SlotIndex :
    (slots[i].active /\ clock + stale_threshold_us <= MaxTime) ~> ~slots[i].active
=============================================================================
