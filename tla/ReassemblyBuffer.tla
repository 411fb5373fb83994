-------------------------- MODULE ReassemblyBuffer --------------------------
(***************************************************************************)
(* src/core/Fragmentation.cpp and src/core/ReassemblyBuffer.cpp as a data  *)
(* type: how a message is cut into frames and put together again.  A       *)
(* payload is a sequence of cells, a received_mask the set of the fragment *)
(* indices whose bits are set.  A freed slot becomes NoSlot.               *)
(***************************************************************************)
EXTENDS MessageEnvelope, FiniteSets, FiniteSetsExt

CONSTANTS
  REASSEMBLY_SLOT_COUNT,    \* 8 in the code
  FRAG_MAX_PAYLOAD_BYTES,   \* 1024
  FRAG_MAX_COUNT            \* 4

ASSUME ReassemblyAssumption == /\ REASSEMBLY_SLOT_COUNT \in Nat \ {0}
                               /\ FRAG_MAX_PAYLOAD_BYTES \in Nat \ {0}
                               /\ FRAG_MAX_COUNT \in Nat \ {0}

MSG_MAX_PAYLOAD_BYTES == FRAG_MAX_COUNT * FRAG_MAX_PAYLOAD_BYTES

needs_fragmentation(env) == Len(env.payload) > FRAG_MAX_PAYLOAD_BYTES

\* The frames of a message in the order they are sent; <<>> if it is too long.
fragment_message(logical) ==
  LET total == Len(logical.payload)
      count == IF total = 0 THEN 1
               ELSE (total + FRAG_MAX_PAYLOAD_BYTES - 1) \div FRAG_MAX_PAYLOAD_BYTES
      last(k) == IF k = count THEN total ELSE k * FRAG_MAX_PAYLOAD_BYTES
  IN  IF total > MSG_MAX_PAYLOAD_BYTES THEN <<>>
        ELSE [k \in 1 .. count |->
                [logical EXCEPT
                   !.fragment_index       = k - 1,
                   !.fragment_count       = count,
                   !.total_payload_length = total,
                   !.payload = SubSeq(@, (k - 1) * FRAG_MAX_PAYLOAD_BYTES + 1, last(k))]]
-----------------------------------------------------------------------------
SlotIndex   == 1 .. REASSEMBLY_SLOT_COUNT
ByteIndex   == 1 .. MSG_MAX_PAYLOAD_BYTES
FragmentBit == 0 .. FRAG_MAX_COUNT - 1

NoSlot == [active |-> FALSE]

ReassemblySlot ==
  {NoSlot} \union [active         : {TRUE},
                   buf            : [ByteIndex -> Nat],
                   received_mask  : SUBSET FragmentBit,
                   received_bytes : 0 .. MSG_MAX_PAYLOAD_BYTES,
                   open_time_us   : Nat,
                   header         : Envelope]

Slots == [SlotIndex -> ReassemblySlot]

init == [i \in SlotIndex |-> NoSlot]

Open(b) == {i \in SlotIndex : b[i].active}

\* message_id, source_id, expected_count, total_length and expiry_us of a slot
\* are those of its header, the frame that opened it.
OpenFrom(b, src) == {i \in Open(b) : b[i].header.source_id = src}

find_slot(b, src, msg_id) ==
  {i \in OpenFrom(b, src) : b[i].header.message_id = msg_id}

k_reasm_per_src_max == REASSEMBLY_SLOT_COUNT \div 2

\* Mutant: the index is not compared with the count.
validate_metadata_AnyIndex(frag) ==
  /\ frag.fragment_count <= FRAG_MAX_COUNT
  /\ frag.total_payload_length <= MSG_MAX_PAYLOAD_BYTES

validate_metadata(frag) ==
  /\ frag.fragment_index < (IF frag.fragment_count = 0 THEN 1 ELSE frag.fragment_count)
  /\ frag.fragment_count <= FRAG_MAX_COUNT
  /\ frag.total_payload_length <= MSG_MAX_PAYLOAD_BYTES

validate_fragment(slot, frag) ==
  /\ frag.fragment_count = slot.header.fragment_count
  /\ frag.total_payload_length = slot.header.total_payload_length

open_slot(frag, now_us) ==
  [active         |-> TRUE,
   buf            |-> [k \in ByteIndex |-> 0],
   received_mask  |-> {},
   received_bytes |-> 0,
   open_time_us   |-> now_us,
   header         |-> frag]

find_or_open_slot(b, frag, now_us) ==
  LET found == find_slot(b, frag.source_id, frag.message_id)
      full  == \/ Cardinality(OpenFrom(b, frag.source_id)) >= k_reasm_per_src_max
               \/ Open(b) = SlotIndex
  IN  CASE found # {} /\ validate_fragment(b[Min(found)], frag) ->
             [res |-> "OK", idx |-> Min(found), slots |-> b]
        [] found # {} /\ ~validate_fragment(b[Min(found)], frag) ->
             [res |-> "ERR_INVALID", idx |-> 0, slots |-> b]
        [] found = {} /\ full -> [res |-> "ERR_FULL", idx |-> 0, slots |-> b]
        [] OTHER ->
             LET i == Min(SlotIndex \ Open(b))
             IN  [res |-> "OK", idx |-> i, slots |-> [b EXCEPT ![i] = open_slot(frag, now_us)]]

\* A payload that runs past the end of the buffer, or more bytes than fit it.
Overruns(slot, frag) ==
  LET offset == frag.fragment_index * FRAG_MAX_PAYLOAD_BYTES
  IN  \/ offset + Len(frag.payload) > MSG_MAX_PAYLOAD_BYTES
      \/ slot.received_bytes + Len(frag.payload) > MSG_MAX_PAYLOAD_BYTES

\* Mutant: fragments are appended in the order they arrive.
record_fragment_ArrivalOrder(slot, frag) ==
  LET offset == slot.received_bytes
      len    == Len(frag.payload)
  IN  [slot EXCEPT !.buf = [k \in ByteIndex |-> IF k \in offset + 1 .. offset + len
                                                  THEN frag.payload[k - offset] ELSE @[k]],
                   !.received_bytes = @ + len,
                   !.received_mask  = @ \union {frag.fragment_index}]

record_fragment(slot, frag) ==
  LET offset == frag.fragment_index * FRAG_MAX_PAYLOAD_BYTES
      len    == Len(frag.payload)
  IN  [slot EXCEPT !.buf = [k \in ByteIndex |-> IF k \in offset + 1 .. offset + len
                                                  THEN frag.payload[k - offset] ELSE @[k]],
                   !.received_bytes = @ + len,
                   !.received_mask  = @ \union {frag.fragment_index}]

is_complete(slot) == 0 .. slot.header.fragment_count - 1 \subseteq slot.received_mask

Assembled(slot) ==
  [slot.header EXCEPT !.payload        = [k \in 1 .. slot.header.total_payload_length |->
                                            slot.buf[k]],
                      !.fragment_index = 0,
                      !.fragment_count = 1]

\* A complete message leaves its slot at once; if its size is not the one
\* announced it is discarded.
ingest_multifrag(b, frag, now_us) ==
  LET f        == find_or_open_slot(b, frag, now_us)
      slot     == f.slots[f.idx]
      seen     == frag.fragment_index \in slot.received_mask
      new      == record_fragment(slot, frag)
      freed    == [f.slots EXCEPT ![f.idx] = NoSlot]
      sizes_ok == new.received_bytes = new.header.total_payload_length
  IN  CASE f.res # "OK" -> [res |-> f.res, out |-> {}, slots |-> b]
        [] f.res = "OK" /\ seen -> [res |-> "ERR_AGAIN", out |-> {}, slots |-> f.slots]
        [] f.res = "OK" /\ ~seen /\ Overruns(slot, frag) ->
             [res |-> "ERR_INVALID", out |-> {}, slots |-> freed]
        [] f.res = "OK" /\ ~seen /\ ~Overruns(slot, frag) /\ ~is_complete(new) ->
             [res |-> "ERR_AGAIN", out |-> {}, slots |-> [f.slots EXCEPT ![f.idx] = new]]
        [] OTHER -> [res   |-> IF sizes_ok THEN "OK" ELSE "ERR_INVALID",
                     out   |-> IF sizes_ok THEN {Assembled(new)} ELSE {},
                     slots |-> freed]

\* out is the logical message when the result is OK.
ingest(b, frag, now_us) ==
  CASE ~validate_metadata(frag) -> [res |-> "ERR_INVALID", out |-> {}, slots |-> b]
    [] validate_metadata(frag) /\ frag.fragment_count <= 1 ->
         [res |-> "OK", out |-> {frag}, slots |-> b]
    [] OTHER -> ingest_multifrag(b, frag, now_us)

ExpiredSlots(b, now_us) ==
  {i \in Open(b) : timestamp_expired(b[i].header.expiry_time_us, now_us)}

\* A threshold of 0 switches this sweep off.
StaleSlots(b, now_us, threshold) ==
  {i \in Open(b) : threshold # 0 /\ now_us >= b[i].open_time_us + threshold}

Free(b, S) == [i \in SlotIndex |-> IF i \in S THEN NoSlot ELSE b[i]]

sweep_expired(b, now_us) == Free(b, ExpiredSlots(b, now_us))

\* Mutant: stale slots are never swept.
sweep_stale_Never(b, now_us, threshold) == b

sweep_stale(b, now_us, threshold) == Free(b, StaleSlots(b, now_us, threshold))
=============================================================================
