--------------------------- MODULE DeliveryEngine ---------------------------
(***************************************************************************)
(* src/core/DeliveryEngine.cpp as a data type that composes the AckTracker,*)
(* RetryManager, DuplicateFilter, OrderingBuffer and ReassemblyBuffer of   *)
(* one node.  Every public call maps the engine to the Result it returns,  *)
(* the engine it leaves, what it hands to the application and what it      *)
(* gives to the transport.  How many frames the transport accepts before   *)
(* it refuses one is an argument.  Statistics and the event ring do not    *)
(* influence delivery and are left out.                                    *)
(***************************************************************************)
EXTENDS MessageEnvelope, FiniteSets, SequencesExt, Functions

CONSTANTS
  ACK_TRACKER_CAPACITY, BACKOFF_CAP, DEDUP_WINDOW_SIZE,
  ORDERING_HOLD_COUNT, ORDERING_PEER_COUNT, SEQ_MAX,
  REASSEMBLY_SLOT_COUNT, FRAG_MAX_PAYLOAD_BYTES, FRAG_MAX_COUNT,
  MSG_RING_CAPACITY,   \* size of m_retry_buf
  recv_timeout_ms, max_retries, retry_backoff_ms, ordering   \* ChannelConfig

AT == INSTANCE AckTracker
RM == INSTANCE RetryManager
DF == INSTANCE DuplicateFilter
OB == INSTANCE OrderingBuffer
RB == INSTANCE ReassemblyBuffer

ASSUME EngineAssumption == /\ MSG_RING_CAPACITY \in Nat \ {0}
                           /\ recv_timeout_ms \in Nat
                           /\ max_retries \in Nat
                           /\ retry_backoff_ms \in Nat
                           /\ ordering \in {"ORDERED", "UNORDERED"}

\* Those of the components, which an INSTANCE does not bring along.
ASSUME CapacityAssumption ==
  /\ {ACK_TRACKER_CAPACITY, BACKOFF_CAP, DEDUP_WINDOW_SIZE, ORDERING_HOLD_COUNT,
      ORDERING_PEER_COUNT, SEQ_MAX, REASSEMBLY_SLOT_COUNT, FRAG_MAX_PAYLOAD_BYTES,
      FRAG_MAX_COUNT} \subseteq Nat \ {0}
  /\ ORDERING_HOLD_COUNT < ORDERING_PEER_COUNT

\* m_seq_state: the next number for each destination that has one.
SeqState == UNION {[D -> 1 .. SEQ_MAX] : D \in SUBSET (Node \union {NODE_ID_INVALID})}

\* m_held_pending is a set with at most one envelope (m_held_pending_valid).
Engine == [m_ack_tracker   : AT!Tracker,
           m_retry_manager : RM!Manager,
           m_dedup         : DF!Filter,
           m_ordering      : OB!Buffer,
           m_reassembly    : RB!Slots,
           m_held_pending  : SUBSET Envelope,
           m_seq_state     : SeqState,
           m_last_now_us   : Nat]

EngineInit == [m_ack_tracker   |-> AT!init,
               m_retry_manager |-> RM!init,
               m_dedup         |-> DF!init,
               m_ordering      |-> OB!init,
               m_reassembly    |-> RB!init,
               m_held_pending  |-> {},
               m_seq_state     |-> [d \in {} |-> 1],
               m_last_now_us   |-> 0]

\* A timestamp older than the previous call's: the call returns at once.
ClockWentBack(e, now_us) == e.m_last_now_us > 0 /\ now_us < e.m_last_now_us

\* The number given to the next message to dst; 0 (unordered) when the table
\* of destinations is full.
next_seq_for(e, dst) ==
  LET s == e.m_seq_state
  IN  CASE dst \in DOMAIN s -> s[dst]
        [] dst \notin DOMAIN s /\ Cardinality(DOMAIN s) < ACK_TRACKER_CAPACITY -> 1
        [] OTHER -> 0

\* ... and the table after it was given; the counter skips 0 when it wraps.
TakeSeq(e, dst) ==
  LET s   == e.m_seq_state
      seq == next_seq_for(e, dst)
  IN  IF seq = 0 THEN s
        ELSE [d \in DOMAIN s \union {dst} |->
                IF d # dst THEN s[d] ELSE IF seq = SEQ_MAX THEN 1 ELSE seq + 1]

Reliable(env) == env.reliability_class \in {"RELIABLE_ACK", "RELIABLE_RETRY"}

\* Mutant: the AckTracker slot is not given back when schedule() fails.
reserve_bookkeeping_NoRollback(e, env, now_us) ==
  LET t == AT!track(e.m_ack_tracker, env, timestamp_deadline_us(now_us, recv_timeout_ms))
      s == RM!schedule(e.m_retry_manager, env, max_retries, retry_backoff_ms, now_us)
  IN  CASE ~Reliable(env) -> [res |-> "OK", engine |-> e]
        [] Reliable(env) /\ t.res # "OK" -> [res |-> t.res, engine |-> e]
        [] OTHER ->
             [res    |-> IF env.reliability_class = "RELIABLE_RETRY" THEN s.res ELSE "OK",
              engine |-> [e EXCEPT !.m_ack_tracker   = t.tracker,
                                   !.m_retry_manager =
                                     IF env.reliability_class = "RELIABLE_RETRY"
                                       THEN s.manager ELSE @]]

\* Both slots are reserved before any I/O, or neither.
reserve_bookkeeping(e, env, now_us) ==
  LET t == AT!track(e.m_ack_tracker, env, timestamp_deadline_us(now_us, recv_timeout_ms))
      s == RM!schedule(e.m_retry_manager, env, max_retries, retry_backoff_ms, now_us)
      tracked == [e EXCEPT !.m_ack_tracker = t.tracker]
  IN  CASE ~Reliable(env) -> [res |-> "OK", engine |-> e]
        [] Reliable(env) /\ t.res # "OK" -> [res |-> t.res, engine |-> e]
        [] t.res = "OK" /\ env.reliability_class = "RELIABLE_ACK" ->
             [res |-> "OK", engine |-> tracked]
        [] t.res = "OK" /\ env.reliability_class = "RELIABLE_RETRY" /\ s.res # "OK" ->
             [res    |-> s.res,
              engine |-> [e EXCEPT !.m_ack_tracker =
                            AT!cancel(t.tracker, env.source_id, env.message_id).tracker]]
        [] OTHER ->
             [res |-> "OK", engine |-> [tracked EXCEPT !.m_retry_manager = s.manager]]

rollback_on_transport_failure(e, env) ==
  [e EXCEPT !.m_ack_tracker   = AT!cancel(@, env.source_id, env.message_id).tracker,
            !.m_retry_manager =
              IF env.reliability_class = "RELIABLE_RETRY"
                THEN RM!cancel(@, env.source_id, env.message_id).manager ELSE @]

\* tx is what the transport would return.
send_via_transport(env, now_us, tx) ==
  IF timestamp_expired(env.expiry_time_us, now_us)
    THEN [res |-> "ERR_EXPIRED", wire |-> {}]
    ELSE [res |-> tx, wire |-> IF tx = "OK" THEN {env} ELSE {}]

\* All frames of a message until the transport refuses one; accepted is how
\* many it takes.
send_fragments(env, now_us, accepted) ==
  LET frames == RB!fragment_message(env)
      n      == IF timestamp_expired(env.expiry_time_us, now_us) THEN 0
                  ELSE Min({accepted, Len(frames)})
  IN  CASE ~RB!needs_fragmentation(env) ->
             send_via_transport(env, now_us, IF accepted = 0 THEN "ERR_IO" ELSE "OK")
        [] RB!needs_fragmentation(env) /\ frames = <<>> ->
             [res |-> "ERR_INVALID", wire |-> {}]
        [] OTHER ->
             [res  |-> CASE n = Len(frames) -> "OK"
                         [] n = 0 -> "ERR_IO"
                         [] OTHER -> "ERR_IO_PARTIAL",
              wire |-> {frames[k] : k \in 1 .. n}]

\* Mutant: a message that is partly on the wire is given up.
handle_send_fragments_failure_Rollback(e, env, res) ==
  [res    |-> res,
   engine |-> IF Reliable(env) THEN rollback_on_transport_failure(e, env) ELSE e]

\* A message that is partly on the wire keeps its slots: a retry completes it.
handle_send_fragments_failure(e, env, res) ==
  IF res = "ERR_IO_PARTIAL" THEN [res |-> "ERR_IO", engine |-> e]
    ELSE [res    |-> res,
          engine |-> IF Reliable(env) THEN rollback_on_transport_failure(e, env) ELSE e]

\* env comes with the fresh message_id and the source_id that send() stamps;
\* stamped is the message with the fields that it fills in.
send(e, env, now_us, accepted) ==
  LET numbers == /\ envelope_is_data(env)
                 /\ env.sequence_num = 0
                 /\ ordering = "ORDERED"
      dst     == env.destination_id
      stamped == [env EXCEPT
                    !.sequence_num         = IF numbers THEN next_seq_for(e, dst) ELSE @,
                    !.fragment_index       = 0,
                    !.fragment_count       = 1,
                    !.total_payload_length = Len(env.payload)]
      counted == [e EXCEPT !.m_last_now_us = now_us,
                           !.m_seq_state   = IF numbers THEN TakeSeq(e, dst) ELSE @]
      book    == reserve_bookkeeping(counted, stamped, now_us)
      out     == send_fragments(stamped, now_us, accepted)
      failure == handle_send_fragments_failure(book.engine, stamped, out.res)
      Result(res, engine, wire) ==
        [res |-> res, engine |-> engine, wire |-> wire, stamped |-> stamped]
  IN  CASE ClockWentBack(e, now_us) -> Result("ERR_INVALID", e, {})
        [] ~ClockWentBack(e, now_us) /\ book.res # "OK" ->
             Result(book.res, book.engine, {})
        [] ~ClockWentBack(e, now_us) /\ book.res = "OK" /\ out.res = "OK" ->
             Result("OK", book.engine, out.wire)
        [] OTHER -> Result(failure.res, failure.engine, out.wire)
-----------------------------------------------------------------------------
\* Mutant: in-flight messages to the peer are not cancelled.
reset_peer_ordering_KeepsInFlight(e, src) ==
  [e EXCEPT !.m_held_pending = {h \in @ : h.source_id # src},
            !.m_ordering     = OB!reset_peer(@, src),
            !.m_seq_state    = [d \in DOMAIN @ |-> IF d = src THEN 1 ELSE @[d]]]

reset_peer_ordering(e, src) ==
  [e EXCEPT !.m_held_pending  = {h \in @ : h.source_id # src},
            !.m_ordering      = OB!reset_peer(@, src),
            !.m_seq_state     = [d \in DOMAIN @ |-> IF d = src THEN 1 ELSE @[d]],
            !.m_ack_tracker   = AT!cancel_peer(@, src).tracker,
            !.m_retry_manager = RM!cancel_peer(@, src).manager]

\* Mutant: the notifications are consumed without effect.
drain_hello_reconnects_Ignores(e, hellos) == e

\* The hello queue never holds more than ORDERING_PEER_COUNT nodes here, and
\* resets of different peers commute.
drain_hello_reconnects(e, hellos) ==
  LET queue == SetToSeq(hellos)
      drained[k \in 0 .. Cardinality(hellos)] ==
        IF k = 0 THEN e ELSE reset_peer_ordering(drained[k - 1], queue[k])
  IN  drained[Cardinality(hellos)]

\* Mutant: m_held_pending_valid is not set.
StageNext_NotValid(e, src) ==
  [e EXCEPT !.m_ordering = OB!try_release_next(@, src).buffer]

\* try_release_next() into m_held_pending, the tail of three paths.
StageNext(e, src) ==
  LET r == OB!try_release_next(e.m_ordering, src)
  IN  IF r.res = "OK" THEN [e EXCEPT !.m_ordering = r.buffer, !.m_held_pending = r.out]
                      ELSE e

AcksFor(n, envs) ==
  {envelope_make_ack(env, n) : env \in {x \in envs : envelope_needs_ack_response(x)}}

\* out is what receive() returns with OK as data; reply goes to the transport.
Outcome(res, e, out, reply) == [res |-> res, engine |-> e, out |-> out, reply |-> reply]

deliver_held_pending(e, n, now_us) ==
  LET env    == CHOOSE x \in e.m_held_pending : TRUE
      staged == StageNext([e EXCEPT !.m_held_pending = {}], env.source_id)
  IN  IF timestamp_expired(env.expiry_time_us, now_us)
        THEN Outcome("ERR_EXPIRED", staged, {}, {})
        ELSE Outcome("OK", staged, {env}, AcksFor(n, {env}))

\* Mutant: the ACK only clears the AckTracker.
process_ack_TrackerOnly(e, env) ==
  [e EXCEPT !.m_ack_tracker = AT!on_ack(@, env.destination_id, env.message_id).tracker]

\* An ACK that a node other than the tracked destination sent is ignored.
process_ack(e, env) ==
  LET expected == AT!get_tracked_destination(e.m_ack_tracker, env.destination_id,
                                             env.message_id)
      tracked  == AT!PendingFor(e.m_ack_tracker, env.destination_id, env.message_id) # {}
  IN  IF tracked /\ expected # env.source_id THEN e
        ELSE [e EXCEPT
                !.m_ack_tracker   = AT!on_ack(@, env.destination_id, env.message_id).tracker,
                !.m_retry_manager = RM!on_ack(@, env.destination_id, env.message_id).manager]

\* Mutant: duplicates are not filtered.
handle_data_dedup_Off(e, env, now_us) == [res |-> "OK", filter |-> e.m_dedup]

handle_data_dedup(e, env, now_us) ==
  IF env.reliability_class # "RELIABLE_RETRY"
    THEN [res |-> "OK", filter |-> e.m_dedup]
    ELSE DF!check_and_record(e.m_dedup, env.source_id, env.message_id, now_us)

\* Mutant: numbered messages pass the gate as they come.
handle_ordering_gate_Off(e, env, now_us) == [res |-> "OK", buffer |-> e.m_ordering]

\* Expired holds are swept before the message meets the gate.
handle_ordering_gate(e, env, now_us) ==
  OB!ingest(OB!sweep_expired_holds(e.m_ordering, now_us, ORDERING_HOLD_COUNT).buffer, env)

handle_data_path(e, n, env, now_us) ==
  LET dedup == handle_data_dedup(e, env, now_us)
      fresh == [e EXCEPT !.m_dedup = dedup.filter]
      gate  == handle_ordering_gate(fresh, env, now_us)
      gated == [fresh EXCEPT !.m_ordering = gate.buffer]
  IN  CASE dedup.res # "OK" ->
             Outcome("ERR_DUPLICATE", e, {}, {envelope_make_ack(env, n)})
        [] dedup.res = "OK" /\ gate.res # "OK" -> Outcome(gate.res, gated, {}, {})
        [] OTHER -> Outcome("OK", StageNext(gated, env.source_id), {env}, AcksFor(n, {env}))

check_routing(env, n, now_us) ==
  CASE timestamp_expired(env.expiry_time_us, now_us) -> "ERR_EXPIRED"
    [] ~timestamp_expired(env.expiry_time_us, now_us)
       /\ ~envelope_addressed_to(env, n) -> "ERR_INVALID"
    [] OTHER -> "OK"

\* receive() up to the point where it reads the transport: ERR_EMPTY and
\* ERR_EXPIRED mean that it goes on to do so.
receive_staged(e, n, hellos, now_us) ==
  LET reset == drain_hello_reconnects([e EXCEPT !.m_last_now_us = now_us], hellos)
  IN  CASE ClockWentBack(e, now_us) -> Outcome("ERR_INVALID", e, {}, {})
        [] ~ClockWentBack(e, now_us) /\ reset.m_held_pending # {} ->
             deliver_held_pending(reset, n, now_us)
        [] OTHER -> Outcome("ERR_EMPTY", reset, {}, {})

\* The frame that the transport returns; out is its message once all frames of
\* it are there (res = OK).
handle_fragment_ingest(e, frame, now_us) ==
  LET r == RB!ingest(e.m_reassembly, frame, now_us)
  IN  [res |-> r.res, out |-> r.out, engine |-> [e EXCEPT !.m_reassembly = r.slots]]

\* receive() from there on, r being the outcome of handle_fragment_ingest().
receive_wire(r, n, now_us) ==
  LET env   == CHOOSE x \in r.out : TRUE
      route == check_routing(env, n, now_us)
  IN  CASE r.res # "OK" -> Outcome(r.res, r.engine, {}, {})
        [] r.res = "OK" /\ route # "OK" -> Outcome(route, r.engine, {}, {})
        [] r.res = "OK" /\ route = "OK" /\ envelope_is_control(env) ->
             Outcome("OK", IF env.message_type = "ACK" THEN process_ack(r.engine, env)
                                                       ELSE r.engine, {}, {})
        [] OTHER -> handle_data_path(r.engine, n, env, now_us)
-----------------------------------------------------------------------------
\* due is what the transport is asked to send again: all frames of the message.
pump_retries(e, now_us) ==
  LET r == RM!collect_due(e.m_retry_manager, now_us, MSG_RING_CAPACITY)
  IN  IF ClockWentBack(e, now_us) THEN [engine |-> e, due |-> {}]
        ELSE [engine |-> [e EXCEPT !.m_last_now_us = now_us, !.m_retry_manager = r.manager],
              due    |-> UNION {send_fragments(env, now_us, FRAG_MAX_COUNT).wire
                                  : env \in r.due}]

sweep_ack_timeouts(e, now_us) ==
  LET r == AT!sweep_expired(e.m_ack_tracker, now_us, ACK_TRACKER_CAPACITY)
      o == OB!sweep_expired_holds(e.m_ordering, now_us, ORDERING_HOLD_COUNT)
  IN  IF ClockWentBack(e, now_us) THEN [engine |-> e, timeouts |-> {}]
        ELSE [engine   |-> [e EXCEPT !.m_last_now_us = now_us,
                                     !.m_reassembly  =
                                       RB!sweep_stale(RB!sweep_expired(@, now_us), now_us,
                                                      recv_timeout_ms),
                                     !.m_ordering    = o.buffer,
                                     !.m_ack_tracker = r.tracker],
              timeouts |-> r.expired]
=============================================================================
