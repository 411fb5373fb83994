-------------------------- MODULE ImpairmentEngine --------------------------
(***************************************************************************)
(* The impairment engine a transport passes its messages through: delays,  *)
(* loss, duplication and partitions on the way out, partitions and a       *)
(* reordering window on the way in.                                        *)
(*                                                                         *)
(* An engine is a record: its configuration, the slots of the delay        *)
(* buffer, the reordering window and the state of the partition cycle.     *)
(* A probability of the configuration is abstracted to whether it is above *)
(* zero, and a draw of the generator (PrngEngine) is a nondeterministic    *)
(* choice, so the operations give the SET of their outcomes.  The          *)
(* statistics, which no operation reads, are left out.                     *)
(***************************************************************************)
EXTENDS Naturals, Sequences, FiniteSets, FiniteSetsExt, SequencesExt

CONSTANTS DelaySlots,   \* IMPAIR_DELAY_BUF_SIZE
          TimeMax,      \* UINT64_MAX
          DupDelay,     \* how much later a duplicate is released (100 us)
          NoEntry       \* an inactive slot

ASSUME ImpairmentAssumption ==
  /\ DelaySlots \in Nat \ {0}
  /\ TimeMax \in Nat \ {0}
  /\ DupDelay \in Nat

MinOf(a, b) == IF a <= b THEN a ELSE b

(* init() *)
NewEngine(cfg) ==
  [cfg            |-> cfg,
   delay          |-> [i \in 1 .. DelaySlots |-> NoEntry],
   reorder        |-> <<>>,
   partition      |-> FALSE,
   next_partition |-> 0]

ActiveSlots(e) == {i \in 1 .. DelaySlots : e.delay[i] # NoEntry}
DelayFull(e)   == Cardinality(ActiveSlots(e)) >= DelaySlots

-----------------------------------------------------------------------------
(* Times saturate; 0 stands for a partition cycle not yet started. *)

sat_add_us(now, delta) == MinOf(now + delta, TimeMax)

compute_release_us(now, base, jitter) ==
  sat_add_us(now, MinOf(base + jitter, TimeMax \div 2))

(* The jitters the generator may draw: the mean give or take the variance (the
   upper end is below the 32-bit clamp of the code). *)
compute_jitter_us(cfg) ==
  IF cfg.jitter_mean = 0 THEN {0}
  ELSE (cfg.jitter_mean - MinOf(cfg.jitter_variance, cfg.jitter_mean)) ..
         (cfg.jitter_mean + cfg.jitter_variance)

(* The partition cycle moves only when it is asked: whether a partition is
   active at `now`, and the engine afterwards. *)
is_partition_active(e, now) ==
  LET Answer(active, event) ==
        [active |-> active,
         eng    |-> [e EXCEPT !.partition = active, !.next_partition = event]]
  IN  IF ~e.cfg.partition_enabled
      THEN [active |-> FALSE, eng |-> e]
      ELSE IF e.next_partition = 0
      THEN Answer(FALSE, sat_add_us(now, e.cfg.partition_gap))
      ELSE IF now < e.next_partition
      THEN Answer(e.partition, e.next_partition)
      ELSE IF e.partition
      THEN Answer(FALSE, sat_add_us(now, e.cfg.partition_gap))
      ELSE Answer(TRUE, sat_add_us(now, e.cfg.partition_duration))

-----------------------------------------------------------------------------
(* Outbound *)

(* The first inactive slot takes the message; the callers have checked that
   there is one. *)
queue_to_delay_buf(e, env, release) ==
  [e EXCEPT !.delay[Min(1 .. DelaySlots \ ActiveSlots(e))] =
     [env |-> env, release |-> release]]

check_loss(e) == IF e.cfg.loss THEN BOOLEAN ELSE {FALSE}

(* The engines after the message itself was queued: with or without a copy,
   which is released a little later and only if there is room. *)
apply_duplication(e, env, release) ==
  {e} \cup (IF e.cfg.duplication /\ ~DelayFull(e)
            THEN {queue_to_delay_buf(e, env, (release + DupDelay) % (TimeMax + 1))}
            ELSE {})

(* ERR_IO stands for a message dropped on purpose. *)
process_outbound(e, env, now) ==
  LET gate == is_partition_active(e, now)
      Delayed ==
        IF DelayFull(e) THEN {[res |-> "ERR_FULL", eng |-> gate.eng]}
        ELSE UNION {LET at == compute_release_us(now, e.cfg.latency, j) IN
                    {[res |-> "OK", eng |-> x] : x \in
                       apply_duplication(queue_to_delay_buf(gate.eng, env, at), env, at)} :
                    j \in compute_jitter_us(e.cfg)}
  IN  IF ~e.cfg.enabled
      THEN {IF DelayFull(e) THEN [res |-> "ERR_FULL", eng |-> e]
            ELSE [res |-> "OK", eng |-> queue_to_delay_buf(e, env, now)]}
      ELSE IF gate.active
      THEN {[res |-> "ERR_IO", eng |-> gate.eng]}
      ELSE UNION {IF lost THEN {[res |-> "ERR_IO", eng |-> gate.eng]} ELSE Delayed :
                  lost \in check_loss(e)}

Due(e, now) == {i \in ActiveSlots(e) : e.delay[i].release <= now}

\* Mutant: collecting empties the whole buffer.
collect_deliverable_ClearsAll(e, now) ==
  [batch |-> [k \in 1 .. Cardinality(Due(e, now)) |->
                e.delay[SetToSortSeq(Due(e, now), LAMBDA i, j : i < j)[k]].env],
   eng   |-> [e EXCEPT !.delay = [i \in 1 .. DelaySlots |-> NoEntry]]]
(* The messages that are due, in the order of their slots (not of their
   release), and the engine without them. *)
collect_deliverable(e, now) ==
  [batch |-> [k \in 1 .. Cardinality(Due(e, now)) |->
                e.delay[SetToSortSeq(Due(e, now), LAMBDA i, j : i < j)[k]].env],
   eng   |-> [e EXCEPT !.delay = [i \in 1 .. DelaySlots |->
                IF i \in Due(e, now) THEN NoEntry ELSE @[i]]]]

-----------------------------------------------------------------------------
(* Inbound: the message at the door is passed on, dropped (ERR_IO), or takes
   a place in the window, from which one message drawn at random leaves once
   the window is full.  The window works also when the engine is disabled. *)
process_inbound(e, env, now) ==
  LET gate == is_partition_active(e, now)
      g    == IF e.cfg.enabled THEN gate.eng ELSE e
      Out(reorder, out) == [res |-> "OK", out |-> out, eng |-> [g EXCEPT !.reorder = reorder]]
  IN  IF e.cfg.enabled /\ gate.active
      THEN {[res |-> "ERR_IO", out |-> <<>>, eng |-> g]}
      ELSE IF ~e.cfg.reorder_enabled \/ e.cfg.window = 0
      THEN {Out(g.reorder, <<env>>)}
      ELSE IF Len(g.reorder) < e.cfg.window
      THEN {Out(Append(g.reorder, env), <<>>)}
      ELSE {Out(Append(RemoveAt(g.reorder, i), env), <<g.reorder[i]>>) :
              i \in DOMAIN g.reorder}
===============================================================================
