--------------------------- MODULE LocalSimHarness ---------------------------
(***************************************************************************)
(* The in-process transport: two harnesses linked to each other, the       *)
(* sender calling straight into its peer.  A harness is a record of its    *)
(* open flag, its receive queue (the ring of RingBuffer, here the bounded  *)
(* queue it implements) and its impairment engine.                         *)
(***************************************************************************)
EXTENDS ImpairmentEngine

CONSTANT RingCapacity   \* MSG_RING_CAPACITY

NewHarness == [open |-> FALSE, linked |-> FALSE, queue |-> <<>>, imp |-> NoEntry]

init(h, cfg) == [h EXCEPT !.open = TRUE, !.queue = <<>>, !.imp = NewEngine(cfg)]

link(h) == [h EXCEPT !.linked = TRUE]

close(h) == [h EXCEPT !.open = FALSE, !.linked = FALSE]

Push(queue, env) ==
  IF Len(queue) < RingCapacity
  THEN [res |-> "OK", queue |-> Append(queue, env)]
  ELSE [res |-> "ERR_FULL", queue |-> queue]

envelope_valid(env) == env.message_type # "INVALID"

(* A message put straight into the queue, past the impairments. *)
inject(h, env) ==
  LET p == Push(h.queue, env) IN
  IF ~envelope_valid(env) THEN [res |-> "ERR_INVALID", h |-> h]
  ELSE [res |-> p.res, h |-> [h EXCEPT !.queue = p.queue]]

(* The receiver's side of a send.  The partition is asked for before the
   engine is entered, so it drops messages of a disabled engine as well; the
   engine, when enabled, asks again.  ERR_TIMEOUT: kept in the window. *)
deliver_from_peer(h, env, now) ==
  LET gate == is_partition_active(h.imp, now) IN
  IF gate.active
  THEN {[res |-> "ERR_IO", h |-> [h EXCEPT !.imp = gate.eng]]}
  ELSE {IF i.res # "OK"
        THEN [res |-> "ERR_IO", h |-> [h EXCEPT !.imp = i.eng]]
        ELSE IF i.out = <<>>
        THEN [res |-> "ERR_TIMEOUT", h |-> [h EXCEPT !.imp = i.eng]]
        ELSE LET p == Push(h.queue, i.out[1]) IN
             [res |-> p.res, h |-> [h EXCEPT !.imp = i.eng, !.queue = p.queue]] :
        i \in process_inbound(gate.eng, env, now)}

IsCurrent(env, m) == m.source_id = env.source_id /\ m.message_id = env.message_id

(* Delivers a batch in turn; the result is that of the last delivery of the
   message just sent that failed. *)
flush_outbound_batch(peer, env, batch, now) ==
  FoldLeft(LAMBDA outcomes, m :
             UNION {{[res  |-> IF IsCurrent(env, m) /\ d.res \in {"ERR_IO", "ERR_FULL"}
                               THEN d.res ELSE o.res,
                      peer |-> d.h] :
                       d \in deliver_from_peer(o.peer, m, now)} : o \in outcomes},
           {[res |-> "OK", peer |-> peer]}, batch)

(* The outcomes: the result, the sender and its peer.  A message the engine
   drops on purpose is reported as sent. *)
send_message(h, peer, env, now) ==
  UNION {IF o.res = "ERR_IO"
         THEN {[res |-> "OK", h |-> [h EXCEPT !.imp = o.eng], peer |-> peer]}
         ELSE IF o.res # "OK"
         THEN {[res |-> o.res, h |-> [h EXCEPT !.imp = o.eng], peer |-> peer]}
         ELSE LET c == collect_deliverable(o.eng, now) IN
              {[res |-> f.res, h |-> [h EXCEPT !.imp = c.eng], peer |-> f.peer] :
                 f \in flush_outbound_batch(peer, env, c.batch, now)} :
         o \in process_outbound(h.imp, env, now)}

(* Only pops: what waits in the sender's delay buffer is not moved by it. *)
receive_message(h) ==
  IF h.queue = <<>>
  THEN [res |-> "ERR_TIMEOUT", h |-> h]
  ELSE [res |-> "OK", env |-> Head(h.queue), h |-> [h EXCEPT !.queue = Tail(@)]]
===============================================================================
