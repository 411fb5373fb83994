# TLA+ models of messageEngine

messageEngine is a C++ library for sending messages between nodes with a chosen
reliability (best effort, acknowledged, retried), optional in-order delivery,
duplicate suppression and expiry, over interchangeable transports.  This
directory holds TLA+ models of its delivery logic, the TLC runs that check them
on small instances and TLAPS proofs of what holds for every instance.
`PROJECT.json` maps every definition to the source lines it stands for and lists
the runs, the theorems and the hazards of the code.

Paths below are relative to the repository (`src/core/...`).

## The system and its parts

| Part | State it keeps | Operations | What makes it correct |
|---|---|---|---|
| `MessageEnvelope`, `Timestamp` | none (values) | predicates on envelopes, expiry | - |
| `AckTracker` | table of FREE/PENDING/ACKED slots with deadlines, occupancy count, time of the last sweep, counters | track, on_ack, cancel, cancel_peer, sweep_expired | count exact, one outcome per message, no timeout postponed, slots drain |
| `RetryManager` | table of active entries with retry count, backoff, next retry time | schedule, on_ack, cancel, cancel_peer, collect_due | bounded and spaced retries, silent after ACK, entries end |
| `DuplicateFilter` | window of the last (source, id) pairs | check_and_record | the entry with the least timestamp is forgotten first |
| `OrderingBuffer` | per source the expected sequence number, a shared pool of held messages | ingest, try_release_next, sweep_expired_holds, reset_peer | in order, gaps only after expiry, fair share of the pool, nothing stranded by eviction |
| `DeliveryEngine` | one of each of the above, outgoing sequence numbers, one staged message, last time seen | send, receive, pump_retries, sweep_ack_timeouts | at most once, ACK only for what is kept, failed sends leave nothing, in order, reconnect leaves nothing stale |
| `ReassemblyBuffer`, `Fragmentation` | table of partly received messages | fragment, ingest, sweep_expired, sweep_stale | a message is assembled only from all its own fragments; the table drains |
| `RequestReplyEngine` | table of pending requests, stashes of requests and responses | send_request, receive_request, send_response, receive_response, sweep_timeouts | a response reaches the request it answers, once |
| `ImpairmentEngine`, `PrngEngine` | delay buffer, reorder window, partition state | process_outbound, process_inbound, collect_deliverable | nothing is lost that the configuration does not lose |
| `RingBuffer` | single-producer single-consumer ring | push, pop | FIFO, no loss, no slot read and written at once by two threads |
| `TcpBackend`, `TlsTcpBackend` | table of connections with node ids, HELLO flags and ages; HELLO notifications; receive queue; delay buffer | init, register_local_id, send_message, receive_message, pop_hello_peer, close | a message reaches the connection of its destination only; connections are closed for a cause; silent ones leave the table |
| `UdpBackend`, `DtlsUdpBackend` | the peer's node id and (DTLS) port, receive queue, delay buffer | the same | one peer per session; nothing lost inside the transport; the delay buffer drains |
| `LocalSimHarness` | link to the peer, receive queue, delay buffer | init, link, inject, send_message, receive_message, close | nothing lost inside the transport |
| `TlsSessionStore` | at most one saved TLS session | try_save, try_load, zeroize | - |
| `Serializer`, `Logger`, assertions, socket wrappers | little or none | conversion, output, system calls | - |

The engine is single threaded: an application's loop calls `receive`,
`pump_retries` and `sweep_ack_timeouts` in turn (`src/app/Server.cpp`,
`Client.cpp`), and `send` whenever it likes.  What makes the behaviour hard is
the network between two engines, which loses, delays, reorders and duplicates;
retries that race with ACKs and expiry; small fixed tables that fill up; one
staging slot shared by several paths; a client that restarts while the server
still holds state of its old session; and tables of connections that change
while a round of reading them is under way.  `PROJECT.json` lists these under
`hazards`, each at its line.

## Modules

Each component is a *data type* module `X.tla`: its state is a record, every
method an operator from the old state and the arguments to the result and the
new state, with the names of the source.  `XSpec.tla` makes it a system with
variables, one action per method, and properties; `XProofs.tla` holds theorems
and `MCX.tla` the messages of a TLC instance.  `DeliveryEngine.tla` composes the
data types, so what is checked and proved about them is about the same
definitions that the engine uses.

| Module | Models |
|---|---|
| `MessageEnvelope` | `MessageEnvelope.hpp`, `Types.hpp`, `Timestamp.hpp` |
| `AckTracker`, `AckTrackerSpec`, `AckTrackerProofs`, `MCAckTracker` | `AckTracker.cpp` |
| `RetryManager`, `RetryManagerSpec`, `RetryManagerProofs`, `MCRetryManager` | `RetryManager.cpp` |
| `DuplicateFilter`, `DuplicateFilterSpec`, `DuplicateFilterProofs` | `DuplicateFilter.cpp` |
| `OrderingBuffer`, `OrderingBufferSpec`, `OrderingBufferProofs`, `MCOrderingBuffer` | `OrderingBuffer.cpp` |
| `ReassemblyBuffer`, `ReassemblyBufferSpec`, `ReassemblyBufferProofs`, `MCReassemblyBuffer` | `ReassemblyBuffer.cpp`, `Fragmentation.cpp` |
| `DeliveryEngine` | `DeliveryEngine.cpp`, composing the five above |
| `RequestReplyEngine`, `RequestReplySystem`, `RequestReplyProofs` | `RequestReplyEngine.cpp`; clients and a server over the delivery that the engines give |
| `DeliverySystem`, `DeliveryProofs`, `MCDeliverySystem` | engines of several nodes, the network and HELLO notifications between them |
| `RingBuffer`, `RingBufferProofs`, `BoundedFifo` | `RingBuffer.hpp`, two threads; the queue it implements |
| `ImpairmentEngine` | `ImpairmentEngine.cpp` |
| `LocalSimHarness`, `UdpBackend`, `DtlsUdpBackend` | the files of these names |
| `PeerTransportSystem`, `MCPeerTransport` | two ends of one of the three above and what is between them |
| `TcpBackend`, `TlsTcpBackend` | the files of these names; `TlsSessionStore.cpp` |
| `StreamServerSystem`, `MCStreamServer` | a server and clients on one of the two above |

Conventions.  Time is in ticks of one millisecond; `ms * 1000` disappears.
Arrays start at 1 except where the code computes with `%`.  A slot that the code
frees keeps stale bytes that no method reads; the model clears it.  Assertions of
the code are not guards: where they matter (`m_count` in particular) a property
states them.  An operator marked *Mutant* changes the definition below it the way
a plausible bug would; nothing uses it except the test that the property it is
paired with in `PROJECT.json` notices the change.

`receive()` of the engine is one atomic call for its engine, but the transport
reads HELLO frames inside it: `receive_staged` is what happens before
`receive_message()` is called, `receive_wire` what happens with the frame it
returns, and `DeliverySystem!Finish` records the HELLOs read in between, which
the engine learns of only in its next call.  `LongPoll` is the case of a receive
timeout above 100 ms, for which `TcpBackend::receive_message` polls several times,
so that a HELLO and the data behind it can be read by one call.  `Server.cpp` (100 ms) is
the case without it, `TlsTcpDemo.cpp` (200 ms on an ORDERED channel) the case with it.

A message goes out as its frames (`send_fragments`); one that the transport refuses
half-way is reported as failed but keeps its slots, so that a retry completes it.
In `DeliverySystem` such a message counts as sent, and `failed` holds the messages of
which no frame reached the transport.

The transports.  A transport module has the backend as a record and its methods
as operators; where a method draws random numbers or may see different results of
the system, it returns the set of outcomes.  `failing` names the system or library
calls that fail in a call, a TLS handshake is the sequence of results that the
library returns (`want`, `done`, `error`, ...), and the impairment engine is the one
of `ImpairmentEngine.tla` in all five.

- `PeerTransportSystem`: one call of an end is one step.  `receive_message()` polls
  in rounds; a round, which reads one datagram at most, is the step (`Receive`).
  `net` is a set of datagrams, so it reorders and, with `copied`, duplicates.
  `owed` are the messages whose send returned OK while the receiver knew the sender
  (`Settled`) with no loss or partition configured.  Loss by the environment, `close()`,
  a failing `send_to()` of a delayed message and a full receive queue of LocalSimHarness
  (`Spilled`: exactly the messages it refuses) take them off.
- `StreamServerSystem`: the server's round is several steps: `Poll` sweeps silent
  connections, accepts and polls; each `Drain` reads one connection.  In between
  clients send, close and connect, so that the answers of `poll()` age as they do
  in the code.  When no place is left to read, `Proceed` ends the round as
  `receive_message()` does and pops the HELLO notifications.  The server's timeout
  is one poll (100 ms, `Server.cpp:63`).  `Torn` is a frame written in part,
  `Junk` one that the deserializer refuses.  A connection's age stops counting at one
  beyond the timeout.  Impairments are off in this model: the peer model has them.
  `bumped` is the history of TcpBackend's index slips described below.
- Errors of the serializer on sending, statistics and logging are left out.  The
  configurations of the runs pass `transport_config_valid()`, so what `init()` does with
  an invalid one is in the definitions of UDP and DTLS but not reached, and is left out
  of TCP's and TLS's.

Where a call would stop the program at an assertion, the models have no step: a
`RequestReplyEngine` that gets an empty payload (`RequestReplyEngine.cpp:160`), and a TLS
client whose handshake still wants data after 32 attempts (`TlsTcpBackend.cpp:772`; in the
model its end of the connection is gone).  Times stay far below `UINT64_MAX`, so that the
saturation of deadlines (`RequestReplyEngine.cpp:529`) is not reached either.

## Runs

| Run | Instance | Shows |
|---|---|---|
| `ack_tracker` | 2 slots, 3 messages, any timestamp up to now | every message has exactly one outcome; count and counters exact; timeouts never postponed; slots drain |
| `retry_manager` | 2 slots, 3 messages to 2 nodes, one expiring, backoff 0 or the cap, buffers of 1 and 2 | retries bounded, spaced, silent once stopped |
| `duplicate_filter` | window of 3, more pairs than that, ties in time | filled in order; a pair is accepted again only after a window of others, of which only later ones and those of the same time count |
| `ordering_buffer` | 4 sources for 3 peer slots, 2 hold slots, numbers up to the wrap, expiry, reconnects | in order, no gap without a reported expiry, fair share, no old session, eviction never strands a held message |
| `reassembly` | 2 slots, 3 messages of 2 or 3 frames from 2 sources, 5 stray frames (another length, an index beyond the count, too long, too short, one of a lost message), 5 arrivals | a message comes out as it was sent and only from its own frames; slots are kept until expiry, staleness or a wrong-sized frame of their own, and drain |
| `delivery_faults` | server and client, ordered, 1 slot; 3 messages of 2 classes with 1 refusal or 1 duplicate in any order, or traffic both ways, one message of 2 frames, with 1 client restart at any point | ACK means kept, in order, failed sends leave nothing, ACK stops retries, nothing waiting is lost; nothing of the old session survives the HELLO and nothing of the new one is dropped |
| `delivery_longpoll` | traffic both ways, `LongPoll` | *violated*: the reset for a HELLO comes after the first message of the session, and the second waits for it (see below) |
| `delivery_live` | 1 message of 2 frames, 1 frame refused, 1 frame or ACK lost, 2 retries, unordered | it is delivered, at most once, and its retries end |
| `request_reply` | 2 clients with one pending request each, stashes of two, 4 messages, 1 copy, 1 refusal | a client gets the answer to its own request, once; responses are kept; the table drains |
| `ring_buffer` | 2 slots, counters modulo 6, 2 values | no slot is copied into and out of at once; the ring implements `BoundedFifo` (refinement) |
| `peer_transport` | 11 setups (harness, UDP, DTLS with and without TLS; delays, copies, reordering, partitions, loss), 2 messages, 1 fault, 3 openings | one peer per session; nothing lost inside; the delay buffer drains |
| `stream_server` | TCP and TLS, 3 clients of 2 nodes, table of 3; six bounds on calls, sends and faults | node ids belong to their connections; closed for a cause; silent ones evicted |

Bounds.  Each is named in the module (`MaxTime`, `MaxLost`, ...) and given in the
cfg.  Tables have one or two slots so that they are full in some states and a slot
is used again in others; there is one message more than fits; the clock has room
for one deadline and one retry after it; the sequence number wraps at 4.  Two nodes
are enough for the engine because it keeps nothing across peers except the shared
tables, whose sharing the component runs exercise.  The stream server has a table
of three, the least in which compaction moves one connection under an index while
another stays; two of the clients have one node id, the case of a restart before
the server has noticed the end of the old connection.  Its six setups trade the
number of client calls against faults and sends: three calls are three HELLOs, four
calls of two clients fill the receive queue so that a message is found there at
once (`Taken`).  `HelloTimeout` is 0 ticks, so that one tick makes a connection
overdue.  `delivery_faults` explores one trouble at a time (`CONSTRAINT OneTrouble`): three
short messages of the client with one refusal over two ticks or one copy (two messages if
a tick follows it), or a restart
within one tick, with an answer and a message of two frames under way but without the
third message; what the two have in common is short, and the proofs of
`DeliveryProofs` have no such limit.  In the peer model the clock has room for one delay
after the last send and for a whole partition cycle.

Fairness.  `AckTrackerSpec!FairSpec` asks that the clock advances and that the
sweep runs again and again, and so do `ReassemblyBufferSpec!Spec` and
`RequestReplySystem!Spec` for their sweeps; `DeliverySystem!FairSpec` that the poll loops call
`receive` and `pump_retries` again and again: this is what the loops of
`Server.cpp` and `Client.cpp` do in every iteration.  As the model's clock is
bounded, `PromptTick` also asks that no tick passes while a retransmission is due:
the loops run every 100 ms at the latest, well below the retry backoff.

`PeerTransportSystem!Spec` and `StreamServerSystem!Spec` ask that the clock advances
and that an open end, or the server, keeps calling `receive_message()`; a round that
has begun goes on.  Nothing is asked of clients or of the network.

Refinement.  `RingBuffer!ImplementsFifo` is `BoundedFifo!Spec` with the queue as the
slots from `head` to `tail`.  A push takes effect with the store of `m_tail`, a pop with
the store of `m_head`.  Acquire loads may return any value stored since the one seen
last, which is what acquire and release guarantee; with the copy of an envelope
taking time between two steps, a slot given back too early is read while it is
written.

## Disagreements between code and text

These were met while modelling.  `delivery_longpoll` shows one of them; the other runs
are chosen so that their properties are about the rest, and say so where it matters.

In the engine:

- the duplicate filter records a message before the ordering gate can refuse it
  (pool full).  The retransmission is taken for a duplicate and ACKed
  (`DeliveryEngine.cpp:831`): the sender stops, the message was never delivered or
  kept.  `ORDERING_HOLD_COUNT = 2` in `DeliveryFaults.cfg` violates `AckMeansKept`;
- what the server sends to a client between reading its HELLO and the drain that
  resets the client's state takes number 1, and so does the first message after the
  reset (`DeliveryEngine.cpp:890`).  The client has recorded the second in its
  duplicate filter before the gate drops it as old, and ACKs its retransmission: the
  server stops, and the message was never delivered.  A workload of two ordered
  messages from the server to one client violates `AckMeansKept` this way;
- when a staged message has expired, `receive()` stages the next one and goes on to
  the transport; a message that passes the gate there stages its successor over it
  (`DeliveryEngine.cpp:1063`), and the message staged before is lost.  `WaitingNotLost`
  names this exception (`GivenUp`), and is proved to have no other than the sweep;
- with a receive timeout above 100 ms the first message of a session can be delivered
  before the engine is told of the HELLO; the reset then makes message 2 wait for
  message 1, which was already delivered (`DeliveryEngine.cpp:957` says the reset comes
  "before any delivery attempt").  Run `delivery_longpoll` is this case, which
  `TlsTcpDemo.cpp` (lines 66, 191, 252) is exposed to; no restart is needed.
  `NewSessionNotDropped` fails in the same way;
- `docs/PROTOCOL.md:66` says that "the oldest entry is evicted when the window is full",
  and `UC_33_dedup_window_eviction_test.md:129` that "the window tracks only the 128
  most-recent (source_id, message_id) pairs".  `find_evict_idx` (`DuplicateFilter.cpp:115`)
  takes the lowest index among equal timestamps: with A, B, C, D, E at one time and a window of
  three, E takes the place of D, the newest.  `NoEarlyReacceptance` counts ties accordingly;
- the check of the assembled length (`ReassemblyBuffer.cpp:256`, "discard the slot to avoid
  handing a logically inconsistent envelope to the DeliveryEngine") compares the sum of
  the sizes: a frame too short and another too long by as much pass it.
  `AssembledFromFrames` excepts this (`SizesMixed`);
- `DeliveryEngine.cpp:1180` says that the sweep unblocks the gate; when it moves the gate
  onto a held message nothing stages that, because `try_release_next` is called only after
  a message has passed the gate, so it waits for another or for its own expiry;
- `RequestReplyEngine.hpp:184` calls the correlation id the message id of the request;
  the code uses a counter that starts at 1 in every session
  (`RequestReplyEngine.cpp:59`), so that a late response to a client's earlier session
  can match a request of the new one;
- the expiry sweep may move the gate onto a held message that nobody then
  releases, and a second copy of it, delivered directly, leaves the held one in its
  slot behind the gate (`OrderingBuffer.cpp:488`);
- `advance_sequence` inside the sweep frees held messages that are not reported
  as dropped (`OrderingBuffer.hpp:113`), and for the number `UINT32_MAX` the sweep
  does not move the gate at all (`OrderingBuffer.cpp:463`);
- the peer evicted is the first without held messages, not the least recently
  used one (`OrderingBuffer.cpp:150`); `docs/Design.md:415` says that the oldest held
  message is dropped when the pool is full, the code drops the new one;
- after an expired staged message a later message can be delivered before the
  one staged next (the same path).

In the transports:

- `TcpBackend::process_hello_frame` (1067-1068) goes on after a HELLO was rejected and
  its connection evicted, and marks the connection that the compaction moved into
  its place as announced; the comment at 872 says that callers must return at once.
  That connection's own HELLO is then refused as a second one, or it stays although
  it never says HELLO.  `ClosedForCause` and `SilentEvicted` except such connections
  (`bumped`);
- `drain_readable_clients` (601-609) matches the answers of `poll()` to the table by
  index; after a compaction it reads the wrong connection, which, being idle, times
  out and is closed (`bumped` again);
- a node that reconnects before its old connection is seen to end is rejected, and
  the HELLO queue, which holds one entry less than there are connections
  (966-971), is not emptied by `init()` or `close()`;
- a send that fails half-way leaves a torn frame on a connection that stays open;
- `TcpBackend::send_message` without clients logs that it discards the message (690),
  which stays in the delay buffer all the same;
- a partition drops inbound messages even with the engine disabled in the harness,
  TCP and TLS, which ask `is_partition_active` themselves; UDP and DTLS do not;
- the receive of `LocalSimHarness` never flushes its delay buffer (`DelayDrains` is
  about the other two), and a steady inbound stream keeps UDP's and DTLS's from
  being flushed (`UdpBackend.cpp:531`);
- the reordering window keeps its last messages for good; messages that are due leave
  the delay buffer in slot order, not in that of their release times;
- a UDP or DTLS peer sends its HELLO once; if it is lost nothing of it is let in;
- the comments at `DtlsUdpBackend.cpp:867` and `891` say that the first datagram accepted
  locks the port and that data is let in before a HELLO "for backward compatibility"; the
  code, the comment at 933 and the test of SEC-027 let only a HELLO lock the port and
  nothing pass before it, which is what `OnePeer` states;
- the DTLS server's set-up does not free its TLS context when the client's id cannot
  be set (`DtlsUdpBackend.cpp:616`).

## Proofs

Everything here is proved for every value of the constants that meets the named
assumptions, every number of messages and every order of the calls, from the
definitions that the runs check.  Each `XProofs` module has an inductive invariant, its
step lemmas (one per action) and the theorems that follow.

**`AckTrackerProofs`** (a capacity above 0, a timeout above 0).  `TypeCorrect`,
`CountCorrect`, `NoPostponement`, `OneOutcome`.  The invariant adds to the types that
`m_count` is exactly the number of used slots (the decrements saturate, so a mere
bound would not be inductive) and that every PENDING deadline is later than the last
sweep, which is not in the future: `track` gives deadlines beyond the clock, and a
sweep releases what its clamped time has reached.  `OneOutcome` needs in addition that
no message is pending in two slots and that the histories are finite: then every call
moves a message from "pending" to one history and raises one counter by the number of
messages moved (`ResolvingCalls`, `StepAccounts`); `BufferSuffices` shows that the
sweep's output buffer never cuts its result.

**`DuplicateFilterProofs`** (a window above 0).  `TypeCorrect`, `WindowFillsInOrder`,
`ReacceptedLate`.  The used slots are a prefix and the write position is its end
until the window is full.  For `ReacceptedLate` the invariant `WInv` says that the
window's slots stem from different acceptances, and that every acceptance without a
slot is no newer than any that has one: eviction takes the least timestamp.  If a pair
is accepted again, the window holds a full set of other entries, none with a timestamp
below that of the forgotten one; as timestamps do not fall (`InTimeOrder`), each is from a
later acceptance or from an earlier one with the same timestamp (`Counted`,
`ForgottenLate`: an injection from the slots into those acceptances).

**`RetryManagerProofs`** (a capacity above 0, an even cap).  `NoRetryStorm`,
`SilentOnceStopped`.  The invariant ties every entry to the log of its hand-outs:
`retry_count` is the log's length, `next_retry_us` the last hand-out plus the pause,
and the pause is at least `2^(k-1)` or the cap.  Without the link between entry and
log the spacing is not inductive, since `collect_due` reads only the entry.  The provers
know nothing of `^`: `PowerDoubles` derives `2^(k+1) = 2 * 2^k` by counting
subsets.

**`OrderingBufferProofs`** (fewer holds than peers, as `Types.hpp` has it).  `NoStrandedHolds`,
`ShareIsFair`, `NothingOfAnOldSession`, `DeliveredInOrder`, `NoSilentGap`.  The
invariant has one slot per source and per held number, a peer for every hold, the
source's share, and `Past`: what was delivered of a source is increasing and
below its gate, and what is below the gate was delivered or lies under an expiry
report.  That a peer without holds can always be evicted (`EvictionPossible`) follows
by counting from the assumption.  The loop of `sweep_expired_holds()` is a recursive function
on `0 .. N`; that it has a solution, and that each of its states is good, is shown with
the least number for which it would not be (`SweepLoop`, `SweepGood`), which needs no
induction scheme.

**`RingBufferProofs`** (a capacity that divides the counters' range and is below it).
`SlotRaceFreedom`, `RefinesFifo`.  The invariant is about arcs on the circle
of counter values: the producer's stale copy of the head, the head and the tail lie in
this order on an arc no longer than the capacity, the consumer's stale copy of the tail
between head and tail; and a value that was copied is the one that will be
published.  `RefinesFifo` maps the slots from head to tail to the queue of `BoundedFifo`:
the store of the tail is its enqueue, the store of the head its dequeue, every other
step a stutter.

**`RequestReplyProofs`** (`SessionAssumption`: a session sends fewer requests than there
are correlation ids, 2^64 - 1).  `AnswersMatch`, `ResponsesStay`.  The invariant says
that no client uses a correlation id twice, because ids given out are below the
counter; that every active slot, stashed request, request taken by the server and
message under way belongs to a request that was sent (`GoodEngine`, `Genuine`); and that
an answered request is in no slot, which makes answers unique.  The receive loop of
`pump_inbound()` is treated as the sweep of the ordering buffer.

**`ReassemblyBufferProofs`** (a fragment size above 0 and `FramesAssumption`: a source
does not use a message id twice; a stray frame that has the header of a message has an
index beyond the count or a wrong size; the other stray frames make up no whole message).
`TypeCorrect`, `AssembledAsSent`, `KeptSlots`.  The invariant `Inv` says of an open slot
(`SlotOK`) that its header is one of the frames and that every bit of its mask has a frame
that arrived.  While all frames recorded in it have the right size (`Sound`), every such
frame's bytes are at their place in the buffer and the byte count is the closed form
`BytesOf(header, mask)`; without the closed form the check of the total length could not be
shown to pass exactly when the last frame is in, nor that `record_fragment` stays inside
the payload (`RecordOK`, `NoOverrun`, `CompleteOK`).  A slot with another byte count is
`Spoilt`: it has met a frame that is too short or too long, and comes out only if both
kinds have arrived, since the sum must be right.  At most one slot is open per
source and id (`Apart`), so the copies of a whole message that were assembled, plus one
while a frame's bit is set, are at most the copies of that frame that arrived (`Counted`).
The arithmetic of `index * FRAG_MAX_PAYLOAD_BYTES` rests on two lemmas, `Blocks` and
`BlockOf`.

**`DeliveryProofs`** is about the composed system, for any finite set of nodes, any workload,
any sizes of the tables (`NodeAssumption`, `EngineAssumption`, `CapacityAssumption`,
`SystemAssumption`) and any bounds on losses, refusals, copies, restarts and time.

- `Invariance`.  `IInv` says where things come from: what a node tracks, retries, holds,
  stages, reassembles or delivers, and every frame under way, is a copy of a message that
  was sent or an ACK for one; message ids are not used twice; an acknowledged message has
  no entry for retries and a message no two (else `cancel` would stop one of them); a held
  message has a peer slot; and what is left of a client's old session belongs to a client
  in `Unreset`, whose HELLO is queued or on its way (`StaleOK`), while nothing of a client's
  earlier session is under way to the server.  From it follow `FailedSends`,
  `AcksStopRetries` and `ResetIsComplete`.
- `DeliveredOnce`, if `WindowSuffices`: the window of the filter is as large as the set of
  RELIABLE_RETRY messages (in the code it has 128 entries; a message that returns after
  128 others is delivered again, which `DuplicateFilterProofs!ReacceptedLate` bounds).
  `OnceOK` adds that every such message that was delivered, is staged or held is in the
  filter, and that no two of these places have the same message.
- `AcksVouch`, on an unordered channel (`Unnumbered`): what the filter knows has been
  delivered, so that also the ACK for a duplicate is for a message the application has.
- `DeliveredInOrder`, if `Orderly`: nothing expires, `receive()` polls once,
  the table of peers has room for every node and there are fewer messages than sequence
  numbers (`DeliveryFaults.cfg` is such an instance; clients may
  restart any number of times).  `OrderOK` says that at most one message is staged, that it
  comes after all that was delivered of its source, and that the gate has passed both, all
  apart from the messages of sessions that have ended (`Ended`: for the server those in
  `stale`; a client that restarts forgets everything).  A gate is reset only for a client of
  whose new session nothing has been delivered or kept (`Untouched`), and no message has
  a greater number than there were calls of `send()`, so none wraps.
- `NothingIsLost`, without hypotheses: any expiry times, any poll, any sizes.  At most one
  message is staged (`OneStaged`), so the message that `deliver_held_pending` hands out
  leaves its place free before the next is staged, and unless the staged one has expired
  `receive()` goes on to the transport only with nothing staged; a new gate, a held message
  and the reset for another source displace nothing (`IngestHolds`, `DrainKeeps`).  The
  sweep frees a held message only if it, or a later one of its source, has expired
  (`SweepKeeps`, along the loop); an expired staged message costs at most its own
  successors (`Outlived`, `Lapsed`).  `GivenUp` is exactly these two cases.

The loops of the engine (`drain_hello_reconnects`, the sweep) are treated as that of the
ordering buffer above.

Only model-checked:

- liveness (`SlotsDrain`, `RequestsEnd`, the delivery, polling and handshake properties),
  which the prover does not do;
- `AckMeansKept` on an ordered channel: it holds only while the hold pool has room, a
  matter of how many messages are under way at once (a message that a full pool refuses is
  in the duplicate filter and is acknowledged when it comes again), and only while the
  server sends nothing between a HELLO and its drain (see above);
- `InOrderDelivery` with expiry, and `NewSessionNotDropped`, which like the property before
  holds only while there is room for what is under way;
- `PeerTransportSystem` and `StreamServerSystem` (`OnePeer`, `NothingLost`, `RouteIsOwn`,
  `ClosedForCause`): their tables are compacted and filtered with folds over sequences, and
  what such a fold computes needs an induction over the sequence.

## Not modelled, and the plan

Not modelled for good: byte layout and text (`Serializer`, `Logger`,
`ImpairmentConfigLoader`), system and TLS library calls (`SocketUtils`, `*OpsImpl`,
mbedTLS itself; what they return is a choice of the models), statistics and the event
ring, which no decision reads, the draws of `PrngEngine` (nondeterministic choices
instead), two threads on one `TlsSessionStore` (its mutex orders them).

What is left:

1. An abstract specification of reliable ordered delivery (a set of messages sent
   and a sequence delivered) that `DeliverySystem` implements.
2. Proofs about the transports, starting with lemmas on compaction.
