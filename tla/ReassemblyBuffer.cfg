\* Frames that are lost, reordered and repeated; more messages than slots.
SPECIFICATION Spec
CONSTANTS
  Node = {"a", "b", "c"}
  MessageId = {1, 2}
  NODE_ID_INVALID = NODE_ID_INVALID
  REASSEMBLY_SLOT_COUNT = 2
  FRAG_MAX_PAYLOAD_BYTES = 2
  FRAG_MAX_COUNT = 3
  stale_threshold_us = 2
  MaxArrivals = 5
  MaxTime = 3
  Message <- MCMessage
  Stray <- MCStray
INVARIANTS
  AssembledFromFrames
PROPERTIES
  KeptUntilStale
  SlotsDrain
