\* Reordering, expiry, reconnects, eviction and the wrap of the sequence number.
SPECIFICATION Spec
CONSTANTS
  Node = {"a", "b", "c", "d"}
  MessageId <- MCMessageId
  NODE_ID_INVALID = NODE_ID_INVALID
  ORDERING_HOLD_COUNT = 2
  ORDERING_PEER_COUNT = 3
  SEQ_MAX = 4
  MaxTime = 2
  MaxSession = 2
  MaxSeq = 4
  Expiring = {1, 2, 3}
  Message <- MCMessage
INVARIANTS
  FairShare
  InOrder
  GapsOnlyAfterExpiry
  HeldAreCurrent
  HoldsHavePeer
