\* A network that refuses and loses frames: retries complete the message.
SPECIFICATION FairSpec
CONSTANTS
  Node = {"s", "c"}
  MessageId = {1}
  NODE_ID_INVALID = NODE_ID_INVALID
  ACK_TRACKER_CAPACITY = 1
  BACKOFF_CAP = 1
  DEDUP_WINDOW_SIZE = 1
  ORDERING_HOLD_COUNT = 1
  ORDERING_PEER_COUNT = 2
  SEQ_MAX = 100
  REASSEMBLY_SLOT_COUNT = 2
  FRAG_MAX_PAYLOAD_BYTES = 1
  FRAG_MAX_COUNT = 2
  MSG_RING_CAPACITY = 1
  recv_timeout_ms = 2
  max_retries = 2
  retry_backoff_ms = 1
  ordering = "UNORDERED"
  Server = "s"
  LongPoll = FALSE
  Workload <- SingleWorkload
  MaxTime = 2
  MaxRefused = 1
  MaxLost = 1
  MaxRestarts = 0
  MaxDuplicated = 0
INVARIANT AtMostOnce
PROPERTIES
  EventuallyDelivered
  RetriesEnd
CHECK_DEADLOCK FALSE
