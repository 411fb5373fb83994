\* The server reads the HELLO and the first message of a client within one
\* receive() of several polls.
SPECIFICATION Spec
CONSTANTS
  Node = {"s", "c"}
  MessageId = {1, 2, 4}
  NODE_ID_INVALID = NODE_ID_INVALID
  ACK_TRACKER_CAPACITY = 2
  BACKOFF_CAP = 2
  DEDUP_WINDOW_SIZE = 2
  ORDERING_HOLD_COUNT = 4
  ORDERING_PEER_COUNT = 5
  SEQ_MAX = 100
  REASSEMBLY_SLOT_COUNT = 2
  FRAG_MAX_PAYLOAD_BYTES = 1
  FRAG_MAX_COUNT = 2
  MSG_RING_CAPACITY = 1
  recv_timeout_ms = 1
  max_retries = 1
  retry_backoff_ms = 0
  ordering = "ORDERED"
  Server = "s"
  LongPoll = TRUE
  Workload <- EchoWorkload
  MaxTime = 1
  MaxRefused = 0
  MaxLost = 0
  MaxRestarts = 1
  MaxDuplicated = 0
INVARIANT NoFalseGap
