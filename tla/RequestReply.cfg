\* Two clients ask one server; a client has one request pending at a time.
SPECIFICATION Spec
CONSTANTS
  Node = {"s", "c", "d"}
  MessageId = {1, 2, 3, 4}
  NODE_ID_INVALID = NODE_ID_INVALID
  MAX_PENDING_REQUESTS = 1
  MAX_STASH_SIZE = 2
  MSG_MAX_PAYLOAD_BYTES = 4
  CID_MAX = 100
  k_resp_expiry_us = 5
  Server = "s"
  Timeout = {0, 1}
  MaxTime = 2
  MaxMessages = 4
  MaxDuplicated = 1
  MaxRefused = 1
INVARIANT ResponseMatches
PROPERTIES
  ResponseKept
  RequestsEnd
