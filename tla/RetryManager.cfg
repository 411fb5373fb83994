\* Retry limits, spacing and cancellation of the RetryManager.
SPECIFICATION Spec
CONSTANTS
  Node = {"a", "b", "c"}
  MessageId = {1, 2, 3}
  NODE_ID_INVALID = NODE_ID_INVALID
  ACK_TRACKER_CAPACITY = 2
  BACKOFF_CAP = 2
  MaxTime = 5
  MaxRetries = 3
  InitialBackoff = {0, 2}
  Message <- MCMessage
INVARIANTS
  RetriesBoundedAndSpaced
PROPERTY StoppedMeansSilent
