\* Safety and slot drainage of the AckTracker.
SPECIFICATION FairSpec
CONSTANTS
  Node = {"a", "b", "c"}
  MessageId = {1, 2, 3}
  NODE_ID_INVALID = NODE_ID_INVALID
  ACK_TRACKER_CAPACITY = 2
  MaxTime = 5
  Timeout = 2
  Message <- MCMessage
INVARIANTS
  TypeOK
  CountIsOccupancy
  ExactlyOneOutcome
PROPERTIES
  NoTimeoutPostponed
  SlotsDrain
