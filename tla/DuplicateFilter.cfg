\* What the duplicate filter remembers; both sources reuse the same ids.
SPECIFICATION Spec
CONSTANTS
  Node = {"a", "b"}
  MessageId = {1, 2}
  NODE_ID_INVALID = NODE_ID_INVALID
  DEDUP_WINDOW_SIZE = 3
  MaxTime = 4
  MaxAccepted = 6
INVARIANTS
  TypeOK
  FillsInOrder
  NoEarlyReacceptance
