SPECIFICATION Spec
CONSTANTS
  DelaySlots = 1
  TimeMax = 20
  DupDelay = 0
  NoEntry = NoEntry
  MaxConnections = 3
  RingCapacity = 2
  HelloTimeout = 0
  HandshakeMax = 2
  NoNode = NoNode
  Server = Server
  c1 = c1
  c2 = c2
  c3 = c3
  n1 = n1
  n2 = n2
  Clients = {c1, c2, c3}
  NodeOf <- MCNodeOf
  After <- MCAfter
  Setups <- MCSetups
INVARIANTS RouteIsOwn ClosedForCause
PROPERTY SilentEvicted
CHECK_DEADLOCK FALSE
