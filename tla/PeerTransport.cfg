SPECIFICATION Spec
CONSTANTS
  DelaySlots = 2
  TimeMax = 20
  DupDelay = 0
  NoEntry = NoEntry
  RingCapacity = 2
  Oversized = {}
  HandshakeMax = 2
  NoNode = NoNode
  Setups <- MCSetups
  Strays <- MCStrays
  Rets <- MCRets
  MaxTime = 3
  MaxSends = 2
  MaxOpens = 3
  MaxFaults = 1
  MaxInjected = 2
INVARIANTS OnePeer NothingLost
PROPERTY DelayDrains
CHECK_DEADLOCK FALSE
