SPECIFICATION Spec
CONSTANTS
  Values = {a, b}
  Capacity = 2
  CounterRange = 6
  NoValue = NoValue
INVARIANTS NoSlotRace
PROPERTY ImplementsFifo
