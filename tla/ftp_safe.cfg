SPECIFICATION Spec
CONSTANTS
  FullPackets = 2
  HasRemainder = TRUE
  NackCapacity = 2
  HeapIsFresh = TRUE
  InFlight = 3
INVARIANTS
  ZeroMeansFinished
PROPERTIES
  ImplementsTransfer
CHECK_DEADLOCK FALSE
