SPECIFICATION FairSpec
CONSTANTS
  FullPackets = 2
  HasRemainder = FALSE
  NackCapacity = 4
  HeapIsFresh = FALSE
  InFlight = 2
PROPERTIES
  ClientEnds
CHECK_DEADLOCK FALSE
