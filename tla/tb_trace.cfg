SPECIFICATION Spec
CONSTANTS
  MallocFails = TRUE
  PrintfCancels = TRUE
  PacketNumber = 4
  BucketSize = 2
  PacketSizes = {1, 2, 3}
INVARIANTS
  NoLostWakeup
  InOrder
  Accounted
  DrainedAtEnd
CHECK_DEADLOCK FALSE
