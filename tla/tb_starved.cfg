SPECIFICATION FairSpec
CONSTANTS
  MallocFails = FALSE
  PrintfCancels = FALSE
  PacketNumber = 2
  BucketSize = 3
  PacketSizes = {1}
PROPERTIES
  AdmittedReachesServer
CHECK_DEADLOCK FALSE
