SPECIFICATION FairSpec
CONSTANTS
  MallocFails = FALSE
  PrintfCancels = TRUE
  PacketNumber = 3
  BucketSize = 2
  PacketSizes = {2}
PROPERTIES
  AdmittedReachesServer
  EmulationEnds
  StatisticsUnlessBlocked
  ImplementsFilter
CHECK_DEADLOCK FALSE
