SPECIFICATION FairCollectorSpec
CONSTANTS
  a = a
  b = b
  x = x
  A = A
  B = B
  Symbols <- MCSymbols
  OfferedSymbols <- MCOffered
  Times <- MCTimes
  Payloads <- MCPayloads
  Observation <- MCOneBarEach
  Partitions <- MCTwoPartitions
  PartitionOf <- MCApart
  BufferCapacity = 1
  FlushCount = 1
  MongoEnabled = TRUE
  MaxBars = 3
  TargetBars = 1
  MaxObservations = 2
  MaxSessions = 2
  MaxFaults = 1
PROPERTIES
  ShutdownEnds
CHECK_DEADLOCK FALSE
