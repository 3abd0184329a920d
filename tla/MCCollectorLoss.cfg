SPECIFICATION CollectorSpec
CONSTANTS
  a = a
  b = b
  x = x
  A = A
  B = B
  Symbols <- MCSymbols
  OfferedSymbols <- MCOffered
  Times <- MCTimes
  Payloads <- MCPayloads
  Observation <- MCOneBarEach
  Partitions <- MCOnePartition
  PartitionOf <- MCTogether
  BufferCapacity = 1
  FlushCount = 1
  MongoEnabled = FALSE
  MaxBars = 0
  TargetBars = 0
  MaxObservations = 3
  MaxSessions = 1
  MaxFaults = 0
INVARIANTS
  AcceptedStaysVisible
CHECK_DEADLOCK FALSE
