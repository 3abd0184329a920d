SPECIFICATION CollectorSpec
CONSTANTS
  a = a
  b = b
  x = x
  A = A
  B = B
  Symbols <- MCSymbols
  OfferedSymbols <- MCOffered
  Times <- MCTimes
  Payloads <- MCPayloads
  Observation <- MCObservation
  Partitions <- MCOnePartition
  PartitionOf <- MCTogether
  BufferCapacity = 1
  FlushCount = 2
  MongoEnabled = TRUE
  MaxBars = 0
  TargetBars = 0
  MaxObservations = 3
  MaxSessions = 1
  MaxFaults = 1
INVARIANTS
  MongoTrailsByABatch
  FileExplainsItself
  LossIsCritical
  ReplayAdmitsEveryDocument
PROPERTIES
  JsonlFollowsNumbering
  MongoFollowsNumbering
CHECK_DEADLOCK FALSE
