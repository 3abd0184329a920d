SPECIFICATION LoadSpec
CONSTANTS
  recovery = recovery
  request = request
  LastMinute = 3
  Readings <- MCReadings
  First = 1
  LiveQueue = 1
  ModelQueue = 1
  Fillers <- MCFillers
  Recovery = recovery
  MaxFlaps = 3
  MaxRequests = 1
  Inbox = 1
INVARIANTS
  VolumeIsCausal
  NoCommitPastLoss
  MissesAreExplained
PROPERTIES
  LoadLossReachesHost
  BreakerSettles
CHECK_DEADLOCK FALSE
