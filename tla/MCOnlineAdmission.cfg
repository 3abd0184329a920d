SPECIFICATION OnlineSpec
CONSTANTS
  a = a
  b = b
  live = live
  recovery = recovery
  Symbols <- MCSymbols
  LiveBars <- MCLiveBars
  FilledBars <- MCFilledBars
  Producers <- MCProducers
  Live = live
  WindowLimit = 2
  Queue = 1
  MaxBars = 3
  Attempts = 2
  FinalizedOnly = TRUE
INVARIANTS
  AdmissionIsContiguous
  FirstStreamAscends
  HolesComeFromTheQueue
PROPERTIES
  RejectionIsFinal
CHECK_DEADLOCK FALSE
