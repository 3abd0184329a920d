SPECIFICATION FanoutSpec
CONSTANTS
  source = source
  main = main
  run = run
  recovery = recovery
  ingestion = ingestion
  observe = observe
  infer = infer
  none = none
  s1 = s1
  s2 = s2
  BusPublishers <- MCBusPublishers
  Streams <- MCStreams
  StreamBuffer = 1
  MaxPublications = 3
  Reporters <- MCReporters
  Ticker = run
  Keys <- MCKeys
  PolledKeys <- MCKeys
  StageStates <- MCStageStates
  Absent = none
  Subscribers <- MCSubscribers
  SubscriberBuffer = 1
  MaxChanges = 1
INVARIANTS
  ReconstructionMatchesDetector
  DroppedTellsLoss
PROPERTIES
  EvidenceIsAFeed
  TransitionsAreAFeed
  FanoutHubCatchesUp
CHECK_DEADLOCK FALSE
