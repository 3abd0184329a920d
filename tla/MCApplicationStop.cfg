SPECIFICATION FairSpec
CONSTANTS
  s1 = s1
  s2 = s2
  Symbols <- MCSymbols
  NoSymbol = NoSymbol
  SymbolCount = 1
  InitialSymbolCapital = 4
  Quantities <- MCQuantities
  Prices <- MCPrices
  MaxSequence = 100
  Phases <- MCPhases
  AllocationPct = 75
  Risk = 50
  EligibilityBar = 1
  WriteResults = {TRUE}
  MaxBars = 1
  ReplayPosition <- MCPosition
  RemainRunning = FALSE
  MaxStreams = 1
PROPERTIES
  ShutdownReachesStopped
