SPECIFICATION Spec
CONSTANTS
  s1 = s1
  s2 = s2
  Symbols <- MCSymbols
  NoSymbol = NoSymbol
  SymbolCount = 1
  InitialSymbolCapital = 4
  Quantities <- MCQuantities
  Prices <- MCPrices
  MaxSequence = 100
  Phases <- MCPhases
  AllocationPct = 75
  Risk = 50
  EligibilityBar = 1
  WriteResults = {TRUE}
  MaxBars = 3
  ReplayPosition <- MCPosition
  RemainRunning = TRUE
  MaxStreams = 1
INVARIANTS
  AcceptedWorkDrained
