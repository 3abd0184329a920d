SPECIFICATION PipelineSpec
CONSTANTS
  s1 = s1
  s2 = s2
  Symbols <- MCSymbols
  NoSymbol = NoSymbol
  SymbolCount = 1
  InitialSymbolCapital = 4
  Quantities <- MCQuantities
  Prices <- MCPrices
  MaxSequence = 100
  Phases <- MCPhases
  AllocationPct = 75
  Risk = 50
  EligibilityBar = 1
  WriteResults = {TRUE, FALSE}
  MaxBars = 6
SYMMETRY Symmetry
INVARIANTS
  PipelineTypeOK
  AccountsMatchReservoir
  RealizedProfitAgrees
  ConfirmedPurchaseIsAffordable
  FlatInLiquidate
  HeldAboveStop
PROPERTIES
  HonoursReservoirContract
