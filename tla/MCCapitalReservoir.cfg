SPECIFICATION ReservoirSpec
CONSTANTS
  s1 = s1
  s2 = s2
  Symbols <- MCSymbols
  NoSymbol = NoSymbol
  SymbolCount = 1
  InitialSymbolCapital = 3
  Quantities <- MCQuantities
  Prices <- MCPrices
  MaxSequence = 5
SYMMETRY Symmetry
INVARIANTS
  ReservoirTypeOK
  CashConservation
  MemoryTracksLedger
  RunEndReconciles
PROPERTIES
  LedgerSpec
