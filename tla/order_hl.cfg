\* Hyperliquid: re-entry after a kill, no leg statuses, unnamed orders.
CONSTANTS
  Keys = {k1}
  SymbolOf <- OwnSymbols
  DirectionOf <- AllLong
  Named <- SomeNamed
  Venue = "hyperliquid"
  Lot = 1
  Want = 2
  MinFit = 1
  MaxRisk = 3
  MaxBrackets = 3
  MaxNoise = 2
  Faults = {"again", "unnamed", "crash", "concurrent"}
SPECIFICATION Spec
INVARIANTS
  TypeOK
  OneBracketPerKey
  GuardCoversPosition
PROPERTY
  LedgerSpec
