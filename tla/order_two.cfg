\* Two candidates on one instrument, each approved once; passes crash and overlap sessions.
CONSTANTS
  Keys = {k1, k2}
  SymbolOf <- OneSymbol
  DirectionOf <- AllLong
  Named <- AllNamed
  Venue = "alpaca"
  Lot = 1
  Want = 2
  MinFit = 1
  MaxRisk = 3
  MaxBrackets = 2
  MaxNoise = 1
  Faults = {"crash", "concurrent"}
SPECIFICATION FairSpec
INVARIANT
  CeilingHolds
PROPERTIES
  SharedExitsAreOwn
  UnsettledUntilReconciled
  AwaitingUntilClosed
  EveryFinishedTradeIsBooked
