\* Alpaca: one client_order_id per candidate, leg statuses, partial entries.
CONSTANTS
  Keys = {k1}
  SymbolOf <- OwnSymbols
  DirectionOf <- AllLong
  Named <- AllNamed
  Venue = "alpaca"
  Lot = 2
  Want = 2
  MinFit = 1
  MaxRisk = 3
  MaxBrackets = 1
  MaxNoise = 2
  Faults = {"again", "partial", "lost", "killed", "crash", "concurrent"}
SPECIFICATION Spec
INVARIANTS
  SettledIsTrue
  ClosedIsFlat
  ClosesMatchFeed
