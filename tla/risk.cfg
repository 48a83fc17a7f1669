\* Two venues, four candidates, several sittings; a venue may not answer.
CONSTANTS
  a1 = a1
  a2 = a2
  h1 = h1
  h2 = h2
  Keys <- AllKeys
  Route <- TwoEach
  Allowance <- Allowances
  Budget <- Budgets
  Power = 20
  Price = 3
  Lot = 2
  MinFill = 50
  MinNotional = 4
  Caps = {1, 3}
  Faults = {"silent", "broke"}
SYMMETRY VenueSymmetry
SPECIFICATION Spec
INVARIANTS
  TypeOK
  PooledCeiling
  PowerCoversOrders
  SizeIsSmallestCeiling
