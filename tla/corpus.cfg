SPECIFICATION FairSpec
CONSTANTS
  Grace = 2
  MaxLookback = 2
  RevivalWindow = 2
  Lower <- MCLower
  Size = 6
  Overlap = 2
  Canonical <- MCCanonical
  StaleAfter <- MCStaleAfter
  Worlds <- MCWorlds
  AllDocs <- MCAllDocs
  LastDay = 4
  MaxFaults = 1
  MaxSearches = 2
  Limit = 2
  MaxStrikes = 2
  Workers = 2
  Cost = 1
  Cap = 2
  Cut <- MCCut
  Says <- MCSays
  KillsForced = FALSE
CHECK_DEADLOCK FALSE
INVARIANTS
  OnlyHopelessBuried LedgerIsFloor IndexIsCurrent
PROPERTIES
  EveryCaptureIsRead
