\* Three videos of one person over three days, two runs of setups, one order event.
SPECIFICATION Spec
CONSTANTS
  Size = 6
  Overlap = 2
  Canonical <- MCCanonical
  StaleAfter <- MCStaleAfter
  RosterWindow = 2
  RosterMemory = 2
  BackfillSpan = 2
  BackfillMin = 2
  ScanDays = 2
  FirstDays = 1
  ViewMemory = 2
  BookLimit = 2
  Stances <- MCStances
  FirstDay = 5
  LastDay = 7
  MaxEvents = 1
  MaxRuns = 2
  MaxFaults = 1
  Faults = {"mail", "killed", "lost", "narrator"}
CHECK_DEADLOCK FALSE
INVARIANT
  ToldOnce
PROPERTY
  NothingIsForgotten
