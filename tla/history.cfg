\* Three rows of which one is another account's, one to a page.
SPECIFICATION FairHistory
CONSTANTS
  Rows = {1, 2, 3}
  Outsiders = {2}
  FirstDay = 4
  LastDay = 5
  HistoryFloor = 3
  Resettle = 1
  PageSize = 1
  MaxEdits = 2
  MaxFaults = 1
  Failures = {"page", "blank", "short", "killed"}
  Stables <- MCStables
  Native <- MCNative
  ContractTicker <- MCContractTicker
  ForeignFiat <- MCForeignFiat
  Renames <- MCRenames
  MaxPages = 2
  Starter <- MCStarter
  MinValue = 5
  HalfLives <- MCHalfLives
  AllKinds <- MCAllKinds
  HorizonSlack <- MCHorizonSlack
  UnpricedSlack = 2
  Tolerance = 25
  SeriesFor <- MCSeriesFor
  MaxCarry = 4
  DomainKey <- MCDomainKey
CHECK_DEADLOCK FALSE
PROPERTIES
  NothingStandingIsDropped
  RecentRowsAreKept
