\* The two machines' reconciles race, rclone fails, sessions die.
CONSTANTS
  Shared = 1
  MaxRows = 2
  Faults = {"race", "outage", "crash"}
SPECIFICATION FairSpec
INVARIANTS
  OwnOrderKept
  NoRowTwice
  VaultFollows
PROPERTIES
  LocalOnlyGrows
  LaptopCatchesUp
