\* Two places for three candidates, one day's turn, one market move or one death.
CONSTANTS
  HoldDays = 21
  ShrinkSessions = 2
  HeadSize = 1
  Pop <- MCPop
  About <- MCAbout
  Router <- MCRouter
  Limit = 2
  Stratified = TRUE
  DefaultVenue = "hyperliquid"
  Adapters = {"alpaca", "hyperliquid"}
  Draws <- MCDraws
  MaxDays = 1
  MaxMoves = 1
  MaxKills = 1
  MaxUpsets = 1
CHECK_DEADLOCK FALSE
SPECIFICATION FairSpec
INVARIANTS
  ApprovedIsNoted
  ApprovalLeavesATrace
PROPERTY
  EveryCandidateIsReviewed
