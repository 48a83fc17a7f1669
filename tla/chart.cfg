SPECIFICATION Spec
CONSTANTS
  Width = 1
  Depth = 1
  NoiseFloor = 1
  WeekLen = 2
  AtrLookback = 2
  PartWindow = 3
  HalfLife <- MCHalfLife
  Alias <- MCAlias
  HoldCost = {2}
  MaxCarry = 2
  Horizon <- MCHorizon
  FoldDays = 3
  FillWithin = 1
  StaleView = 5
  Runs <- MCRuns
  Moves <- MCMoves
  Theses <- MCTheses
  Stances <- MCStances
CHECK_DEADLOCK FALSE
INVARIANTS
  NeverRepaints TradeIsOrdered InternalTargetAhead NoCrossAdvice
  PoolsAreUntaken LevelsAgreeWithReview
PROPERTIES
  ReplayIsFinal
