SPECIFICATION FairSpec
CONSTANTS
  MoveSizes <- SmallMoves
  MaxPosition = 2
  QueueLen = 1
INVARIANTS
  DriverTypeOK
  NoDeadTimer
  PositionIsTrue
  PinLowAtRest
  GoalKept
  CompletionsExact
PROPERTY
  MovementsEnd
