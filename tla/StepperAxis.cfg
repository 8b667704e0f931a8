SPECIFICATION AxisSpec
CONSTANTS
  MoveSizes <- SmallMoves
  MaxPosition = 2
  QueueLen = 2
INVARIANTS
  WaitedMeansStill
  MovingMeansPending
  OneEventQueued
PROPERTIES
  WaitsEnd
  ImplementsMotor
