SPECIFICATION Spec
CONSTANTS
  TargetGoals <- TwoGoals
  StarDiameters <- Diameters
  ScanLimits = {0, 1}
  Revolution = 2
  HomeGoals = {1}
INVARIANTS
  ReadyMeansStill
  FlashOnTarget
  RestsWhereCommanded
  PatternAroundGoal
PROPERTIES
  RoutinesEnd
  NoCallWhileMoving
