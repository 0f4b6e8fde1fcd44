SPECIFICATION Spec
CONSTANTS
  Pool <- SmallPool
  Scenes <- LowGoalScenes
  Weights <- MCWeights
  CoarseK = 2
  Lift = 2
  Lexicographic = TRUE
  Star = TRUE
  BlockedSlow = 40
  StallGap = 4
  SurfaceSlack = 1
  MaxCells = 100
  NearSq = 4
  GuardRounds = 4
  LiftCap = 40
  SweepRounds = 12
INVARIANT SweepSettles
