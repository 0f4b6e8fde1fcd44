SPECIFICATION Spec
CONSTANTS
  Far = 8
  Water <- McWater
  Scenes <- McScenes
  OptClearance = 5
  Clearance = 6
  RiskMasked = TRUE
  RiskGrounded = TRUE
  MinGoalAgl = 2
  CapHeadroom = 4
  FloorHeadroom = 2
  GroundHeight = 0
  StallFloor = 1
  XyMargin = 1
  ZBelow = 5
  ZAbove = 20
  MidLevels = {8, 13, 18}
  LeadInTime = 1
  CapSlope = 1
  ZoneRelax = 4
  ShadowMargin = 1
  TaperLen = 3
  CommitSwath = 1
  ClimbSlope = 2
  MinWidth = 1
  Cruise = 2
INVARIANTS CapCoversCommitment CapIsOverDecision CorridorOpen LiftsAreHidden
PROPERTY CommitIsCheapest
CHECK_DEADLOCK FALSE
