SPECIFICATION Spec
CONSTANTS
  Points <- McPoints
  Objectives <- McObjectives
  Seed = 1
  MemSize = 2
  Past = 2
  MaxIterations = 4
  MaxTrials = 3
  MaxRestarts = 2
  MaxBudgetEntries = 1
  CollisionReject = TRUE
  EnvReject = TRUE
  DynamicsEnable = TRUE
  EnvMax = 25
  EnvHardMax = 30
INVARIANTS FlownIsBest JudgedByThisFlight MemoryIsRecentPairs
PROPERTY SolveEnds
