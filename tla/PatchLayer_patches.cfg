SPECIFICATION Spec
CONSTANTS
  Leader = leader
  Planners = {leader, other}
  Workers = {worker}
  Writers = {w1, w2}
  TeamOf <- OneTeam
  Obstacles = {o1, o2}
  Nobody = Nobody
  Freed = Freed
  NoAnswer = NoAnswer
  MaxRevision = 4
INVARIANTS NoTornScan GateTellsTheTruth
PROPERTIES ImplementsObstacleSet
SYMMETRY ObstacleSymmetry
