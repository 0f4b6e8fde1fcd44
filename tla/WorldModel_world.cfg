SPECIFICATION Spec
CONSTANTS
  MaxLegs = 2
  Lexicographic = TRUE
  Geometries = {small, wide}
  Elevations = {e1, e2}
  NoMap = NoMap
  NoVoxel = NoVoxel
  NoGrid = NoGrid
  MissionGrid = MissionGrid
  ConfiguredVoxel = NoVoxel
  Obstacles = {o1, o2}
  Zones = {z1}
  StartupZones <- StartWithAZone
  MaxZones = 1
  MaxGeneration = 4
  MaxEpoch = 2
INVARIANTS DeferredAreFlushed ObstaclesOfThisWorld DerivedFromCurrentDem JudgedOnCurrentWorld
PROPERTIES ObstaclesSurvive
SYMMETRY WorldSymmetry
