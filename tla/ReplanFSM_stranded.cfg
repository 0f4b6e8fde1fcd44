SPECIFICATION SafeSpec
CONSTANTS
  Missions = {A, B}
  NoMission = NoMission
  MaxSeq = 2
  Drones = {0, 1}
  DroneId = 0
  ChainEnable = TRUE
  MaxStartFailures = 10
INVARIANTS NothingStranded
SYMMETRY MissionSymmetry
