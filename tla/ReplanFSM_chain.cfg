SPECIFICATION Spec
CONSTANTS
  Missions = {A, B}
  NoMission = NoMission
  MaxSeq = 1
  Drones = {0, 1}
  DroneId = 0
  ChainEnable = TRUE
  MaxStartFailures = 2
INVARIANTS DedupExact FliesWhatWasPublished NoStaleStart GivenUpBehindAHover
PROPERTIES PublishesNewest ImplementsLifecycle AcceptedIsPublished MissionEnds
