SPECIFICATION Spec
CONSTANTS
  Vertices = 5
  MaxSegments = 4
  MaxCandidates = 2
  MinCruise = 1
  Cruise = 3
  Declared <- ManyDeclarations
INVARIANTS HardLimitsKept ParametersRestored PhaseLabelsHonest SeamsExact SuccessMeansAsked FitForFlight
PROPERTIES Contract
