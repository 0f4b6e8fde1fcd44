SPECIFICATION Spec
CONSTANTS
  Arcs = {10, 20}
  MaxEntries = 2
  Primitives = 2
  MaxSteps = 2
  DwellSteps = 2
  KnotStep = 2
  Failing = {"terrain", "zone", "limits"}
  MaxFailures = 1
INVARIANTS AuditExplainsTheAnswer HandoffEarned
PROPERTIES Concludes
