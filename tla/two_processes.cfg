SPECIFICATION Spec
CONSTANTS
  Workers = {w1, w2}
  Properties = {p1, p2}
  Analyses = {a1, a2}
  Assumptions = {x1}
  Contexts = {}
  None = None
  MaxRevision = 1
  MaxFaults = 1
  MaxCrashes = 1
SYMMETRY Interchangeable
INVARIANTS
  TasksMatchRows
  VersionsAreNumbers
  RerunLineage
CHECK_DEADLOCK FALSE
