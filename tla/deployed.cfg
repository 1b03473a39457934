SPECIFICATION Spec
CONSTANTS
  Workers = {w1}
  Properties = {p1}
  Analyses = {a1, a2}
  Assumptions = {x1, x2}
  Contexts = {c1}
  None = None
  MaxRevision = 2
  MaxFaults = 1
  MaxCrashes = 1
SYMMETRY Interchangeable
INVARIANTS
  TypeOK
  VersionsFollowSnapshots
  CompletedReportIsWhole
  FailureIsExplained
  FailureStageMatchesResults
  StrandedOnlyByFaults
PROPERTIES
  CompletedIsFrozen
  ImplementsApi
CHECK_DEADLOCK FALSE
