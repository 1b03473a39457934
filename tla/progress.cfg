SPECIFICATION FairSpec
CONSTANTS
  Workers = {w1}
  Properties = {p1}
  Analyses = {a1, a2}
  Assumptions = {x1}
  Contexts = {}
  None = None
  MaxRevision = 1
  MaxFaults = 1
  MaxCrashes = 1
PROPERTIES
  ScheduledAnalysesSettle
  NothingHangs
CHECK_DEADLOCK FALSE
