SPECIFICATION Spec
CONSTANTS
  Workers = {w1}
  Properties = {p1}
  Analyses = {a1}
  Assumptions = {x1}
  Contexts = {c1}
  None = None
  MaxRevision = 1
  MaxFaults = 0
  MaxCrashes = 0
INVARIANTS
  CommitteeSeesDecisionContext
CHECK_DEADLOCK FALSE
