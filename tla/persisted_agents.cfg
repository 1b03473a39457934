SPECIFICATION Spec
CONSTANTS
  Order <- TaskSpecs
  Supplied <- WithoutListing
  MaxParallel = 4
  RetryAttempts = 1
  AttemptTimeout = 1
  WorkflowTimeout = 3
INVARIANTS
  AgentOutputIsFull
CHECK_DEADLOCK FALSE
