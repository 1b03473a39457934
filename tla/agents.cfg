SPECIFICATION FairSpec
CONSTANTS
  Order <- ThreeOfTaskSpecs
  Supplied <- ThreeAgents
  MaxParallel = 2
  RetryAttempts = 1
  AttemptTimeout = 2
  WorkflowTimeout = 5
INVARIANTS
  TypeOK
  AnswersAreKept
  GapsAreExplained
  EachInItsWave
PROPERTIES
  WorkflowEnds
CHECK_DEADLOCK FALSE
