SPECIFICATION Spec
CONSTANTS
  None = None
  Limit = 2
  Selections <- SomeSelections
  Statuses = {"leased"}
  Contexts <- SomeContexts
  SalesResult <- Sales
  FieldFacts <- SomeFacts
  FieldSpecs <- BedroomsOnly
  Answers <- SomeAnswers
INVARIANTS
  BestComparablesAreKept
  FindingsAreKept
  DisagreementsCount
  EvidenceResolves
CHECK_DEADLOCK FALSE
