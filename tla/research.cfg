SPECIFICATION FairSpec
CONSTANTS
  Order <- ThreeDomains
  Providers <- FewProviders
  ParallelismLimit = 2
  MaxRetries = 1
  Timeout = 1
  CacheEnabled = TRUE
  Ttl = 2
INVARIANTS
  TypeOK
  FailuresAreWarned
  FallbackIsComplete
  CacheIsHonest
PROPERTIES
  ResearchEnds
CHECK_DEADLOCK FALSE
