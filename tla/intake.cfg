SPECIFICATION FairSpec
CONSTANTS
  None = None
  Listings <- SomeListings
  Payloads <- SomePayloads
  MaxRedirects = 2
  FormFields = {"asking_price"}
  Entries = {"typed"}
  Tabs = {"tab1", "tab2"}
  Hasty = {"tab1"}
  MaxSaves = 2
INVARIANTS
  TypeOK
  BestSourceWins
  CopiesAgree
  PricedAsVerified
PROPERTIES
  ExtractionEnds
  LostOnlyWhenStale
  EndIsShown
CHECK_DEADLOCK FALSE
