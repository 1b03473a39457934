SPECIFICATION Spec
CONSTANTS
  Deals <- SomeDeals
  Prices = {5, 8}
  SearchFloor = 12
  Dossiers <- SomeDossiers
  Confidences = {20, 90}
  RetryAttempts = 1
  None = None
INVARIANTS
  TypeOK
  ThresholdsAreTight
  BuyIsSupported
  OffersMeetATarget
  StrongBuyIsRare
  AttemptsAreTold
CHECK_DEADLOCK FALSE
