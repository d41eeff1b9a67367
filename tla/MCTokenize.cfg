CONSTANTS
  c1 = c1
  c2 = c2
  Flows <- TwoClicks
  Forms <- AllForms
  RouteMaxInvestors = 10000000
  MaxInvestors = 100
  MaxFeatures = 20
  MaxFaults = 1
  MaxCrashes = 1
SPECIFICATION FairSpec
CHECK_DEADLOCK FALSE
INVARIANTS
  PaymentNonceKept
  UnrecordedIsExplained
PROPERTIES
  MintIsIndexed
  EveryAdminHears
