CONSTANTS
  c1 = c1
  c2 = c2
  Flows <- OneClick
  Forms <- TwoForms
  RouteMaxInvestors = 10000000
  MaxInvestors = 100
  MaxFeatures = 20
  MaxFaults = 0
  MaxCrashes = 0
SPECIFICATION Spec
INVARIANTS
  LimitsMatchValidator
CHECK_DEADLOCK FALSE
