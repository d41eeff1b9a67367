CONSTANTS
  r1 = r1
  r2 = r2
  r3 = r3
  i1 = i1
  i2 = i2
  NULL = NULL
  Requests <- ThreeRequests
  Investors <- TwoInvestors
  Amounts = {0, 1, 2}
  PercentToSell = 3
  InitialRemaining = 3
  PoolSats = 3
  Fee = 1
  MaxInvestors = 100
  MaxFaults = 1
  MaxCrashes = 1
SPECIFICATION Spec
SYMMETRY SymmetryThree
CHECK_DEADLOCK FALSE
INVARIANTS
  UnsoldInOneOutput
  StaleOutpointExplained
  InvestorsCounted
  QuietSharesTrace
PROPERTIES
  AdvanceFollowsChain
  ImplementsOffering
