CONSTANTS
  r1 = r1
  r2 = r2
  r3 = r3
  i1 = i1
  i2 = i2
  NULL = NULL
  Requests <- TwoRequests
  Investors <- TwoInvestors
  Amounts = {1, 2}
  PercentToSell = 2
  InitialRemaining = 2
  PoolSats = 2
  Fee = 1
  MaxInvestors = 100
  MaxFaults = 0
  MaxCrashes = 0
SPECIFICATION Spec
CHECK_DEADLOCK FALSE
INVARIANTS
  FinalSaleMarksFunded
