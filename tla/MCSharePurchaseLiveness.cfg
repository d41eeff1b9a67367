CONSTANTS
  r1 = r1
  r2 = r2
  r3 = r3
  i1 = i1
  i2 = i2
  NULL = NULL
  Requests <- TwoRequests
  Investors <- TwoInvestors
  Amounts = {1, 2}
  PercentToSell = 2
  InitialRemaining = NULL
  PoolSats = 2
  Fee = 1
  MaxInvestors = 1
  MaxFaults = 1
  MaxCrashes = 0
SPECIFICATION FairSpec
CHECK_DEADLOCK FALSE
INVARIANTS
  NoFalseRefusal
PROPERTIES
  EveryRequestAnswered
  LocksReleased
