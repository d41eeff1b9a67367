CONSTANTS
  u1 = u1
  u2 = u2
  h1 = h1
  h2 = h2
  l1 = l1
  l2 = l2
  c1 = c1
  p1 = p1
  p2 = p2
  Users <- TwoUsers
  Held <- OneHolding
  Listings <- OneListing
  Cancels <- OneCancel
  Purchases <- OnePurchase
  MaxFaults = 1
  MaxCrashes = 1
SPECIFICATION FairSpec
CHECK_DEADLOCK FALSE
INVARIANTS
  ListedIsResolvable
  NonceSurvives
PROPERTIES
  RecordsKeepDeeds
  MarketSettles
  EveryClientHears
