CONSTANTS
  u1 = u1
  u2 = u2
  h1 = h1
  h2 = h2
  l1 = l1
  l2 = l2
  c1 = c1
  p1 = p1
  p2 = p2
  Users <- TwoUsers
  Held <- TwoHoldings
  Listings <- TwoListings
  Cancels <- OneCancel
  Purchases = {}
  MaxFaults = 0
  MaxCrashes = 0
SPECIFICATION Spec
CHECK_DEADLOCK FALSE
INVARIANTS
  CancelRemovesListing
