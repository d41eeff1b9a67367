CONSTANTS
  t1 = t1
  t2 = t2
  alice = alice
  bob = bob
  OldUser = alice
  None = None
  Tabs <- TwoTabs
  InUse <- OneTab
  Identities <- TwoIdentities
  MaxRequests = 2
  MaxHandshakes = 2
  MaxEvents = 1
  MaxFaults = 1
SPECIFICATION FairSpec
CHECK_DEADLOCK FALSE
INVARIANTS
  ProofActsOnce
  NoRedirectLoop
PROPERTIES
  LiveSessionStays
  EveryPageSettles
