CONSTANTS
  a = a
  b = b
  c = c
  NULL = NULL
  NoLink = NoLink
  Properties <- ThreeProperties
  Price <- ThePrice
  Yield <- TheYield
  InitialStatus <- SomeStatus
  PageSize = 2
  Inputs <- OneInput
  Links <- OneLink
  MaxVisits = 2
  MaxChanges = 1
  MaxEdits = 1
  MaxDisturbances = 1
SPECIFICATION FairSpec
CHECK_DEADLOCK FALSE
INVARIANTS
  PagesCoverMatches
  SettledIsCurrent
  NothingFoundIsTrue
PROPERTIES
  BackRestoresView
  SearchSettles
