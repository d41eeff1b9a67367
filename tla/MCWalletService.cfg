CONSTANTS
  r1 = r1
  r2 = r2
  b1 = b1
  Callers <- TwoRoutes
  Borrowers <- OneProbe
  MaxBuilds = 2
  Nobody = Nobody
  MaxActions = 3
  Nested <- LastNests
SPECIFICATION FairServiceSpec
CHECK_DEADLOCK FALSE
INVARIANTS
  DepthIsExact
  OneQueue
  FailureIsForgotten
PROPERTIES
  ImplementsSerialExecutor
  NestedNeverFinishes
  EveryCallerAnswered
