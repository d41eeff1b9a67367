CONSTANTS
  t0 = t0
  t1 = t1
  t2 = t2
  t3 = t3
  Txids <- AllTxids
  Mint = t0
  MaxShares = 3
  MaxMigrations = 2
  MaxStarts = 2
  MaxFaults = 1
SPECIFICATION BootSpec
SYMMETRY Symmetry
CHECK_DEADLOCK FALSE
INVARIANTS
  TraceIsLineage
PROPERTIES
  TraceIsStable
  ImplementsShareRecords
