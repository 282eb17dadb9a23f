SPECIFICATION RSpec
CONSTANTS
  Runs = {r1, r2}
  Ops = {o1}
  Managed = {"postgres", "clickhouse"}
  Keep <- KeepLast
  Days <- NoDays
  Faults = {"crash"}
  MaxTime = 2
  MaxLoads = 1
  OpsFail = TRUE
  Quiet = TRUE
INVARIANTS
  SnapshotOrderUntilRestored
  DrillSuccessMeansMatch
PROPERTIES
  NoForceNoLoss
  RestoredTogether
\* The system rests once every run and restore has ended.
CHECK_DEADLOCK FALSE
