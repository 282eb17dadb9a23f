SPECIFICATION RSpec
CONSTANTS
  Runs = {r1, r2}
  Ops = {o1}
  Managed = {"clickhouse"}
  Keep <- KeepLast
  Days <- NoDays
  Faults = {}
  MaxTime = 2
  MaxLoads = 1
  OpsFail = FALSE
  Quiet = TRUE
PROPERTIES
  VerifiedBeforeTouched
\* The system rests once every run and restore has ended.
CHECK_DEADLOCK FALSE
