SPECIFICATION FairSpec
CONSTANTS
  gl = gl
  dim = dim
  jan = jan
  feb = feb
  whole = whole
  NoReq = NoReq
  Bindings = {dim}
  Periods = {jan}
  Snap = whole
  SnapshotBindings = {dim}
  Checks <- MCTwoChecks
  Stops = {"swap"}
  Faults = {"clickhouse", "lockconn"}
  MaxLoads = 2
PROPERTIES
  EveryAttemptFinishes
\* The system rests once MaxLoads attempts have ended.
CHECK_DEADLOCK FALSE
