SPECIFICATION FairSpec
CONSTANTS
  gl = gl
  dim = dim
  jan = jan
  feb = feb
  whole = whole
  NoReq = NoReq
  Bindings = {gl, dim}
  Periods = {jan}
  Snap = whole
  SnapshotBindings = {dim}
  Checks <- MCTwoChecks
  Stops = {"extract", "swap"}
  Faults = {"crash", "clickhouse", "metadata", "postgres"}
  MaxLoads = 2
PROPERTIES
  PublishesOrGivesUp
  LockIsReleased
\* The system rests once MaxLoads attempts have ended.
CHECK_DEADLOCK FALSE
