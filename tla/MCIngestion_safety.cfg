SPECIFICATION Spec
CONSTANTS
  gl = gl
  dim = dim
  jan = jan
  feb = feb
  whole = whole
  NoReq = NoReq
  Bindings = {gl, dim}
  Periods = {jan, feb}
  Snap = whole
  SnapshotBindings = {dim}
  Checks <- MCTwoChecks
  Stops = {"extract", "validate", "swap"}
  Faults = {"crash", "clickhouse", "metadata", "postgres"}
  MaxLoads = 2
SYMMETRY PeriodSymmetry
INVARIANTS
  IInv
  LiveUnmixed
  LiveOnlyGated
  MutualExclusion
  FailedIsNotLive
PROPERTIES
  SuccessIsLive
  NeverEmptied
  Publishes
\* The system rests once MaxLoads attempts have ended.
CHECK_DEADLOCK FALSE
