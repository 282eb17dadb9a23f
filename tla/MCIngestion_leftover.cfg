SPECIFICATION Spec
CONSTANTS
  gl = gl
  dim = dim
  jan = jan
  feb = feb
  whole = whole
  NoReq = NoReq
  Bindings = {gl}
  Periods = {jan, feb}
  Snap = whole
  SnapshotBindings = {}
  Checks <- MCTieOut
  Stops = {"extract", "validate", "swap"}
  Faults = {}
  MaxLoads = 2
INVARIANTS
  FailedChecksMeansBadData
\* The system rests once MaxLoads attempts have ended.
CHECK_DEADLOCK FALSE
