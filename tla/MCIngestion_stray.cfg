SPECIFICATION Spec
CONSTANTS
  gl = gl
  dim = dim
  jan = jan
  feb = feb
  whole = whole
  NoReq = NoReq
  Bindings = {gl}
  Periods = {jan, feb}
  Snap = whole
  SnapshotBindings = {}
  Checks <- MCNoChecks
  Stops = {"swap"}
  Faults = {"source"}
  MaxLoads = 2
PROPERTIES
  NeverEmptied
\* The system rests once MaxLoads attempts have ended.
CHECK_DEADLOCK FALSE
