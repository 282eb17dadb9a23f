SPECIFICATION Spec
CONSTANTS
  gl = gl
  dim = dim
  jan = jan
  feb = feb
  whole = whole
  NoReq = NoReq
  Bindings = {gl}
  Periods = {jan}
  Snap = whole
  SnapshotBindings = {}
  Checks <- MCNoChecks
  Stops = {"swap"}
  Faults = {}
  MaxLoads = 2
INVARIANTS
  ConflictNamesAnother
\* The system rests once MaxLoads attempts have ended.
CHECK_DEADLOCK FALSE
