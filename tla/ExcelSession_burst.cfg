SPECIFICATION FairSpec
CONSTANTS
  Calls = {c1, c2, c3}
  MaxInflight = 2
  Rotates = TRUE
  Faults = {"network", "session", "disconnect"}
  MaxToken = 5
INVARIANTS
  SlotsAccounted
PROPERTIES
  EveryCallEnds
\* The system rests once every call has ended.
CHECK_DEADLOCK FALSE
