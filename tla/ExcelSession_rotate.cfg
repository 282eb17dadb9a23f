SPECIFICATION Spec
CONSTANTS
  Calls = {c1, c2, c3}
  MaxInflight = 2
  Rotates = TRUE
  Faults = {}
  MaxToken = 4
PROPERTIES
  OnlyGenuineSignOut
\* The system rests once every call has ended.
CHECK_DEADLOCK FALSE
