SPECIFICATION Spec
CONSTANTS
  Runs = {r1, r2, r3}
  Managed = {"files"}
  Keep <- KeepOne
  Days <- OneDay
  Faults = {"crash", "store", "worm"}
  MaxTime = 3
  MaxLoads = 1
SYMMETRY RunSymmetry
INVARIANTS
  KeepsNewest
  BundleIsOwn
PROPERTIES
  ManifestOutlives
\* The system rests once every run has ended.
CHECK_DEADLOCK FALSE
