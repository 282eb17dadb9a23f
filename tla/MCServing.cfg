SPECIFICATION FairSpec
CONSTANTS
  u = u
  v = v
  w = w
  p = p
  q = q
  r1 = r1
  r2 = r2
  r3 = r3
  r4 = r4
  j1 = j1
  j2 = j2
  Jobs = {j1, j2}
  Ids = {u, v, w}
  Profiles = {p, q}
  Requests = {r1, r2, r3, r4}
  Standard = p
  NoRow = NoRow
  Box = Box
  UserCap = 1
  BoxCap = 2
  Tools <- MCTools
  Definitions <- MCDefinitions
  Loads <- MCLoads
INVARIANTS SlotsAccounted OneUserCannotStarve DisabledStaysOut CreatedUserIsWhole
PROPERTY NeverHangs
CHECK_DEADLOCK FALSE
