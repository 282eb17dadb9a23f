SPECIFICATION FairSpec
CONSTANTS
    Bindings <- MCBindings
    StoreSets <- MCStoreSets
    Keys = {1, 2, 3}
    Matches <- MCMatches
    Kind <- MCKind
    Watchers = {w1}
    Uploads = {u1, u2, u3, u4}
    KeyOf <- MCKeyOf
    IdemOf <- MCIdemOf
    NoKey = NoKey
    MaxFaults = 2
    MaxRows = 2
    u1 = u1 u2 = u2 u3 = u3 u4 = u4 k1 = k1 k3 = k3 gl = gl hr = hr ar = ar
INVARIANT LoadedOnce
PROPERTY EveryFileFires
