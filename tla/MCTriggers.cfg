SPECIFICATION FairSpec
CONSTANTS
    bad = bad gl = gl hr = hr
    p1 = p1 p2 = p2 p3 = p3 p8 = p8 k1 = k1
    Bindings <- MCBindings
    Strategy <- MCStrategy
    FiresAt <- MCFiresAt
    MonthAt <- MCMonthAt
    Lookback = 2
    Fallback = 2
    Safety = 2
    Daemons = {d1}
    MaxTime = 2
    MaxFaults = 1
    Requests = {p1, p2, p3, p8}
    Asks <- MCAsks
    Caller <- MCCaller
    Snapshots = {}
    NoKey = NoKey
    Workers = {w1}
INVARIANTS NoSilentGap AnswerNamesOwnLoad OneLoadPerKey
PROPERTIES NeverDoubleFires WindowsAreServed
\* The clock stops at MaxTime.
CHECK_DEADLOCK FALSE
