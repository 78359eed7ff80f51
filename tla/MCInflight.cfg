SPECIFICATION FairSpec
CONSTANTS
    c1 = c1
    c2 = c2
    k1 = k1
    k2 = k2
    Callers <- MCCallers
    Keys <- MCKeys
    TTL = 1
    RunBound = 0
    MaxLag = 0
    maxInflight = 1
    MaxRuns = 2
    MaxRebinds = 1
    MaxTime = 1
CHECK_DEADLOCK FALSE
INVARIANTS SingleFlight ErrorsNotReplayed StaleConnectionBounded
PROPERTY CallsReturn
