CONSTANTS
    a = a
    b = b
    c = c
    k1 = k1
    k2 = k2
    k3 = k3
    v1 = v1
    v2 = v2
    v3 = v3
    NoValue = NoValue
    NoProc = NoProc
    Proc = {a, b}
    Key = {k1}
    Value = {v1, v2}
    Pinned = {}
    Deferred = {}
    Knows <- KnowsAll
    Writes <- WritesOwn
    MaxSets = 2
    MaxStops = 0
    MaxLoads = 0
    Overtake = TRUE
    Repeat = FALSE
SPECIFICATION Spec
CHECK_DEADLOCK FALSE
PROPERTIES
    EventuallyDistributed
