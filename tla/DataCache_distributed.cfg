CONSTANTS
    a = a
    b = b
    c = c
    k1 = k1
    k2 = k2
    k3 = k3
    v1 = v1
    v2 = v2
    v3 = v3
    NoValue = NoValue
    NoProc = NoProc
    Proc = {a, b}
    Key = {k1, k2, k3}
    Value = {v1, v2, v3}
    Pinned = {k1}
    Deferred = {k3}
    Knows <- KnowsAll
    Writes <- WritesA
    MaxSets = 3
    MaxStops = 1
    MaxLoads = 1
    Overtake = FALSE
    Repeat = FALSE
SPECIFICATION Spec
CHECK_DEADLOCK FALSE
INVARIANTS
    StampsTellValues
PROPERTIES
    EventuallyDistributed
