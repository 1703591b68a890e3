CONSTANTS
    a = a
    b = b
    m1 = m1
    m2 = m2
    Callsign = {a, b}
    Model = {m1, m2}
    Fits <- Matched
    NoModel = NoModel
    Nothing = Nothing
    Id = {1, 2, 3}
    MaxFailed = 1
    MaxGone = 1
    MaxAsks <- Asks
    MaxFaults = 1
SPECIFICATION Spec
CHECK_DEADLOCK FALSE
INVARIANTS
    OnePendingAdd
    RenderedIsShown
    NoGhosts
    NotLost
PROPERTIES
    EventuallyAdded
    EventuallyRemoved
