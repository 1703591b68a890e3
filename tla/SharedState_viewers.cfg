CONSTANTS
    g1 = g1
    g2 = g2
    m1 = m1
    m2 = m2
    Client = {g1, g2}
    Viewer = {g1}
    Element = {m1, m2}
    Filters <- TwoFilters
    MaxFilters = 1
    MaxStops = 1
SPECIFICATION Spec
CHECK_DEADLOCK FALSE
INVARIANTS
    LinkInv
    ViewTracksJournal
    ShownOnce
PROPERTIES
    EventuallyComplete
    ImplementsSharedList
