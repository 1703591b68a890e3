CONSTANTS
    core = core
    gui1 = gui1
    gui2 = gui2
    pa = pa
    pb = pb
    pc = pc
    k1 = k1
    k2 = k2
    v1 = v1
    v2 = v2
    v3 = v3
    Proc = {core, gui1, gui2}
    Core = core
    Page = {pa, pb, pc}
    Threaded = {pa, pb}
    ProcOf <- ProcOfThree
    Key = {k1}
    Value = {v1, v2}
    Accepts <- AcceptsSome
    Invalid = Invalid
    Absent = Absent
    NoPage = NoPage
    MaxChanges = 3
    MaxNesting = 0
    SameStamp = FALSE
    DiskFails = FALSE
SPECIFICATION Spec
CHECK_DEADLOCK FALSE
INVARIANTS
    CachePendingExact
    CachesAgree
    SavedOnDisk
PROPERTIES
    EventuallyConverged
