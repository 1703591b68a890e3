CONSTANTS
    core = core
    gui1 = gui1
    gui2 = gui2
    pa = pa
    pb = pb
    pc = pc
    k1 = k1
    k2 = k2
    v1 = v1
    v2 = v2
    v3 = v3
    Proc = {core}
    Core = core
    Page = {pa, pb}
    Threaded = {pa}
    ProcOf <- ProcOfOne
    Key = {k1, k2}
    Value = {v1, v2}
    Accepts <- AcceptsSome
    Invalid = Invalid
    Absent = Absent
    NoPage = NoPage
    MaxChanges = 4
    MaxNesting = 2
    SameStamp = TRUE
    DiskFails = TRUE
SPECIFICATION Spec
CHECK_DEADLOCK FALSE
INVARIANTS
    PagePendingExact
    PagesAgree
PROPERTIES
    OwnChangeKept
