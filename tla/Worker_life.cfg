CONSTANTS
    f1 = f1
    f2 = f2
    NoFunctor = NoFunctor
    Functor = {f1, f2}
    Contextual = {f2}
    MaxCalls = 6
    MaxQuits = 2
    SelfQuits = TRUE
SPECIFICATION Spec
CHECK_DEADLOCK FALSE
INVARIANTS
    CalledOnce
    NoTouchAfterDelete
    WaitedForEnd
PROPERTIES
    LateStartDropped
    CallsReturn
    DeletedAtEnd
