CONSTANTS
    f1 = f1
    f2 = f2
    NoFunctor = NoFunctor
    Functor = {f1, f2}
    Contextual = {f2}
    MaxCalls = 4
    MaxQuits = 2
    SelfQuits = FALSE
SPECIFICATION Spec
CHECK_DEADLOCK FALSE
INVARIANTS
    OwnerKeepsRunning
