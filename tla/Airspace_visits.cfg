SPECIFICATION Spec
CONSTANTS
    c1 = c1
    Callsign <- MCCallsign
    CheckAgain = 1
    MaxAge = 1
    Threshold = 2
    VerifyAfter = 3
    MaxVisits = 2
    MaxDrops = 1
    MaxReinits = 1
INVARIANTS
    NotForgotten
    CleanOffline
    SentMeansKnown
PROPERTY EventuallyKnown
