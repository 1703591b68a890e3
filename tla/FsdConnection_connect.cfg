SPECIFICATION Spec
CONSTANTS
    Timeout <- MCTimeout
    CheckAfter <- MCCheckAfter
    MaxAttempts = 2
    MaxPosted = 2
    MaxQueue = 2
INVARIANTS
    PendingIsWatched
    DisconnectedIsQuiet
    MessagesOfThisConnection
    ConnectedIsOpen
PROPERTY PendingEnds
CHECK_DEADLOCK FALSE
