SPECIFICATION VoiceSpec
CONSTANTS
    MaxSessions = 2
    MaxChains = 2
    MaxRenewals = 1
    MaxNested = 2
INVARIANTS
    ConnectedBeats
    AlwaysTrying
PROPERTIES
    EventuallyConnected
    EventuallyLoggedOff
