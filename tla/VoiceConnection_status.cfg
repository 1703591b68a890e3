SPECIFICATION VoiceSpec
CONSTANTS
    MaxSessions = 1
    MaxChains = 1
    MaxRenewals = 1
    MaxNested = 2
INVARIANT AnnouncedStatus
