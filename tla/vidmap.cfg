SPECIFICATION VidFairSpec
CONSTANTS
    MaxAux = 1
    EarlySwitch = FALSE
    Faults = FALSE
INVARIANTS
    VidTypeOK
    NeverOnAnothersPage
PROPERTIES
    LeakEndsAtTick
    ScreenFollowsTerminal
