SPECIFICATION FairSpec
CONSTANTS
    MaxFreq = 12
    TopFreq = 256
    MaxRate = 8
    DefaultFreq = 3
    CounterMod = 16
    Requests = {2, 3, 4}
    Selected = {1, 3}
INVARIANTS
    RtcTypeOK
    NeverFrozen
PROPERTIES
    OwnTickEndsRead
    EveryReadReturns
