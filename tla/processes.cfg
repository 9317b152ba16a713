SPECIFICATION FairSpec
CONSTANTS
    MaxAux = 3
    EarlySwitch = FALSE
    Faults = TRUE
INVARIANTS
    TypeOK
    SlotsMatch
    LinksInverse
    ChainsPartition
    CurrentIsTop
    ResumeFrameLive
    ReturnFrameLive
    NoPendingShell
PROPERTIES
    LaunchIntoFreeSlot
    SwitchToSuspended
    HaltKeepsThread
    EveryThreadRuns
    StacksSpec
CHECK_DEADLOCK FALSE
