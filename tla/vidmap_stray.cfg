SPECIFICATION VidSpec
CONSTANTS
    MaxAux = 1
    EarlySwitch = FALSE
    Faults = FALSE
PROPERTIES
    SwitchMapsOwnFrame
CHECK_DEADLOCK FALSE
