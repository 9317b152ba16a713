SPECIFICATION FairSpec
CONSTANTS
    Startable = {2}
    Aux = {4, 5}
    MaxWords = 24
INVARIANTS
    UserIntact
    NoneInService
PROPERTIES
    EveryTickTaken
CHECK_DEADLOCK FALSE
