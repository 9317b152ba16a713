SPECIFICATION FairSpec
CONSTANTS
    NumTerminals = 2
    BufferSize = 3
    MaxLine = 1
    Keys = {"letter", "enter", "release"}
    Sizes = {5}
INVARIANTS
    InputTypeOK
PROPERTIES
    QuietRead
    EnterEndsRead
