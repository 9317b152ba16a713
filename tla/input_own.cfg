SPECIFICATION Spec
CONSTANTS
    NumTerminals = 2
    BufferSize = 4
    MaxLine = 2
    Keys = {"letter", "enter"}
    Sizes = {5}
INVARIANTS
    ReadsOwnTerminal
