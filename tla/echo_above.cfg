SPECIFICATION EchoSpec
CONSTANTS
    NumTerminals = 1
    BufferSize = 11
    MaxLine = 5
    Rows = 2
    Cols = 6
    Prompt = 1
    Keys = {"letter", "backspace", "clear"}
    Sizes = {}
INVARIANTS
    BackspaceStays
VIEW LinesView
