SPECIFICATION EchoSpec
CONSTANTS
    NumTerminals = 2
    BufferSize = 11
    MaxLine = 5
    Rows = 2
    Cols = 6
    Prompt = 1
    Keys = {"letter", "tab", "backspace", "enter", "clear", "release"}
    Sizes = {}
INVARIANTS
    LineWhole
    CursorBounded
    CursorTracksLine
VIEW LinesView
CONSTRAINT From0At2
CHECK_DEADLOCK FALSE
