SPECIFICATION Spec
CONSTANTS
    NumTerminals = 2
    Rows = 2
    Cols = 2
    LineColumn = 1
    PromptLength = 1
    Outputs <- MCOutputs
INVARIANTS
    ScreenTypeOK
    CursorFollows
PROPERTIES
    ScreensSpec
CHECK_DEADLOCK FALSE
