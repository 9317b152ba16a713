SPECIFICATION FairSpec
CONSTANTS
    NumFds = 4
    BlockSize = 2
    MaxName = 2
    Directory <- MCDirectory
    Inodes <- MCInodes
    Data <- MCData
    Text <- MCText
    Names <- MCNames
    Sizes = {0, 1, 3}
    ArgsSize = 4
    Words <- MCWords
    Texts <- MCTexts
    Gaps = {0, 1, 2, 3}
    Lengths <- MCLengths
INVARIANTS
    FilesTypeOK
    InOrder
    CleanStart
    NullRefused
    ArgumentsWhole
PROPERTIES
    ZeroMeansEnd
    ReadingEnds
