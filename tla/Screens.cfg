SPECIFICATION MCSpec
CONSTANTS
    Chars = {1, 2}
    IncModeMax = 2
    PipeSize = 3
    StdioSize = 3
    ChunkSize = 2
    MaxOutput = 9
    Lists <- TheLists
    Message <- TheMessage
    MaxReads = 2
    Cols = 3
    MaxCommand = 6
INVARIANTS
    ShowsSnapshot
    WrapsAtSpaces
PROPERTIES
    CursorSound
    OutputShown
CHECK_DEADLOCK FALSE
