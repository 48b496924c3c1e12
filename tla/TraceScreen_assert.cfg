SPECIFICATION TraceSpec
CONSTANTS
    Chars = {1, 2}
    IncModeMax = 1
    PipeSize = 3
    StdioSize = 2
    ChunkSize = 1
    MaxOutput = 3
INVARIANTS
    NoAssertionFails
CHECK_DEADLOCK FALSE
