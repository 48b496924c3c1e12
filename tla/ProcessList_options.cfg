SPECIFICATION FairSpec
CONSTANTS
    Pid <- TwoPids
    MaxInc = 1
    MaxTime = 2
    Delay = 1
    Toggles <- OptionCommands
    NoTask = NoTask
    NoRow = NoRow
INVARIANTS
    TypeOK
    TombsTimely
PROPERTIES
    TombExpires
