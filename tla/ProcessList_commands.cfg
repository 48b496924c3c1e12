SPECIFICATION Spec
CONSTANTS
    Pid <- TwoPids
    MaxInc = 1
    MaxTime = 2
    Delay = 1
    Toggles <- RowCommands
    NoTask = NoTask
    NoRow = NoRow
INVARIANTS
    ScanComplete
    FollowingListed
    TreeSetFresh
PROPERTIES
    PausedFrozen
