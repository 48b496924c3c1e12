SPECIFICATION Spec
CONSTANTS
    Pid <- TwoPids
    MaxInc = 1
    MaxTime = 2
    Delay = 1
    Toggles <- PauseCommands
    NoTask = NoTask
    NoRow = NoRow
INVARIANTS
    TreeSetSized
