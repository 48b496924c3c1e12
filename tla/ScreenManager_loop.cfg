SPECIFICATION FairSpec
CONSTANTS
    Delay = 2
    ResetSort = 2
    CloseLimit = 4
    MaxOdd = 2
    MaxPanels = 2
INVARIANTS
    ListCurrent
    FocusLive
PROPERTIES
    ClosesWithTerminal
    SortedInTime
