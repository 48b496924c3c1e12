SPECIFICATION MCSpec
CONSTANTS
    TaskPids = {1, 3}
    FirstColumns <- AllColumns
    FirstHighlight = {TRUE}
    MaxTaskSteps = 2
    MaxPasses = 3
    TASK_COMM_LEN = 3
    Hosts = {"linux", "freebsd", "dragonfly", "openbsd", "netbsd", "darwin", "pcp", "solaris"}
    Arguments <- TheArguments
    Programs <- ThePrograms
    CommNames <- TheNames
    FirstOptions <- TheOptions
    MaxCommandSteps = 1
    RowPids = {1, 2, 99999}
    MaxPid = 100000
    UidsOf <- TheUids
    FiguresOf <- TheFigures
    Sizes <- TheSizes
    ColumnSets <- TheColumns
    ClockSteps <- Forward
    MaxFieldSteps = 3
INVARIANTS
    CommandSound
    RowsSound
PROPERTIES
    FiguresTrue
CHECK_DEADLOCK FALSE
