SPECIFICATION MCSpec
CONSTANTS
    NCPU = 3
    MaxTime = 1
    MaxChanges = 2
    FreqTimeout = 1
    Platforms = {"freebsd", "dragonfly", "openbsd", "netbsd", "darwin", "solaris", "pcp"}
    MaxPid = 4
    MaxKernSteps = 2
    CPUSystems = {"freebsd", "dragonfly", "openbsd", "netbsd", "darwin", "solaris", "pcp"}
    MaxCPUs = 2
    MaxClicks = 3
    MemorySystems = {"linux", "pcp", "freebsd", "dragonfly", "openbsd", "netbsd", "solaris", "darwin"}
    Pages = 4
    MaxMoves = 1
    MeterSystems = {"linux", "freebsd", "netbsd", "openbsd", "dragonfly", "darwin", "pcp"}
    MeterKinds = {"disk", "network", "battery", "systemd"}
    Lines <- TheLines
    TimeSteps <- TheTimeSteps
    HalfSecond = 1
    LongTime = 4
    BatteryTime = 3
    MaxMeterSteps <- TheMeterSteps
    MaxCores = 4
    MaxThreads = 2
    ChipLists <- TheChips
    MaxOff = 2
    BarWidths = {1, 2, 3, 4, 5}
    BarTotals = {1, 4, 10}
    BarValues <- TheBarValues
    BarTexts <- TheBarTexts
    GraphData = 4
    GraphWidths = {0, 1, 2, 3, 4}
    GraphLevels = {0, 1, 5, 9}
    GRAPH_HEIGHT = 2
    PIXPERROW = 2
    Delays = {1, 2}
    GraphSteps <- TheGraphSteps
    MaxGraphSteps = 5
INVARIANTS
    PlatformTrue
    MemoryAddsUp
    ReadingsTrue
    TemperaturesTrue
    DrawnRight
PROPERTIES
    CPUsTrue
    CPUBarsTrue
CHECK_DEADLOCK FALSE
