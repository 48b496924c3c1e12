SPECIFICATION MCSpec
CONSTANTS
    m1 = m1
    m2 = m2
    Meter <- TheMeters
    Modes <- TheModes
    StartLength = 1
    Layouts <- TheLayouts
    FieldFlags <- TheFieldFlags
    DynamicKeys = {9}
    FirstFields <- TheFirstFields
    Schemes = 3
    Numbers <- TheNumbers
    MaxColumns = 4
    MaxSetupSteps = 5
    cpu = cpu
    mem0 = mem0
    tasks = tasks
    Broken = Broken
    Names <- TheNames
    Absent = Absent
    UserSettings <- TheUserSettings
    Defaults <- TheDefaults
    OtherFiles <- TheOtherFiles
    AffinityBuilds = {"hwloc", "sched"}
    Topology <- TheTopology
    LongBits = 3
    MaxAffinitySteps = 4
INVARIANTS
    HeaderSound
    FilesWhole
PROPERTIES
    MetersKept
    SetupSound
    MigrationSafe
    AffinitySound
SYMMETRY Alike
CHECK_DEADLOCK FALSE
