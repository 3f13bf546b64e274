SPECIFICATION Spec
CONSTANTS
    EdOrder <- EdgePoints
    EdWritable = {"p"}
    EdValues = {1, 2}
    EdTasks = {"t1"}
    MaxDrift = 1
    MaxEdFaults = 2
    LkAddrs <- Addresses
    LkSenders = {"a", "b", "c"}
    LkAllowed = {"a", "b"}
    LkReadOnly = FALSE
    BackoffCap = 3
    MaxFlaps = 3
    MaxDatagrams = 4
    Devices = {"d1", "s0"}
    Placeholders = {"s0"}
    Rescans = {"r1", "r2"}
    MaxPlugs = 3
    MonitorMax = 2
    CoRoles = {1, 2}
    MaxRuns = 2
    MaxChunks = 3
    MaxAccess = 2
    LogIds = {"m"}
    LogKeep = 2
    MaxLogLines = 3
    MaxLogEdits = 4
    MaxControls = 2
PROPERTIES
    
    
    WatcherSettles
    ConsoleEnds
    
    StopsWhole
CHECK_DEADLOCK FALSE
