INIT Init
NEXT Next
CONSTANTS
    Sizes = {1, 2}
    QueueMax = 3
    Batch = 2
    FileLines = 2
    Keeps = {0, 2}
    MaxFed = 8
    MaxFaults = 2
    SpPoints <- SpPointsPQ
    SpDevices <- SpUnits
    SpValues = {1, 2}
    SeqNumbers = 3
    MaxSessions = 3
    MaxUpdates = 2
    MaxRebirths = 1
    Usernames = {"a", "b"}
    AcRoles = {"admin", "viewer"}
    Requests = {"r1", "r2"}
    MaxOps = 4
    MaxTokens = 2
    Versions = {1, 2, 3}
    BackupsKept = 2
    MaxSaves = 5
    MaxSeconds = 2
    MaxIoFaults = 2
    Nodes = {"n1", "n2"}
    Keys = {"k1", "k2"}
    Posts = {"r1", "r2"}
    PeerTtl = 1
    MaxPosts = 3
    MaxCommands = 1
    NtOrder <- OneMapping
    NtQueueMax = 2
    PerMinute = 2
    Minute = 1
    RepeatTicks = 2
    MaxTicks = 3
    MaxTurns = 3
INVARIANTS
    
    HostFollows
    
    NotifiedRight
PROPERTIES
    
    SavesSafe
CHECK_DEADLOCK FALSE
