INIT Init
NEXT Next
CONSTANTS
    YamlEntries <- Yaml
    ConfEntries <- Conf
    MaxEntries = 3
    MaxTimer = 5
    Files <- Uploads
    Begin <- TwoMappings
    Edits <- EditedMappings
    Importers = {"u", "v"}
    PendingMax = 1
    PendingTtl = 0
    MaxClock = 1
    MaxImports = 2
    TelnetBytes = {"IAC", "SB", "SE", "DO", "WONT", "BINARY", "x"}
    Supported = {"BINARY"}
    NetOutMax = 2
    Closeon <- PatternAAB
    LineMax = 4
    LineKept = 2
    MaxChunk = 3
    MaxBytes = 6
    RtuBodies <- Bodies
    MaxFlips = 3
    TcpStreams <- TcpBytes
    MaxPdu = 3
    Base = 4
    MaxCoils = 9
    MfScales <- Scales
    MfValues <- SomeValues
    Writes <- WriteSet
    Group = 4
    Groups = 5
    IntBits = 5
    LongBits = 8
    SmallBits = 2
    MaxField = 20
    FloatSize = 2
    DoubleSize = 3
    NotUtf8 = {7}
    Payloads <- Messages
    Strangers <- UnknownFields
    Foreign <- OtherEncoders
INVARIANTS
    CodecsExact
    
    ImportsHold
    
CHECK_DEADLOCK FALSE
