\* Raw or telnet server with two places; c4 and c5 have a priority address.
SPECIFICATION Spec
CONSTANTS
    c1 = c1  c2 = c2  c3 = c3  c4 = c4  c5 = c5
    Conns = {c1, c2, c3, c4, c5}
    AllowedConns = {c1, c2, c3, c4, c5}
    PriorityConns = {c4, c5}
    MaxConnections = 2
    KickOldUser = FALSE
    Rfc2217 = FALSE
    OverlapStop = FALSE
    MaxLosses = 1
SYMMETRY Peers
INVARIANTS TypeOK Capacity WriterIsLive StoppedIsQuiet 
PROPERTIES AdmissionOrder
CHECK_DEADLOCK FALSE
