\* RFC 2217 with kick_old_user; stop() at any time; c3 is not on the allow list.
SPECIFICATION FairSpec
CONSTANTS
    c1 = c1  c2 = c2  c3 = c3
    Conns = {c1, c2, c3}
    AllowedConns = {c1, c2}
    PriorityConns = {}
    MaxConnections = 1
    KickOldUser = TRUE
    Rfc2217 = TRUE
    OverlapStop = TRUE
    MaxLosses = 2
PROPERTIES StopReturns DeviceCycle
CHECK_DEADLOCK FALSE
