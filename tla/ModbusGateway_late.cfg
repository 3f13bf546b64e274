\* One master and the poll loop; slaves may answer late, the device may be unplugged.
SPECIFICATION FairSpec
CONSTANTS
    Masters = {m1}
    Poller = poller
    Units = {u1, u2}
    MaxConnections = 1
    MaxReqs = 1
    MaxLosses = 1
    LateReplies = TRUE
    None = none
INVARIANTS TypeOK FromTheUnit
 
CHECK_DEADLOCK FALSE
