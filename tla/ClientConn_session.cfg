\* A session with every task running, a queue of two items and keepalive on.
SPECIFICATION FairSpec
CONSTANTS
    QueueMax = 2
    MaxChunks = 3
    MaxNoise = 2
    HasCloseon = TRUE
    HasPoll = TRUE
    HasIdle = TRUE
    HasLifetime = TRUE
    ReadOnly = FALSE
    KeepAlive = TRUE
INVARIANTS TypeOK NoGap NothingMissed FlushedAtSentinel
PROPERTIES FeedSpec 
