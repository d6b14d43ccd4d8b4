SPECIFICATION FairSpec
CONSTANTS
    None = None
    WindowBytes = 1
    RingCapacity = 8
    Overhead = 0
    ChunkLens = {1}
    MaxChunk = 1
    FileLen = 3
    LastFile = 0
    LastConn = 1
    IdleTimeout = 0
    RecordReplayed = TRUE
    Deadlines = FALSE
PROPERTY CreditReturns
CHECK_DEADLOCK FALSE
