SPECIFICATION Spec
CONSTANTS
    None = None
    WindowBytes = 2
    RingCapacity = 4
    Overhead = 1
    ChunkLens = {1, 2}
    MaxChunk = 2
    FileLen = 4
    LastFile = 1
    LastConn = 2
    IdleTimeout = 1
    RecordReplayed = TRUE
    Deadlines = TRUE
INVARIANTS CreditWindow AckedIsReceived NoMissedWakeup
PROPERTIES FlowControl
CHECK_DEADLOCK FALSE
