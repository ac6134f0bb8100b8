\* The resolver answers a lookup after the client was closed.
CONSTANTS
    Pcbs = {p1, p2}
    NoPcb = NoPcb
    RxCapacity = 1
    TxCapacity = 1
    ChunkMax = 1
    SndBuf = 1
    SegmentMax = 1
    Configs <- MCForever
    LateAnswers = TRUE
    MaxLookups = 1
    MaxSessions = 1
    MaxInput = 1
    MaxOutput = 1
    MaxAttempts = 1
SPECIFICATION Spec
INVARIANTS
    ClosedStaysClosed
