\* A connection that this side closes.
CONSTANTS
    Pcbs = {p1, p2}
    NoPcb = NoPcb
    RxCapacity = 1
    TxCapacity = 1
    ChunkMax = 1
    SndBuf = 1
    SegmentMax = 1
    Configs <- MCForever
    LateAnswers = FALSE
    MaxLookups = 1
    MaxSessions = 1
    MaxInput = 1
    MaxOutput = 1
    MaxAttempts = 1
SPECIFICATION Spec
INVARIANTS
    EveryEndIsReported
