\* Two control blocks, rings of two bytes, segments of at most two.
CONSTANTS
    Pcbs = {p1, p2}
    NoPcb = NoPcb
    RxCapacity = 2
    TxCapacity = 2
    ChunkMax = 1
    SndBuf = 1
    SegmentMax = 2
    Configs <- MCConfigs
    LateAnswers = FALSE
    MaxLookups = 1
    MaxSessions = 2
    MaxInput = 3
    MaxOutput = 2
    MaxAttempts = 1
SPECIFICATION FairSpec
INVARIANTS
    TypeOK
    OneControlBlock
    EveryLossIsReported
    StreamsAreIntact
    ClosedStaysClosed
PROPERTIES
    KeepsTrying
    StreamsMove
