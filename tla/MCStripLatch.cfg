SPECIFICATION StripSpec
CONSTANTS
    Length = 4
    FifoDepth = 2
    ResetTicks = 3
    Pictures = 2
INVARIANTS LatchIsWaitedFor
