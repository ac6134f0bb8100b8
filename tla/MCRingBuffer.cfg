\* Four slots, so three bytes held; seven bytes take both indices past the wrap.
\* MaxBytes stops the producer, so behaviours end.
CONSTANTS
    Size = 4
    MaxBytes = 7
SPECIFICATION FairRingSpec
INVARIANTS
    RingTypeOK
    CountIsExact
    HeldBytesIntact
    CopiesAreOldestBytes
PROPERTIES
    ImplementsFifo
    ReadRemovesWhatItReturns
    AcceptedBytesLeave
CHECK_DEADLOCK FALSE
