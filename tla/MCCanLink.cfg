\* Three frames: one more than the receive buffers of the chip, and a queue of
\* two records with a byte to spare.  Two transmit buffers of the three, so that
\* they are used again.  One upset.
CONSTANTS
    Frames = {1, 2, 3}
    TxBuffers = 2
    StartModes = {"normal"}
    Modes = {"loopback", "listen"}
    FilterSets = {{}, {2}}
    RxBytes = 5
    RecordSize = 2
    TxSlots = 4
    MaxUpsets = 1
SPECIFICATION FairSpec
INVARIANTS
    TypeOK
    McpAccountsHold
    SendsGoOutOnce
    CanFramesAccounted
PROPERTIES
    FramesAreRead
