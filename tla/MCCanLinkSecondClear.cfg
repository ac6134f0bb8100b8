\* A controller whose fast read clears the flag, as documented, or leaves it.
CONSTANTS
    Frames = {1, 2, 3}
    TxBuffers = 2
    StartModes = {"normal"}
    Modes = {"loopback", "listen"}
    FilterSets = {{}, {2}}
    RxBytes = 5
    RecordSize = 2
    TxSlots = 4
    MaxUpsets = 0
SPECIFICATION Spec
INVARIANT
    SecondClearCostsNothing
