\* Three sectors of one page of two cells; fwbegin erases one, all, or refuses.
CONSTANTS
    Images = {"big", "small"}
    RecordsOf <- MCRecordsOf
    Misplaced <- MCMisplaced
    PageCells = 2
    SectorCells = 2
    Capacity = 6
    BeginSizes = {1, 6, 7}
    Factory = "small"
SPECIFICATION Spec
INVARIANTS
    TypeOK
    VerifiedIsVouched
    ManifestAgreesWithStaging
    ApplicationIsWhole
    CleanTransferIsExact
PROPERTIES
    FailedTransferStaysFailed
\* A board whose install was cut short does not boot again.
CHECK_DEADLOCK FALSE
