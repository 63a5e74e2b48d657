CONSTANTS
    Fd = {1, 2}
    SECTOR_SIZE = 3
    i_nr_sects = 3
    FSBUF_SECTS = 2
    MaxLen = 9
    MaxPos = 10
SPECIFICATION Spec
INVARIANTS
    Transferred
    WholeRequest
    SizeSaved
PROPERTY
    CallReturns
