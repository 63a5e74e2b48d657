CONSTANTS
    Sectors = {1, 2, 256}
    Positions = {0, 1}
    Layouts <- SmallLayouts
    NR_PART_PER_DRIVE = 3
    NR_SUB_PER_PART = 3
    DiskSize = 40
    U8 = 256
SPECIFICATION Spec
INVARIANTS
    DataReady
    IdleIsQuiet
    RightSector
    PartitionsFound
PROPERTY
    RequestAnswered
CHECK_DEADLOCK FALSE
