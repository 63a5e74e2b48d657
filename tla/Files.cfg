CONSTANTS
    NR_PROCS = 3
    NR_NATIVE_PROCS = 1
    NR_FILES = 1
    NR_FILE_DESC = 2
    NR_INODE = 3
    NR_REGULAR = 4
    NR_DEFAULT_FILE_SECTS = 2
    nr_sects = 9
    n_1st_sect = 3
    SECTOR_BITS = 3
    NR_ENTRIES = 6
    MaxCnt = 2
    MaxWrites = 1
    Scribbles <- SomeScribbles
    Names = {a, b, c}
SYMMETRY Symmetry
CONSTRAINT Few
SPECIFICATION Spec
INVARIANTS
    FdCountExact
    OpenFileStays
    CacheCoherent
    MapsAgree
    EntriesMeanFiles
CHECK_DEADLOCK FALSE
