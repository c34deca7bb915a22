SPECIFICATION Spec
CONSTANTS
    Sectors = 3
    SectorSize = 4
    PageSize = 2
    DiskSector = 2
    Bits = {0, 1}
    Data <- MCData
    MaxWrites = 2
INVARIANTS SpiTypeOK Written NothingLost
CHECK_DEADLOCK FALSE
