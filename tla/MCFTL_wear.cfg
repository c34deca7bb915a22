SPECIFICATION Spec
CONSTANTS
    NBlocks = 4
    NPages = 2
    SecPerPage = 2
    MinBlocks = 2
    Percent = 50
    Val <- MCVal
    MaxCount = 2
    FactoryBad <- MCNoBad
    MaxCuts = 0
    MaxFaults = 0
    MaxWears = 1
INVARIANTS
    NoOrphan
    CopyComplete
PROPERTY
    ImplementsBlockDevice
CONSTRAINT AcrossBlocks
