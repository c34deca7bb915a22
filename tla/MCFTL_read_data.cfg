SPECIFICATION Spec
CONSTANTS
    NBlocks = 4
    NPages = 2
    SecPerPage = 1
    MinBlocks = 2
    Percent = 50
    Val <- MCVal
    MaxCount = 1
    FactoryBad <- MCNoBad
    MaxCuts = 0
    MaxFaults = 0
    MaxWears = 2
PROPERTY
    ImplementsBlockDevice
