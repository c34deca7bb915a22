SPECIFICATION Spec
CONSTANTS
    NBlocks = 6
    NPages = 2
    SecPerPage = 1
    MinBlocks = 2
    Percent = 50
    Val <- MCVal
    MaxCount = 1
    FactoryBad <- MCNoBad
    MaxCuts = 0
    MaxFaults = 1
    MaxWears = 0
INVARIANT
    CopyComplete
