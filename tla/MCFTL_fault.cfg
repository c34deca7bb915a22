SPECIFICATION FairSpec
CONSTANTS
    NBlocks = 4
    NPages = 2
    SecPerPage = 1
    MinBlocks = 2
    Percent = 67
    Val <- MCOneVal
    MaxCount = 2
    FactoryBad <- MCFirstBad
    MaxCuts = 2
    MaxFaults <- MCUnbounded
    MaxWears = 0
INVARIANTS
    TypeOK
    MapAgrees
    FullCapacity
PROPERTIES
    NumbersKept
    CallReturns
