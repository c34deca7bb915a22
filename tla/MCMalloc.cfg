SPECIFICATION Spec
CONSTANTS
    Task <- MCThreeTasks
    Reallocers <- MCMain
    TblSize = 5
    BlkSize <- MCBlkSize
    Sizes <- MCSizes
    Garbage <- MCGarbage
CONSTRAINT UntilCrossed
INVARIANTS
    TypeOK
    NonOverlapUncrossed
    TableExactUncrossed
PROPERTY
    ImplementsAllocator
