SPECIFICATION Spec
CONSTANTS
    Task <- MCTwoTasks
    Reallocers <- MCMain
    TblSize = 4
    BlkSize <- MCBlkSize
    Sizes <- MCSizes
    Garbage <- MCGarbage
INVARIANT NonOverlap
