SPECIFICATION FairSpec
CONSTANTS
    FifoNum = 3
    MaxBlock = 3
    Conns <- MCConns
\* main_task may wait for ever
CHECK_DEADLOCK FALSE
INVARIANTS WebTypeOK FreedIsNotUsed SendsToClient
PROPERTIES StreamIsFifo DeleteEnds PlaceFreed
