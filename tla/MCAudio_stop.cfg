SPECIFICATION Spec
CONSTANTS FifoSize = 3
 Drives = {"sd", "udisk"}
 MaxTake = 3
 MaxBurst = 1
SongLen <- MCSongLen
PROPERTY StopReturns
