SPECIFICATION Spec
CONSTANTS FifoSize = 3
 Drives = {"sd", "udisk"}
 MaxTake = 3
 MaxBurst = 1
SongLen <- MCSongLen
INVARIANTS TypeOK RecTypeOK FileInOrder AtRest NoLeftoverQuit SaiHasOneUser
PROPERTIES ImplementsFifo KeptIfRoom BlocksInOrder StopEnds
