SPECIFICATION Spec
CONSTANTS MaxRecv = 2
 Tries = 2
INVARIANTS GsmTypeOK NoStuckCmd RingServed ModeTrue
PROPERTIES AnswerKept LinkFree
