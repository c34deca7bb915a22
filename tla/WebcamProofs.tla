----------------------------- MODULE WebcamProofs -----------------------------
(* Proofs about Webcam for every length of the FIFO, every number of blocks  *)
(* and every set of connections.                                             *)
EXTENDS Webcam, RingLemmas

\* The type invariant, part by part: the ring and the camera, the program
\* counters, the connections, and the Boolean variables.
RingType ==
    /\ webcamfifordpos \in 0..FifoNum
    /\ webcamfifowrpos \in Slots
    /\ webcamfifobuf \in [Slots -> Blocks]
    /\ block \in Blocks
Phases ==
    /\ status \in {0, 1, 2, 255}
    /\ send \in {"none", "nap", "top", "wrap", "take", "write"}
    /\ main \in {"away", "button", "close", "accept", "start", "return",
                "stop", "delete", "wait", "leave"}
NetType ==
    /\ conn \in Conns \cup {NULL}
    /\ tcpstatus \in {0, 1} /\ tcpconn \in {0, 1}
    /\ webcamnet \in Conns \cup {NULL}
    /\ live \subseteq Conns /\ broken \subseteq live
Flags ==
    /\ dcmi \in BOOLEAN /\ burst \in BOOLEAN /\ waiting \in BOOLEAN
    /\ cutoff \in BOOLEAN /\ hasty \in BOOLEAN /\ unheard \in BOOLEAN

\* The read index leaves the ring only inside webcam_fifo_read. There it may
\* look as if it were behind the ring; an interrupt that compares the write index
\* with it then finds room all the same, but it is the only one.
ReadIndex ==
    /\ send # "wrap" => webcamfifordpos \in Slots
    /\ burst => send \in {"wrap", "take"}
    /\ webcamfifordpos = FifoNum /\ ~burst => webcamfifowrpos # FifoNum - 1

\* Where the send task is while main_task is where it is. A status of 255 is
\* asked for, and answered by 0, inside webcam_send_task_delete only.
TaskAsked ==
    /\ status = 0 => send = "none"
    /\ send = "none" => status = 0 \/ main \in {"stop", "delete", "wait"}
    /\ status = 0 => main \in {"stop", "wait", "leave", "away"}
    /\ main \in {"leave", "away"} => status = 0
    /\ status = 255 => main = "wait"
    /\ main = "close" => status = 2
    /\ send \in {"wrap", "take"} => status = 1
    /\ send = "write" => status = 1 \/ main \in {"delete", "wait"} \/ cutoff
DmaOff == main \in {"delete", "wait", "leave", "away"} => ~dcmi

\* The connection main_task knows is the only one there is, or it knows one
\* that is gone and will be told so by the next netconn_accept.
OneConnection ==
    /\ live \subseteq {webcamnet}
    /\ tcpconn = 1 => webcamnet \in live /\ tcpstatus = 1
    /\ tcpconn = 0 => live = {} \/ main = "close"
    /\ status = 1 => tcpconn = 1
    /\ main = "start" => tcpconn = 1
    /\ main = "close" => tcpconn = 0
    /\ send = "write" => (conn = webcamnet /\ tcpconn = 1) \/ cutoff
    /\ \/ ~Dangling
       \/ tcpstatus = 1 /\ tcpconn = 0 /\ main \in {"return", "button", "accept"}
       \/ hasty /\ main \in {"close", "stop", "delete", "wait", "leave"}

-----------------------------------------------------------------------------
\* The parts make up the type invariant.
LEMMA Parts == WebTypeOK <=> RingType /\ Phases /\ NetType /\ Flags
BY DEF WebTypeOK, RingType, Phases, NetType, Flags

\* The ring's indices, with where the read index may be.
LEMMA RingStep ==
    ASSUME RingType, ReadIndex, [Next]_vars
    PROVE  RingType'
<1> USE DEF RingType, fifoVars, camVars, netVars, histVars, Step
<1>1. CASE WebcamDcmiRxCallback
  BY <1>1, FifoNumAssumption, BlocksAssumption
  DEF WebcamDcmiRxCallback, FifoFull, NextPos, NextBlock, Blocks, Slots
<1>2. CASE DelayOver \/ SendNothing \/ FifoRead \/ FifoReadWrap \/ NetconnWrite
  BY <1>2, FifoNumAssumption
  DEF DelayOver, SendNothing, FifoRead, FifoReadWrap, NetconnWrite, ReadIndex, Slots
<1>3. CASE WriteReturns \/ WriteFails \/ WriteOnFreed \/ SendTaskEnds
  BY <1>3
  DEF WriteReturns, WriteFails, WriteOnFreed, WriteOver, SendTaskStop, SendTaskEnds
<1>4. CASE WebcamRun \/ WebcamRunFails \/ NoButton \/ PressOpen \/ PressOpenFails \/ PressClose
  BY <1>4
  DEF WebcamRun, WebcamRunFails, NoButton, PressOpen, PressOpenFails, PressClose
<1>5. CASE AcceptClient \/ SendTaskStart \/ AcceptTimeout
  BY <1>5
  DEF AcceptClient, SendTaskStart, AcceptTimeout
<1>6. CASE Close \/ ClientGone
  BY <1>6
  DEF Close, ClientGone
<1>7. CASE Connected \/ NoReturn \/ Return
        \/ Stop \/ SendTaskDelete \/ SendTaskDeleted
  BY <1>7
  DEF Connected, NoReturn, Return, Stop, SendTaskDelete, SendTaskDeleted
<1>8. CASE Leave
  BY <1>8, BlocksAssumption
  DEF Leave, NoBlock, Blocks
<1>9. CASE ClientConnects \/ ClientGoes
  BY <1>9
  DEF ClientConnects, ClientGoes
<1>10. CASE UNCHANGED vars
  BY <1>10 DEF vars
<1> QED
  BY <1>1, <1>2, <1>3, <1>4, <1>5, <1>6, <1>7, <1>8, <1>9, <1>10
  DEF Next, SendTask, Turn, MainCode, User

\* Where the send task and main_task are.
LEMMA PhasesStep ==
    ASSUME Phases, [Next]_vars
    PROVE  Phases'
<1> USE DEF Phases, fifoVars, camVars, netVars, histVars, Step
<1>1. CASE WebcamDcmiRxCallback
  BY <1>1
  DEF WebcamDcmiRxCallback
<1>2. CASE DelayOver \/ SendNothing \/ FifoRead \/ FifoReadWrap \/ NetconnWrite
  BY <1>2
  DEF DelayOver, SendNothing, FifoRead, FifoReadWrap, NetconnWrite
<1>3. CASE WriteReturns \/ WriteFails \/ WriteOnFreed \/ SendTaskEnds
  BY <1>3
  DEF WriteReturns, WriteFails, WriteOnFreed, WriteOver, SendTaskStop, SendTaskEnds
<1>4. CASE WebcamRun \/ WebcamRunFails \/ NoButton \/ PressOpen \/ PressOpenFails \/ PressClose
  BY <1>4
  DEF WebcamRun, WebcamRunFails, NoButton, PressOpen, PressOpenFails, PressClose
<1>5. CASE AcceptClient \/ SendTaskStart \/ AcceptTimeout
  BY <1>5
  DEF AcceptClient, SendTaskStart, AcceptTimeout
<1>6. CASE Close \/ ClientGone
  BY <1>6
  DEF Close, ClientGone
<1>7. CASE Connected \/ NoReturn \/ Return
        \/ Stop \/ SendTaskDelete \/ SendTaskDeleted
  BY <1>7
  DEF Connected, NoReturn, Return, Stop, SendTaskDelete, SendTaskDeleted
<1>8. CASE Leave
  BY <1>8
  DEF Leave
<1>9. CASE ClientConnects \/ ClientGoes
  BY <1>9
  DEF ClientConnects, ClientGoes
<1>10. CASE UNCHANGED vars
  BY <1>10 DEF vars
<1> QED
  BY <1>1, <1>2, <1>3, <1>4, <1>5, <1>6, <1>7, <1>8, <1>9, <1>10
  DEF Next, SendTask, Turn, MainCode, User

LEMMA NetTypeStep ==
    ASSUME NetType, [Next]_vars
    PROVE  NetType'
<1> USE DEF NetType, NULL, fifoVars, camVars, netVars, histVars, Step
<1>1. CASE WebcamDcmiRxCallback
  BY <1>1
  DEF WebcamDcmiRxCallback
<1>2. CASE DelayOver \/ SendNothing \/ FifoRead \/ FifoReadWrap \/ NetconnWrite
  BY <1>2
  DEF DelayOver, SendNothing, FifoRead, FifoReadWrap, NetconnWrite
<1>3. CASE WriteReturns \/ WriteFails \/ WriteOnFreed \/ SendTaskEnds
  BY <1>3
  DEF WriteReturns, WriteFails, WriteOnFreed, WriteOver, SendTaskStop, SendTaskEnds
<1>4. CASE WebcamRun \/ WebcamRunFails \/ NoButton \/ PressOpen \/ PressOpenFails \/ PressClose
  BY <1>4
  DEF WebcamRun, WebcamRunFails, NoButton, PressOpen, PressOpenFails, PressClose
<1>5. CASE AcceptClient \/ SendTaskStart \/ AcceptTimeout
  BY <1>5
  DEF AcceptClient, SendTaskStart, AcceptTimeout
<1>6. CASE Close \/ ClientGone
  BY <1>6
  DEF Close, ClientGone, Disconnect
<1>7. CASE Connected \/ NoReturn \/ Return
        \/ Stop \/ SendTaskDelete \/ SendTaskDeleted
  BY <1>7
  DEF Connected, NoReturn, Return, Stop, SendTaskDelete, SendTaskDeleted
<1>8. CASE Leave
  BY <1>8
  DEF Leave, Disconnect
<1>9. CASE ClientConnects \/ ClientGoes
  BY <1>9
  DEF ClientConnects, ClientGoes
<1>10. CASE UNCHANGED vars
  BY <1>10 DEF vars
<1> QED
  BY <1>1, <1>2, <1>3, <1>4, <1>5, <1>6, <1>7, <1>8, <1>9, <1>10
  DEF Next, SendTask, Turn, MainCode, User

LEMMA FlagsStep ==
    ASSUME Flags, [Next]_vars
    PROVE  Flags'
<1> USE DEF Flags, fifoVars, camVars, netVars, histVars, Step
<1>1. CASE WebcamDcmiRxCallback
  BY <1>1
  DEF WebcamDcmiRxCallback
<1>2. CASE DelayOver \/ SendNothing \/ FifoRead \/ FifoReadWrap \/ NetconnWrite
  BY <1>2
  DEF DelayOver, SendNothing, FifoRead, FifoReadWrap, NetconnWrite
<1>3. CASE WriteReturns \/ WriteFails \/ WriteOnFreed \/ SendTaskEnds
  <2>1. SendTaskStop => unheard' \in BOOLEAN
    <3>1. SendTaskStop => unheard' = (unheard \/ status = 255)
      BY DEF SendTaskStop
    <3> QED
      BY <3>1
  <2>2. CASE WriteOver
    <3>1. cutoff' \in BOOLEAN /\ UNCHANGED <<dcmi, burst, waiting, hasty>>
      BY <2>2 DEF WriteOver
    <3>2. SendTaskStop \/ UNCHANGED unheard
      BY <1>3, <2>2
      DEF WriteOver, WriteReturns, WriteFails, WriteOnFreed, SendTaskEnds
    <3> QED
      BY <2>1, <3>1, <3>2
  <2>3. CASE SendTaskEnds
    BY <2>3 DEF SendTaskEnds
  <2> QED
    BY <1>3, <2>2, <2>3 DEF WriteReturns, WriteFails, WriteOnFreed
<1>4. CASE WebcamRun \/ WebcamRunFails \/ NoButton \/ PressOpen \/ PressOpenFails \/ PressClose
  <2>1. CASE WebcamRun \/ WebcamRunFails \/ NoButton \/ PressOpen \/ PressOpenFails
    BY <2>1 DEF WebcamRun, WebcamRunFails, NoButton, PressOpen, PressOpenFails
  <2>2. CASE PressClose
    <3>1. /\ cutoff' = (cutoff \/ send = "write") /\ hasty' = Dangling
          /\ UNCHANGED <<dcmi, burst, waiting, unheard>>
      BY <2>2 DEF PressClose
    <3>2. cutoff' \in BOOLEAN
      BY <3>1
    <3>3. hasty' \in BOOLEAN
      BY <3>1 DEF Dangling
    <3> QED
      BY <3>1, <3>2, <3>3
  <2> QED
    BY <1>4, <2>1, <2>2
<1>5. CASE AcceptClient \/ SendTaskStart \/ AcceptTimeout
  BY <1>5
  DEF AcceptClient, SendTaskStart, AcceptTimeout
<1>6. CASE Close \/ ClientGone
  BY <1>6
  DEF Close, ClientGone
<1>7. CASE Connected \/ NoReturn \/ Return
        \/ Stop \/ SendTaskDelete \/ SendTaskDeleted
  <2>1. CASE Connected \/ NoReturn \/ Stop \/ SendTaskDelete \/ SendTaskDeleted
    <3>1. CASE Stop
      BY <3>1 DEF Stop
    <3> QED
      BY <2>1, <3>1 DEF Connected, NoReturn, SendTaskDelete, SendTaskDeleted
  <2>2. CASE Return
    <3>1. hasty' = Dangling /\ UNCHANGED <<dcmi, burst, waiting, cutoff, unheard>>
      BY <2>2 DEF Return
    <3>2. hasty' \in BOOLEAN
      BY <3>1 DEF Dangling
    <3> QED
      BY <3>1, <3>2
  <2> QED
    BY <1>7, <2>1, <2>2
<1>8. CASE Leave
  BY <1>8
  DEF Leave
<1>9. CASE ClientConnects \/ ClientGoes
  BY <1>9
  DEF ClientConnects, ClientGoes
<1>10. CASE UNCHANGED vars
  BY <1>10 DEF vars
<1> QED
  BY <1>1, <1>2, <1>3, <1>4, <1>5, <1>6, <1>7, <1>8, <1>9, <1>10
  DEF Next, SendTask, Turn, MainCode, User

LEMMA ReadIndexStep ==
    ASSUME RingType, ReadIndex, [Next]_vars
    PROVE  ReadIndex'
<1> USE DEF RingType, ReadIndex, Slots, fifoVars, camVars, netVars, histVars, Step
<1>1. CASE WebcamDcmiRxCallback
  <2>1. UNCHANGED <<webcamfifordpos, send>> /\ ~burst
    BY <1>1 DEF WebcamDcmiRxCallback
  <2>2. burst' <=> send \in {"wrap", "take"}
    BY <1>1 DEF WebcamDcmiRxCallback
  <2>3. webcamfifordpos = FifoNum => burst'
    BY <2>2, FifoNumAssumption
  <2> QED
    BY <2>1, <2>2, <2>3
<1>2. CASE DelayOver \/ SendNothing \/ FifoRead \/ FifoReadWrap \/ NetconnWrite
  BY <1>2, FifoNumAssumption
  DEF DelayOver, SendNothing, FifoRead, FifoReadWrap, NetconnWrite
<1>3. CASE WriteReturns \/ WriteFails \/ WriteOnFreed \/ SendTaskEnds
  BY <1>3
  DEF WriteReturns, WriteFails, WriteOnFreed, WriteOver, SendTaskStop, SendTaskEnds
<1>4. CASE WebcamRun \/ WebcamRunFails \/ NoButton \/ PressOpen \/ PressOpenFails \/ PressClose
  BY <1>4
  DEF WebcamRun, WebcamRunFails, NoButton, PressOpen, PressOpenFails, PressClose, MainRuns
<1>5. CASE AcceptClient \/ SendTaskStart \/ AcceptTimeout
  BY <1>5
  DEF AcceptClient, SendTaskStart, AcceptTimeout
<1>6. CASE Close \/ ClientGone
  BY <1>6
  DEF Close, ClientGone
<1>7. CASE Connected \/ NoReturn \/ Return
        \/ Stop \/ SendTaskDelete \/ SendTaskDeleted
  BY <1>7
  DEF Connected, NoReturn, Return, Stop, SendTaskDelete, SendTaskDeleted
<1>8. CASE Leave
  BY <1>8
  DEF Leave
<1>9. CASE ClientConnects \/ ClientGoes
  BY <1>9
  DEF ClientConnects, ClientGoes
<1>10. CASE UNCHANGED vars
  BY <1>10 DEF vars
<1> QED
  BY <1>1, <1>2, <1>3, <1>4, <1>5, <1>6, <1>7, <1>8, <1>9, <1>10
  DEF Next, SendTask, Turn, MainCode, User

\* What the closing of the server leaves for the history.
LEMMA CloseMarks ==
    ASSUME PressClose
    PROVE  (send = "write" => cutoff') /\ (Dangling => hasty')
<1>1. cutoff' = (cutoff \/ send = "write") /\ hasty' = Dangling
  BY DEF PressClose
<1> QED
  BY <1>1, Zenon

LEMMA TaskAskedStep ==
    ASSUME Phases, TaskAsked, OneConnection, [Next]_vars
    PROVE  TaskAsked'
<1> USE DEF Phases, TaskAsked, MainRuns, fifoVars, camVars, netVars, histVars, Step
<1>1. CASE WebcamDcmiRxCallback
  BY <1>1
  DEF WebcamDcmiRxCallback
<1>2. CASE DelayOver \/ SendNothing \/ FifoRead \/ FifoReadWrap \/ NetconnWrite
  BY <1>2
  DEF DelayOver, SendNothing, FifoRead, FifoReadWrap, NetconnWrite
<1>3. CASE WriteReturns \/ WriteFails \/ WriteOnFreed \/ SendTaskEnds
  BY <1>3
  DEF WriteReturns, WriteFails, WriteOnFreed, WriteOver, SendTaskStop, SendTaskEnds
<1>4. CASE WebcamRun \/ WebcamRunFails \/ NoButton \/ PressOpen \/ PressOpenFails \/ PressClose
  <2>1. CASE WebcamRun \/ WebcamRunFails
    BY <2>1 DEF WebcamRun, WebcamRunFails
  <2>2. CASE NoButton \/ PressOpen \/ PressOpenFails
    BY <2>2 DEF NoButton, PressOpen, PressOpenFails, OneConnection
  <2>3. CASE PressClose
    <3>1. /\ main = "button" /\ main' = "close" /\ status' = 2 /\ send' = send
          /\ send \in {"none", "nap", "write"}
      BY <2>3 DEF PressClose
    <3>2. send = "write" => cutoff'
      BY <2>3, CloseMarks
    <3> QED
      BY <3>1, <3>2
  <2> QED
    BY <1>4, <2>1, <2>2, <2>3
<1>5. CASE AcceptClient \/ SendTaskStart \/ AcceptTimeout
  BY <1>5
  DEF AcceptClient, SendTaskStart, AcceptTimeout
<1>6. CASE Close \/ ClientGone
  BY <1>6
  DEF Close, ClientGone
<1>7. CASE Connected \/ NoReturn \/ Return
        \/ Stop \/ SendTaskDelete \/ SendTaskDeleted
  BY <1>7
  DEF Connected, NoReturn, Return, Stop, SendTaskDelete, SendTaskDeleted
<1>8. CASE Leave
  BY <1>8
  DEF Leave
<1>9. CASE ClientConnects \/ ClientGoes
  BY <1>9
  DEF ClientConnects, ClientGoes
<1>10. CASE UNCHANGED vars
  BY <1>10 DEF vars
<1> QED
  BY <1>1, <1>2, <1>3, <1>4, <1>5, <1>6, <1>7, <1>8, <1>9, <1>10
  DEF Next, SendTask, Turn, MainCode, User

LEMMA DmaOffStep ==
    ASSUME TaskAsked, DmaOff, [Next]_vars
    PROVE  DmaOff'
<1> USE DEF DmaOff, fifoVars, camVars, netVars, histVars, Step
<1>1. CASE WebcamDcmiRxCallback
  BY <1>1
  DEF WebcamDcmiRxCallback
<1>2. CASE DelayOver \/ SendNothing \/ FifoRead \/ FifoReadWrap \/ NetconnWrite
  BY <1>2
  DEF DelayOver, SendNothing, FifoRead, FifoReadWrap, NetconnWrite
<1>3. CASE WriteReturns \/ WriteFails \/ WriteOnFreed \/ SendTaskEnds
  BY <1>3
  DEF WriteReturns, WriteFails, WriteOnFreed, WriteOver, SendTaskStop, SendTaskEnds
<1>4. CASE WebcamRun \/ WebcamRunFails \/ NoButton \/ PressOpen \/ PressOpenFails \/ PressClose
  BY <1>4
  DEF WebcamRun, WebcamRunFails, NoButton, PressOpen, PressOpenFails, PressClose
<1>5. CASE AcceptClient \/ SendTaskStart \/ AcceptTimeout
  BY <1>5
  DEF AcceptClient, SendTaskStart, AcceptTimeout
<1>6. CASE Close \/ ClientGone
  BY <1>6
  DEF Close, ClientGone
<1>7. CASE Connected \/ NoReturn \/ Return
        \/ Stop \/ SendTaskDelete \/ SendTaskDeleted
  BY <1>7
  DEF Connected, NoReturn, Return, Stop, SendTaskDelete, SendTaskDeleted
<1>8. CASE Leave
  BY <1>8
  DEF Leave
<1>9. CASE ClientConnects \/ ClientGoes
  BY <1>9
  DEF ClientConnects, ClientGoes
<1>10. CASE UNCHANGED vars
  BY <1>10 DEF vars
<1> QED
  BY <1>1, <1>2, <1>3, <1>4, <1>5, <1>6, <1>7, <1>8, <1>9, <1>10
  DEF Next, SendTask, Turn, MainCode, User

LEMMA OneConnectionStep ==
    ASSUME Phases, NetType, TaskAsked, OneConnection, [Next]_vars
    PROVE  OneConnection'
<1> USE DEF Phases, NetType, OneConnection, Dangling, fifoVars, camVars, netVars, histVars, Step
<1>1. CASE WebcamDcmiRxCallback
  BY <1>1
  DEF WebcamDcmiRxCallback
<1>2. CASE DelayOver \/ SendNothing \/ FifoRead \/ FifoReadWrap \/ NetconnWrite
  BY <1>2
  DEF DelayOver, SendNothing, FifoRead, FifoReadWrap, NetconnWrite, TaskAsked
<1>3. CASE WriteReturns \/ WriteFails \/ WriteOnFreed \/ SendTaskEnds
  BY <1>3
  DEF WriteReturns, WriteFails, WriteOnFreed, WriteOver, SendTaskStop, SendTaskEnds, TaskAsked
<1>4. CASE WebcamRun \/ WebcamRunFails \/ NoButton \/ PressOpen \/ PressOpenFails \/ PressClose
  <2>1. CASE WebcamRun \/ WebcamRunFails
    BY <2>1 DEF WebcamRun, WebcamRunFails, TaskAsked
  <2>2. CASE NoButton
    BY <2>2 DEF NoButton
  <2>3. CASE PressOpen
    BY <2>3 DEF PressOpen, TaskAsked
  <2>4. CASE PressOpenFails
    BY <2>4 DEF PressOpenFails, TaskAsked
  <2>5. CASE PressClose
    <3>1. /\ main = "button" /\ main' = "close" /\ tcpconn' = 0 /\ tcpstatus' = 0
          /\ status' = 2 /\ UNCHANGED <<send, conn, webcamnet, live>>
      BY <2>5 DEF PressClose
    <3>2. (send = "write" => cutoff') /\ (Dangling => hasty')
      BY <2>5, CloseMarks
    <3> QED
      BY <3>1, <3>2
  <2> QED
    BY <1>4, <2>1, <2>2, <2>3, <2>4, <2>5
<1>5. CASE AcceptClient \/ SendTaskStart \/ AcceptTimeout
  BY <1>5
  DEF AcceptClient, SendTaskStart, AcceptTimeout, Unconnected, NULL
<1>6. CASE Close
  BY <1>6
  DEF Close, Disconnect, TaskAsked, NULL
<1>7. CASE ClientGone
  <2>1. /\ status = 2 /\ main = "accept" /\ main' = "return"
        /\ live' = live \ {webcamnet} /\ tcpconn' = 0
        /\ UNCHANGED <<status, send, conn, webcamnet, tcpstatus, cutoff, hasty>>
    BY <1>7 DEF ClientGone, Gone, Disconnect
  <2>2. send # "write" \/ cutoff
    BY <2>1 DEF TaskAsked
  <2>3. live' = {}
    BY <2>1
  <2>4. tcpstatus = 1 \/ webcamnet = NULL
    BY <2>1
  <2> QED
    BY <2>1, <2>2, <2>3, <2>4
<1>8. CASE Connected \/ NoReturn \/ Return
        \/ Stop \/ SendTaskDelete \/ SendTaskDeleted
  <2>1. CASE Connected
    BY <2>1 DEF Connected
  <2>2. CASE NoReturn
    BY <2>2 DEF NoReturn
  <2>3. CASE Return
    BY <2>3 DEF Return
  <2>4. CASE Stop
    BY <2>4 DEF Stop
  <2>5. CASE SendTaskDelete
    BY <2>5 DEF SendTaskDelete
  <2>6. CASE SendTaskDeleted
    BY <2>6 DEF SendTaskDeleted, TaskAsked
  <2> QED
    BY <1>8, <2>1, <2>2, <2>3, <2>4, <2>5, <2>6
<1>9. CASE Leave
  BY <1>9
  DEF Leave, Disconnect, TaskAsked, NULL
<1>10. CASE ClientConnects \/ ClientGoes
  BY <1>10
  DEF ClientConnects, ClientGoes
<1>11. CASE UNCHANGED vars
  BY <1>11 DEF vars
<1> QED
  BY <1>1, <1>2, <1>3, <1>4, <1>5, <1>6, <1>7, <1>8, <1>9, <1>10, <1>11
  DEF Next, SendTask, Turn, MainCode, User

-----------------------------------------------------------------------------
\* The queue of the refinement is the ring's.
LEMMA QueueIsRing ==
    ASSUME RingType
    PROVE  /\ Handed \in 0..(FifoNum - 1)
           /\ Queue = RingQueue(webcamfifobuf, Handed, webcamfifowrpos, FifoNum)
           /\ Queue \in Seq(Blocks)
           /\ Len(Queue) = RingLen(Handed, webcamfifowrpos, FifoNum)
<1>1. Handed \in 0..(FifoNum - 1)
  BY FifoNumAssumption DEF RingType, Handed
<1>2. Queue = RingQueue(webcamfifobuf, Handed, webcamfifowrpos, FifoNum)
  BY DEF Queue, QueueLen, RingQueue, RingLen
<1> QED
  BY <1>1, <1>2, RingIsSeq, FifoNumAssumption DEF RingType, Slots

\* The interrupt appends its block, unless the queue is full.
LEMMA CallbackPuts ==
    ASSUME RingType, RingType', ReadIndex, WebcamDcmiRxCallback
    PROVE  Fifo!Put \/ UNCHANGED fifoView
<1> DEFINE n == FifoNum
           r == Handed
           w == webcamfifowrpos
           f == webcamfifobuf
<1>1. Handed' = r
  BY DEF WebcamDcmiRxCallback, Handed
<1>2. CASE FifoFull
  <2>1. webcamfifowrpos' = w /\ webcamfifobuf' = f /\ webcamfifordpos' = webcamfifordpos
    BY <1>2 DEF WebcamDcmiRxCallback
  <2> QED
    BY <1>1, <2>1 DEF fifoView, Queue, QueueLen
<1>3. CASE ~FifoFull
  <2>1. /\ webcamfifowrpos' = After(w, n)
        /\ webcamfifobuf' = [f EXCEPT ![webcamfifowrpos'] = NextBlock]
    BY <1>3 DEF WebcamDcmiRxCallback, NextPos, After
  <2>2. NextBlock \in Blocks
    BY BlocksAssumption DEF RingType, Blocks, NextBlock
  <2>3. webcamfifowrpos' # r
    <3>1. CASE webcamfifordpos = FifoNum
      <4>1. ~burst
        BY DEF WebcamDcmiRxCallback
      <4> QED
        BY <2>1, <3>1, <4>1, FifoNumAssumption DEF ReadIndex, RingType, Slots, Handed, After
    <3>2. CASE webcamfifordpos # FifoNum
      BY <1>3, <2>1, <3>2, FifoNumAssumption
      DEF RingType, Slots, Handed, After, FifoFull, NextPos
    <3> QED
      BY <3>1, <3>2
  <2>4. r \in 0..(n - 1) /\ w \in 0..(n - 1) /\ f \in [0..(n - 1) -> Blocks]
    BY QueueIsRing DEF RingType, Slots
  <2>5. /\ Queue = RingQueue(f, r, w, n) /\ Len(Queue) = RingLen(r, w, n)
        /\ Queue' = RingQueue(webcamfifobuf', Handed', webcamfifowrpos', n)
    BY QueueIsRing DEF Queue, QueueLen, RingQueue, RingLen
  <2> HIDE DEF n, r, w, f
  <2>6. /\ RingLen(r, w, n) < n - 1
        /\ RingQueue(webcamfifobuf', r, webcamfifowrpos', n)
             = PutOn(RingQueue(f, r, w, n), NextBlock)
        /\ webcamfifobuf'[r] = f[r]
    <3>1. /\ webcamfifowrpos' \in 0..(n - 1)
          /\ webcamfifobuf' \in [0..(n - 1) -> Blocks]
      BY DEF RingType, Slots, n
    <3>2. /\ webcamfifobuf'[webcamfifowrpos'] = NextBlock
          /\ \A i \in 0..(n - 1): i # webcamfifowrpos' => webcamfifobuf'[i] = f[i]
      BY <2>1, <2>4, <3>1
    <3>3. webcamfifowrpos' = After(w, n)
      BY <2>1
    <3>4. FifoNum \in Nat \ {0, 1}
      BY FifoNumAssumption
    <3> HIDE DEF After
    <3>5. RingLen(r, w, n) < n - 1
      BY <2>2, <2>3, <2>4, <3>1, <3>2, <3>3, <3>4, RingPut DEF n
    <3>6. webcamfifobuf'[r] = f[r]
      BY <2>2, <2>3, <2>4, <3>1, <3>2, <3>3, <3>4, RingPut DEF n
    <3>7. RingQueue(webcamfifobuf', r, webcamfifowrpos', n)
             = PutOn(RingQueue(f, r, w, n), NextBlock)
      BY <2>2, <2>3, <2>4, <3>1, <3>2, <3>3, <3>4, RingPut DEF n
    <3> QED
      BY <3>5, <3>6, <3>7
  <2>7. Len(Queue) < n - 1 /\ Queue' = Append(Queue, NextBlock)
    BY <1>1, <2>5, <2>6 DEF PutOn
  <2> QED
    BY <1>1, <2>2, <2>6, <2>7 DEF Fifo!Put, n, f, r
<1> QED
  BY <1>2, <1>3

\* Moving the read index takes a block.
LEMMA ReadTakes ==
    ASSUME RingType, ReadIndex, FifoRead
    PROVE  Fifo!Take
<1> DEFINE n == FifoNum
           r == Handed
           w == webcamfifowrpos
           f == webcamfifobuf
<1>1. /\ webcamfifordpos \in Slots /\ webcamfifordpos # w
      /\ webcamfifordpos' = webcamfifordpos + 1
      /\ webcamfifowrpos' = w /\ webcamfifobuf' = f
  BY DEF FifoRead, ReadIndex
<1>2. r = webcamfifordpos /\ Handed' = After(r, n)
  BY <1>1, FifoNumAssumption DEF Handed, After, Slots
<1>3. r \in 0..(n - 1) /\ w \in 0..(n - 1) /\ f \in [0..(n - 1) -> Blocks]
  BY QueueIsRing DEF RingType, Slots
<1>4. /\ Queue = RingQueue(f, r, w, n)
      /\ Queue' = RingQueue(webcamfifobuf', Handed', webcamfifowrpos', n)
  BY QueueIsRing DEF Queue, QueueLen, RingQueue, RingLen
<1> HIDE DEF n, r, w, f
<1>5. /\ Queue # << >>
      /\ f[After(r, n)] = Head(Queue)
      /\ Queue' = Tail(Queue)
  BY <1>1, <1>2, <1>3, <1>4, RingTake, FifoNumAssumption DEF n
<1> QED
  BY <1>1, <1>2, <1>5 DEF Fifo!Take

LEMMA StreamStep ==
    ASSUME RingType, RingType', ReadIndex, [Next]_vars
    PROVE  [main = "leave" \/ Fifo!Put \/ Fifo!Take]_fifoView
<1>1. CASE WebcamDcmiRxCallback
  BY <1>1, CallbackPuts
<1>2. CASE FifoRead
  BY <1>2, ReadTakes
<1>3. CASE FifoReadWrap
  <2>1. Handed' = Handed /\ UNCHANGED <<webcamfifowrpos, webcamfifobuf>>
    BY <1>3, FifoNumAssumption DEF FifoReadWrap, Handed, RingType
  <2> QED
    BY <2>1 DEF fifoView, Queue, QueueLen
<1>4. CASE Leave
  BY <1>4 DEF Leave, Step
<1>5. CASE UNCHANGED fifoVars
  BY <1>5 DEF fifoVars, fifoView, Queue, QueueLen, Handed
<1>6. ASSUME Next, ~WebcamDcmiRxCallback, ~FifoRead, ~FifoReadWrap, ~Leave
      PROVE  UNCHANGED fifoVars
  <2> USE DEF fifoVars
  <2>1. CASE DelayOver \/ SendNothing \/ NetconnWrite \/ WriteReturns \/ WriteFails
               \/ WriteOnFreed \/ SendTaskEnds
    BY <2>1
    DEF DelayOver, SendNothing, NetconnWrite, WriteReturns, WriteFails, WriteOnFreed,
        WriteOver, SendTaskEnds
  <2>2. CASE User
    BY <2>2 DEF User, WebcamRun, WebcamRunFails, PressOpen, PressOpenFails, PressClose, Return
  <2>3. CASE NoButton \/ Close \/ AcceptClient \/ SendTaskStart \/ AcceptTimeout
               \/ ClientGone \/ Connected
    BY <2>3
    DEF NoButton, Close, AcceptClient, SendTaskStart, AcceptTimeout, ClientGone, Connected
  <2>4. CASE NoReturn \/ Stop \/ SendTaskDelete \/ SendTaskDeleted
    BY <2>4 DEF NoReturn, Stop, SendTaskDelete, SendTaskDeleted
  <2>5. CASE ClientConnects \/ ClientGoes
    BY <2>5 DEF ClientConnects, ClientGoes
  <2> QED
    BY <1>6, <2>1, <2>2, <2>3, <2>4, <2>5 DEF Next, SendTask, Turn, MainCode
<1>7. CASE UNCHANGED vars
  BY <1>5, <1>7 DEF vars
<1> QED
  BY <1>1, <1>2, <1>3, <1>4, <1>5, <1>6, <1>7

-----------------------------------------------------------------------------
\* At the start.
LEMMA InitHolds ==
    ASSUME Init
    PROVE  /\ RingType /\ Phases /\ NetType /\ Flags
           /\ ReadIndex /\ TaskAsked /\ DmaOff /\ OneConnection
           /\ Fifo!Init
<1>1. RingType
  BY FifoNumAssumption, BlocksAssumption DEF Init, RingType, Slots, Blocks, NoBlock
<1>2. Phases /\ NetType /\ Flags
  BY DEF Init, Phases, NetType, Flags, NULL
<1>3. ReadIndex /\ TaskAsked /\ DmaOff
  BY FifoNumAssumption DEF Init, ReadIndex, TaskAsked, DmaOff, Slots
<1>4. OneConnection
  BY DEF Init, OneConnection, Dangling, NULL
<1>5. Handed = 0 /\ webcamfifobuf[0] \in Blocks
  BY <1>1, FifoNumAssumption DEF Init, Handed, RingType, Slots
<1>6. Queue \in Seq(Blocks) /\ Len(Queue) = 0
  <2>1. RingLen(0, 0, FifoNum) = 0
    BY RingLenBounds, FifoNumAssumption
  <2> QED
    BY <1>1, <1>5, <2>1, QueueIsRing DEF Init
<1>7. Queue = << >>
  BY <1>6, EmptySeq
<1> QED
  BY <1>1, <1>2, <1>3, <1>4, <1>5, <1>7 DEF Fifo!Init

\* Every variable keeps its range, whatever goes wrong: the read index leaves
\* the ring by one at most and for the length of one webcam_fifo_read only
\* (webcamera.c:86-112).
THEOREM WebTypeCorrect == Spec => []WebTypeOK
<1>1. Init => RingType /\ ReadIndex /\ Phases /\ NetType /\ Flags
  BY InitHolds
<1>2. RingType /\ ReadIndex /\ Phases /\ NetType /\ Flags /\ [Next]_vars
        => RingType' /\ ReadIndex' /\ Phases' /\ NetType' /\ Flags'
  BY RingStep, ReadIndexStep, PhasesStep, NetTypeStep, FlagsStep
<1>3. RingType /\ Phases /\ NetType /\ Flags => WebTypeOK
  BY Parts
<1> QED
  BY <1>1, <1>2, <1>3, PTL DEF Spec

\* The ring implements the bounded queue: what is captured comes out in order,
\* nothing that waits is written over, and neither is the block being sent,
\* although the interrupt finds the read index between two values
\* (webcamera.c:86-112).
THEOREM RingIsQueue == Spec => StreamIsFifo
<1>1. Init => RingType /\ ReadIndex /\ Fifo!Init
  BY InitHolds
<1>2. RingType /\ ReadIndex /\ [Next]_vars => RingType' /\ ReadIndex'
  BY RingStep, ReadIndexStep
<1>3. RingType /\ RingType' /\ ReadIndex /\ [Next]_vars
        => [main = "leave" \/ Fifo!Put \/ Fifo!Take]_fifoView
  BY StreamStep
<1> QED
  BY <1>1, <1>2, <1>3, PTL DEF Spec, StreamIsFifo

\* The invariant of the connections: each part needs the other.
WebInv == Phases /\ NetType /\ TaskAsked /\ DmaOff /\ OneConnection

\* It holds always: the flag, the task, the DMA and the three addresses of
\* connections agree wherever main_task is, but for a write that goes on when
\* the server is closed and for a connection that is to be deleted again
\* (webcamera.c:394-447).
LEMMA WebInvAlways == Spec => []WebInv
<1>1. Init => WebInv
  BY InitHolds DEF WebInv
<1>2. WebInv /\ [Next]_vars => WebInv'
  BY PhasesStep, NetTypeStep, TaskAskedStep, DmaOffStep, OneConnectionStep DEF WebInv
<1> QED
  BY <1>1, <1>2, PTL DEF Spec

\* Something is used after it was freed in two ways only: by the write during
\* which the server was closed, and after a button between the end of a
\* connection and the next netconn_accept. The task and the DMA are always off
\* before what they use is freed (webcamera.c:144, 170, 398, 423, 447).
THEOREM NothingElseFreedIsUsed == Spec => []FreedIsNotUsed
<1>1. WebInv => FreedIsNotUsed
  BY DEF WebInv, Phases, NetType, TaskAsked, DmaOff, OneConnection, FreedIsNotUsed,
         SendsOnLive, DeletesOnce, FreesAtRest, Dangling, Gone, Unconnected
<1> QED
  BY <1>1, WebInvAlways, PTL

\* The task sends only while there is a client, and main_task never loses the
\* address of a connection that exists, whatever goes wrong
\* (webcamera.c:394-424).
THEOREM ClientIsServed == Spec => []SendsToClient
<1>1. WebInv => SendsToClient
  BY DEF WebInv, OneConnection, SendsToClient
<1> QED
  BY <1>1, WebInvAlways, PTL

=============================================================================
