-------------------------------- MODULE Webcam --------------------------------
(***************************************************************************)
(* The web camera (webcamera.c): the DMA interrupt puts what the camera     *)
(* sends into a ring of FifoNum buffers, a task of priority 2 sends them    *)
(* to the client of a TCP server, and main_task accepts the client, lets    *)
(* it go, and starts and ends the task.                                     *)
(*                                                                          *)
(* The send task waits in a delay and inside netconn_write only; main_task  *)
(* runs in that time (MainRuns). lwIP is external: a connection is memory   *)
(* that netconn_accept hands out and netconn_delete takes back.             *)
(*                                                                          *)
(* What is captured is one of a few blocks, in turn.                        *)
(***************************************************************************)
EXTENDS Naturals, Sequences

CONSTANTS
    FifoNum,        \* WEBCAM_FIFO_NUM
    MaxBlock,       \* bound: blocks that are told apart
    Conns           \* the connections lwIP has memory for

ASSUME FifoNumAssumption == FifoNum \in Nat \ {0, 1}
ASSUME BlocksAssumption == MaxBlock \in Nat \ {0}
ASSUME ConnsAssumption == Conns \subseteq Nat \ {0}

NULL == 0

VARIABLES
    webcamfifordpos,
    webcamfifowrpos,
    webcamfifobuf,
    dcmi,           \* the camera is being captured
    block,          \* the block captured last
    burst,          \* an interrupt fell into this webcam_fifo_read
    status,         \* webcam_sendtask_status
    send,           \* where the send task is
    conn,           \* the connection netconn_write was called with
    main,           \* where main_task is
    tcpstatus, tcpconn,
    webcamnet,
    live,           \* connections that exist
    broken,         \* those of them whose client has gone
    waiting,        \* a client is in the accept mailbox
    cutoff,         \* the server was closed in this netconn_write
    hasty,          \* a button was seen while webcamnet was dangling
    unheard         \* the task wrote its status over the request to end
                    \* (history: the code does not see these three)

fifoVars == <<webcamfifordpos, webcamfifowrpos, webcamfifobuf>>
camVars  == <<dcmi, block, burst>>
netVars  == <<tcpstatus, tcpconn, webcamnet, live, broken, waiting>>
histVars == <<cutoff, hasty, unheard>>
vars     == <<fifoVars, camVars, status, send, conn, main, netVars, histVars>>

NoBlock == 0
Blocks  == 0..MaxBlock
Slots   == 0..(FifoNum - 1)

WebTypeOK ==
    /\ webcamfifordpos \in 0..FifoNum
    /\ webcamfifowrpos \in Slots
    /\ webcamfifobuf \in [Slots -> Blocks]
    /\ dcmi \in BOOLEAN /\ block \in Blocks /\ burst \in BOOLEAN
    /\ status \in {0, 1, 2, 255}
    /\ send \in {"none", "nap", "top", "wrap", "take", "write"}
    /\ conn \in Conns \cup {NULL}
    /\ main \in {"away", "button", "close", "accept", "start", "return",
                "stop", "delete", "wait", "leave"}
    /\ tcpstatus \in {0, 1} /\ tcpconn \in {0, 1}
    /\ webcamnet \in Conns \cup {NULL}
    /\ live \subseteq Conns /\ broken \subseteq live
    /\ waiting \in BOOLEAN
    /\ cutoff \in BOOLEAN /\ hasty \in BOOLEAN /\ unheard \in BOOLEAN

Init ==
    /\ webcamfifordpos = 0
    /\ webcamfifowrpos = 0
    /\ webcamfifobuf = [i \in Slots |-> NoBlock]
    /\ dcmi = FALSE /\ block = NoBlock /\ burst = FALSE
    /\ status = 0
    /\ send = "none"
    /\ conn = NULL
    /\ main = "away"
    /\ tcpstatus = 0 /\ tcpconn = 0
    /\ webcamnet = NULL
    /\ live = {} /\ broken = {}
    /\ waiting = FALSE
    /\ cutoff = FALSE /\ hasty = FALSE /\ unheard = FALSE

-----------------------------------------------------------------------------
(* The DMA interrupt.                                                       *)

\* Mutant: the index is wrapped one too late.
NextPosLate(p) == IF p + 1 > FifoNum THEN 0 ELSE p + 1

NextPos(p) == IF p + 1 >= FifoNum THEN 0 ELSE p + 1

\* Mutant: the oldest block is written over when the FIFO is full.
FifoFullNever == FALSE

FifoFull == NextPos(webcamfifowrpos) = webcamfifordpos

NextBlock == (block % MaxBlock) + 1

\* webcam_fifo_write of a DMA buffer: nothing is stored in a full FIFO. At most
\* one interrupt falls into a webcam_fifo_read.
WebcamDcmiRxCallback ==
    /\ dcmi
    /\ ~burst
    /\ burst' = (send \in {"wrap", "take"})
    /\ block' = NextBlock
    /\ IF FifoFull
       THEN UNCHANGED <<webcamfifowrpos, webcamfifobuf, histVars>>
       ELSE /\ webcamfifowrpos' = NextPos(webcamfifowrpos)
            /\ webcamfifobuf' = [webcamfifobuf EXCEPT ![webcamfifowrpos'] = NextBlock]
    /\ UNCHANGED <<webcamfifordpos, dcmi, status, send, conn, main, netVars, histVars>>

-----------------------------------------------------------------------------
(* webcam_send_task.                                                        *)

DelayOver ==
    /\ send = "nap"
    /\ send' = "top"
    /\ UNCHANGED <<fifoVars, camVars, status, conn, main, netVars, histVars>>

\* a turn with nothing to send
SendNothing ==
    /\ send = "top"
    /\ \/ status = 2
       \/ status = 1 /\ webcamfifordpos = webcamfifowrpos
    /\ send' = "nap"
    /\ UNCHANGED <<fifoVars, camVars, status, conn, main, netVars, histVars>>

\* webcam_fifo_read: the read index moves ...
FifoRead ==
    /\ send = "top"
    /\ status = 1
    /\ webcamfifordpos # webcamfifowrpos
    /\ webcamfifordpos' = webcamfifordpos + 1
    /\ send' = "wrap"
    /\ UNCHANGED <<webcamfifowrpos, webcamfifobuf, camVars, status, conn, main, netVars, histVars>>

\* ... is wrapped ...
FifoReadWrap ==
    /\ send = "wrap"
    /\ webcamfifordpos' = IF webcamfifordpos >= FifoNum THEN 0 ELSE webcamfifordpos
    /\ send' = "take"
    /\ UNCHANGED <<webcamfifowrpos, webcamfifobuf, camVars, status, conn, main, netVars, histVars>>

\* ... and names the buffer that netconn_write is called with
NetconnWrite ==
    /\ send = "take"
    /\ send' = "write"
    /\ conn' = webcamnet
    /\ burst' = FALSE
    /\ UNCHANGED <<fifoVars, dcmi, block, status, main, netVars, histVars>>

\* the write is over; what became of the server in it no longer matters
WriteOver ==
    /\ send = "write"
    /\ send' = "top"
    /\ conn' = NULL
    /\ cutoff' = FALSE
    /\ UNCHANGED <<fifoVars, camVars, main, netVars, hasty>>

\* the block has been sent, or lost for want of memory
WriteReturns ==
    /\ WriteOver
    /\ conn \in live \ broken
    /\ UNCHANGED <<status, unheard>>

\* Mutant: the task does not tell that its client has gone.
WriteFailsUnseen ==
    /\ WriteOver
    /\ conn \in broken
    /\ UNCHANGED <<status, unheard>>

\* webcam_send_task_stop
SendTaskStop ==
    /\ status' = 2
    /\ unheard' = (unheard \/ status = 255)

\* ERR_ABRT, ERR_RST or ERR_CLSD
WriteFails ==
    /\ WriteOver
    /\ conn \in broken
    /\ SendTaskStop

\* the connection was freed in the meantime: any result may come back
WriteOnFreed ==
    /\ WriteOver
    /\ conn \notin live
    /\ SendTaskStop \/ UNCHANGED <<status, unheard>>

\* the request to end; nobody runs between the answer and OSTaskDel
SendTaskEnds ==
    /\ send = "top"
    /\ status = 255
    /\ status' = 0
    /\ send' = "none"
    /\ UNCHANGED <<fifoVars, camVars, conn, main, netVars, histVars>>

-----------------------------------------------------------------------------
(* main_task: webcam_run.                                                   *)

MainRuns == send \in {"none", "nap", "write"}
Step(from, to) == MainRuns /\ main = from /\ main' = to

\* the camera is started and the task created
WebcamRun ==
    /\ Step("away", "button")
    /\ dcmi' = TRUE
    /\ status' = 2
    /\ send' = "top"
    /\ UNCHANGED <<fifoVars, block, burst, conn, netVars, histVars>>

\* There is no memory for its stack (status is as it was), or OSTaskCreate
\* fails (status is set). The loop is passed over; what follows it is not.
WebcamRunFails ==
    /\ Step("away", "stop")
    /\ dcmi' = TRUE
    /\ status' \in {status, 2}
    /\ UNCHANGED <<fifoVars, block, burst, send, conn, netVars, histVars>>

\* webcamnet points to a connection that has been deleted
Dangling == webcamnet \notin live \cup {NULL}

NoButton ==
    /\ Step("button", "accept")
    /\ UNCHANGED <<fifoVars, camVars, status, send, conn, netVars, histVars>>

\* the server is opened
PressOpen ==
    /\ Step("button", "accept")
    /\ tcpstatus = 0
    /\ tcpstatus' = 1
    /\ tcpconn' = 0
    /\ UNCHANGED <<fifoVars, camVars, status, send, conn, webcamnet, live, broken, waiting, histVars>>

\* netconn_bind or netconn_listen fails: what was opened is closed again
PressOpenFails ==
    /\ Step("button", "close")
    /\ tcpstatus = 0
    /\ tcpconn' = 0
    /\ status' = 2
    /\ UNCHANGED <<fifoVars, camVars, send, conn, tcpstatus, webcamnet, live, broken, waiting, histVars>>

\* Mutant: the task goes on sending while the connection is closed.
PressCloseSends ==
    /\ Step("button", "close")
    /\ tcpstatus = 1
    /\ tcpstatus' = 0
    /\ tcpconn' = 0
    /\ cutoff' = (cutoff \/ send = "write")
    /\ hasty' = Dangling
    /\ UNCHANGED <<fifoVars, camVars, status, send, conn, webcamnet, live, broken, waiting, unheard>>

\* the server is to be closed: webcam_send_task_stop ...
PressClose ==
    /\ Step("button", "close")
    /\ tcpstatus = 1
    /\ tcpstatus' = 0
    /\ tcpconn' = 0
    /\ cutoff' = (cutoff \/ send = "write")
    /\ hasty' = Dangling
    /\ status' = 2
    /\ UNCHANGED <<fifoVars, camVars, send, conn, webcamnet, live, broken, waiting, unheard>>

\* net_disconnect(netconnnew, c): the server, with the client that waits in its
\* mailbox, and the connection
Disconnect(c) ==
    /\ live' = live \ {c}
    /\ broken' = broken \ {c}

\* ... and net_disconnect
Close ==
    /\ Step("close", "accept")
    /\ Disconnect(webcamnet)
    /\ webcamnet' = NULL
    /\ waiting' = FALSE
    /\ hasty' = FALSE
    /\ UNCHANGED <<fifoVars, camVars, status, send, conn, tcpstatus, tcpconn, cutoff, unheard>>

Unconnected == tcpconn = 0 /\ tcpstatus = 1

\* netconn_accept finds a client ...
AcceptClient ==
    /\ Step("accept", "start")
    /\ Unconnected
    /\ waiting
    /\ waiting' = FALSE
    /\ \E c \in Conns \ live:
           /\ live' = live \cup {c}
           /\ webcamnet' = c
    /\ tcpconn' = 1
    /\ UNCHANGED <<fifoVars, camVars, status, send, conn, tcpstatus, broken, histVars>>

\* ... and webcam_send_task_start
SendTaskStart ==
    /\ Step("start", "return")
    /\ status' = 1
    /\ UNCHANGED <<fifoVars, camVars, send, conn, netVars, histVars>>

\* ... or does not: it has cleared the pointer all the same
AcceptTimeout ==
    /\ Step("accept", "return")
    /\ Unconnected
    /\ ~waiting
    /\ webcamnet' = NULL
    /\ UNCHANGED <<fifoVars, camVars, status, send, conn, tcpstatus, tcpconn, live, broken, waiting, histVars>>

Gone == ~Unconnected /\ status = 2

\* Mutant: the connection is forgotten and not deleted.
ClientGoneKept ==
    /\ Step("accept", "return")
    /\ Gone
    /\ tcpconn' = 0
    /\ UNCHANGED <<fifoVars, camVars, status, send, conn, tcpstatus, webcamnet, live, broken, waiting, histVars>>

\* the task has found that its client has gone; webcamnet is not cleared
ClientGone ==
    /\ Step("accept", "return")
    /\ Gone
    /\ Disconnect(webcamnet)
    /\ tcpconn' = 0
    /\ UNCHANGED <<fifoVars, camVars, status, send, conn, tcpstatus, webcamnet, waiting, histVars>>

Connected ==
    /\ Step("accept", "return")
    /\ ~Unconnected /\ status # 2
    /\ UNCHANGED <<fifoVars, camVars, status, send, conn, netVars, histVars>>

NoReturn ==
    /\ Step("return", "button")
    /\ UNCHANGED <<fifoVars, camVars, status, send, conn, netVars, histVars>>

Return ==
    /\ Step("return", "stop")
    /\ hasty' = Dangling
    /\ UNCHANGED <<fifoVars, camVars, status, send, conn, netVars, cutoff, unheard>>

\* webcam_send_task_stop, DCMI_Stop
Stop ==
    /\ Step("stop", "delete")
    /\ status' = 2
    /\ dcmi' = FALSE
    /\ UNCHANGED <<fifoVars, block, burst, send, conn, netVars, histVars>>

\* Mutant: the task is asked to pause and not to end.
SendTaskDeletePauses ==
    /\ Step("delete", "wait")
    /\ status' = 2
    /\ UNCHANGED <<fifoVars, camVars, send, conn, netVars, histVars>>

\* webcam_send_task_delete: the request ...
SendTaskDelete ==
    /\ Step("delete", "wait")
    /\ status' = 255
    /\ UNCHANGED <<fifoVars, camVars, send, conn, netVars, histVars>>

\* ... and the wait
SendTaskDeleted ==
    /\ Step("wait", "leave")
    /\ status = 0
    /\ UNCHANGED <<fifoVars, camVars, status, send, conn, netVars, histVars>>

\* all is closed and the buffers freed; the two positions stay as they are
Leave ==
    /\ Step("leave", "away")
    /\ Disconnect(webcamnet)
    /\ webcamnet' = NULL
    /\ waiting' = FALSE
    /\ tcpstatus' = 0 /\ tcpconn' = 0
    /\ webcamfifobuf' = [i \in Slots |-> NoBlock]
    /\ block' = NoBlock
    /\ hasty' = FALSE
    /\ UNCHANGED <<webcamfifordpos, webcamfifowrpos, dcmi, burst, status, send, conn,
                   cutoff, unheard>>

-----------------------------------------------------------------------------
(* The other side.                                                          *)

ClientConnects ==
    /\ tcpstatus = 1
    /\ ~waiting
    /\ waiting' = TRUE
    /\ UNCHANGED <<fifoVars, camVars, status, send, conn, main, tcpstatus, tcpconn,
                   webcamnet, live, broken, histVars>>

ClientGoes ==
    /\ \E c \in live \ broken: broken' = broken \cup {c}
    /\ UNCHANGED <<fifoVars, camVars, status, send, conn, main, tcpstatus, tcpconn,
                   webcamnet, live, waiting, histVars>>

Turn == \/ DelayOver \/ SendNothing \/ FifoRead \/ FifoReadWrap \/ NetconnWrite
        \/ SendTaskEnds

SendTask == Turn \/ WriteReturns \/ WriteFails \/ WriteOnFreed

MainCode == \/ NoButton \/ Close \/ AcceptClient \/ SendTaskStart \/ AcceptTimeout
            \/ ClientGone \/ Connected \/ NoReturn
            \/ Stop \/ SendTaskDelete \/ SendTaskDeleted \/ Leave

User == WebcamRun \/ WebcamRunFails \/ PressOpen \/ PressOpenFails \/ PressClose \/ Return

Next == WebcamDcmiRxCallback \/ SendTask \/ MainCode \/ User \/ ClientConnects \/ ClientGoes

Spec == Init /\ [][Next]_vars

\* The DMA and the task of priority 2 wait for nobody, and lwIP lets a write fail
\* when it knows that the client has gone; a client that takes nothing may keep
\* netconn_write for ever. main_task runs whenever the task waits.
FairSpec ==
    /\ Spec
    /\ WF_vars(WebcamDcmiRxCallback)
    /\ WF_vars(Turn)
    /\ WF_vars(WriteFails)
    /\ SF_vars(MainCode)

-----------------------------------------------------------------------------
(* Nothing is used after it was freed: the task is never inside             *)
(* netconn_write with a connection that was deleted, main_task deletes none *)
(* twice, and the stack of the task and the buffers are freed only when the *)
(* task is gone and the DMA is off (webcamera.c:144, 170, 398, 423, 447).   *)
SendsOnLive == send = "write" => conn \in live
DeletesOnce ==
    main \in {"close", "leave"} \/ (main = "accept" /\ Gone) => ~Dangling
FreesAtRest == main \in {"leave", "away"} => send = "none" /\ ~dcmi

(* webcam_send_task_stop, which only sets a flag, does not stop a write: the *)
(* connection is freed under it (webcamera.c:394-398). That, and a button    *)
(* between the end of a connection and the next netconn_accept               *)
(* (webcamera.c:423), are the two ways in which something is used after it   *)
(* was freed, and the first lasts for that write only: no other order of     *)
(* buttons, clients and turns of the two tasks leads there.                  *)
FreedIsNotUsed ==
    /\ ~cutoff => SendsOnLive
    /\ ~hasty => DeletesOnce
    /\ FreesAtRest

(* The task sends only while there is a client, and no connection is        *)
(* forgotten: each is deleted before main_task loses its address            *)
(* (webcamera.c:394-424).                                                   *)
SendsToClient ==
    /\ status = 1 => webcamnet \in live /\ tcpconn = 1
    /\ live \subseteq {webcamnet}

Handed == IF webcamfifordpos >= FifoNum THEN 0 ELSE webcamfifordpos
QueueLen == (webcamfifowrpos + FifoNum - Handed) % FifoNum
Queue == [i \in 1..QueueLen |-> webcamfifobuf[(Handed + i) % FifoNum]]

Fifo == INSTANCE BoundedFifo WITH
    Capacity <- FifoNum - 1, queue <- Queue, taken <- webcamfifobuf[Handed]

fifoView == <<Queue, webcamfifobuf[Handed]>>

(* The ring is a queue: the client gets the blocks in the order in which    *)
(* they were captured, and the one netconn_write is working on is not       *)
(* written over (webcamera.c:86-112). Freeing the buffers is no step of it. *)
StreamIsFifo == Fifo!Init /\ [][main = "leave" \/ Fifo!Put \/ Fifo!Take]_fifoView

(* main_task waits for the task without a limit (webcamera.c:137-145). Its  *)
(* wait ends, if no netconn_write lasts for ever, unless there is no task   *)
(* or the task wrote its own status over the request.                       *)
DeleteEnds ==
    []<>(send # "write")
        => (main = "wait" /\ send # "none") ~> (main = "leave" \/ unheard)

(* When a client goes, its place becomes free for another, unless main_task *)
(* hangs in that wait (webcamera.c:171-174, 421-425). Only a write that was *)
(* begun for an earlier client may keep the task from seeing it.            *)
PlaceFreed ==
    (webcamnet \in broken /\ tcpconn = 1 /\ ~cutoff)
        ~> (tcpconn = 0 \/ main = "wait")

=============================================================================
