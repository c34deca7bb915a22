------------------------------- MODULE Recorder -------------------------------
(***************************************************************************)
(* The sound recorder (recorder.c): the DMA interrupt puts each block of    *)
(* samples into a ring of FifoSize buffers, main_task takes them out and    *)
(* writes them to a WAV file.                                               *)
(*                                                                          *)
(* A block is <<take, n>>, the n-th block of a recording. Blocks that are   *)
(* captured while nothing is recorded are not copied and not modelled.      *)
(***************************************************************************)
EXTENDS Naturals, Sequences

CONSTANTS
    FifoSize,       \* SAI_RX_FIFO_SIZE
    Drives,         \* disks a recording may go to: "sd", "udisk"
    MaxTake,        \* bound: blocks captured in one recording
    MaxBurst        \* bound: interrupts that fall into one rec_sai_fifo_read

ASSUME FifoSizeAssumption == FifoSize \in Nat \ {0, 1}
ASSUME DrivesAssumption == Drives \subseteq {"sd", "udisk"} /\ Drives # {}
ASSUME BoundsAssumption == MaxTake \in Nat /\ MaxBurst \in Nat

VARIABLES
    sairecfifordpos,
    sairecfifowrpos,
    sairecfifobuf,
    rec_sta,        \* "off", "on" (0X80) or "paused" (0X81)
    file,           \* the blocks in the file; NoFile when none is open
    drive,          \* the disk of the file
    rp,             \* where main_task is
    take, cap,      \* the recording and the blocks captured in it
    irq,            \* the block whose DMA interrupt is pending, or NoBlock
    burst,          \* interrupts since rec_sai_fifo_read was entered
    stale           \* no variable of the program: the ring still held blocks of
                    \* another recording when this one began

fifoVars == <<sairecfifordpos, sairecfifowrpos, sairecfifobuf>>
fileVars == <<file, drive, stale>>
dmaVars  == <<take, cap, irq, burst>>
rvars    == <<fifoVars, rec_sta, fileVars, rp, dmaVars>>

NoBlock == <<0, 0>>
Blocks  == {NoBlock} \cup ((0..1) \X (1..MaxTake))
Slots   == 0..(FifoSize - 1)
Closed  == <<2, 0>>     \* a block of no recording
NoFile  == <<Closed>>
NoDrive == CHOOSE d \in Drives: TRUE

RecTypeOK ==
    /\ sairecfifordpos \in 0..FifoSize
    /\ sairecfifowrpos \in Slots
    /\ sairecfifobuf \in [Slots -> Blocks]
    /\ rec_sta \in {"off", "on", "paused"}
    /\ file \in Seq(Blocks \cup {Closed})
    /\ stale \in BOOLEAN
    /\ drive \in Drives
    /\ rp \in {"away", "loop", "wrap", "take", "write", "idle", "open", "header",
              "failed", "leaving"}
    /\ take \in 0..1
    /\ cap \in 0..MaxTake
    /\ irq \in Blocks
    /\ burst \in Nat

RecInit ==
    /\ sairecfifordpos = 0
    /\ sairecfifowrpos = 0
    /\ sairecfifobuf = [i \in Slots |-> NoBlock]
    /\ rec_sta = "off"
    /\ file = NoFile
    /\ stale = FALSE
    /\ drive = NoDrive
    /\ rp = "away"
    /\ take = 0
    /\ cap = 0
    /\ irq = NoBlock
    /\ burst = 0

-----------------------------------------------------------------------------
(* The DMA and its interrupt.                                               *)

\* ff_enter masks all interrupts while FatFs works on any disk but the U disk
Masked == drive = "sd" /\ rp \in {"open", "header", "write"}

\* The DMA has filled a buffer. The interrupt flag holds one event: what it
\* finds pending is forgotten.
Capture ==
    /\ rec_sta = "on"
    /\ rp \notin {"away", "leaving"}
    /\ cap < MaxTake
    /\ irq = NoBlock \/ Masked
    /\ rp \in {"wrap", "take"} => burst < MaxBurst
    /\ cap' = cap + 1
    /\ irq' = <<take, cap + 1>>
    /\ burst' = IF rp \in {"wrap", "take"} THEN burst + 1 ELSE burst
    /\ UNCHANGED <<fifoVars, rec_sta, fileVars, rp, take>>

\* Mutant: the index is wrapped one too late.
NextPosLate(p) == IF p + 1 > FifoSize THEN 0 ELSE p + 1

NextPos(p) == IF p + 1 >= FifoSize THEN 0 ELSE p + 1

\* Mutant: the oldest block is overwritten when the FIFO is full.
FifoFullNever == FALSE

\* Mutant: the FIFO is full one block too early.
FifoFullEarly == NextPos(NextPos(sairecfifowrpos)) = sairecfifordpos

FifoFull == NextPos(sairecfifowrpos) = sairecfifordpos

\* rec_sai_fifo_write: the block is dropped when the FIFO is full
FifoWrite(b) ==
    IF FifoFull
    THEN UNCHANGED <<sairecfifowrpos, sairecfifobuf>>
    ELSE /\ sairecfifowrpos' = NextPos(sairecfifowrpos)
         /\ sairecfifobuf' = [sairecfifobuf EXCEPT ![sairecfifowrpos'] = b]

RecSaiDmaRxCallback ==
    /\ irq # NoBlock
    /\ ~Masked
    /\ irq' = NoBlock
    /\ IF rec_sta = "on" THEN FifoWrite(irq)
                         ELSE UNCHANGED <<sairecfifowrpos, sairecfifobuf>>
    /\ UNCHANGED <<sairecfifordpos, rec_sta, fileVars, rp, take, cap, burst>>

-----------------------------------------------------------------------------
(* main_task.                                                               *)

\* main_task runs when no interrupt is to be served
RecRuns == irq = NoBlock \/ Masked

Step(from, to) == rp = from /\ rp' = to

\* rec_sai_fifo_read: is there a block? The read index moves first ...
FifoRead ==
    /\ RecRuns
    /\ rp = "loop"
    /\ IF sairecfifordpos = sairecfifowrpos
       THEN rp' = "idle" /\ UNCHANGED sairecfifordpos
       ELSE rp' = "wrap" /\ sairecfifordpos' = sairecfifordpos + 1
    /\ burst' = 0
    /\ UNCHANGED <<sairecfifowrpos, sairecfifobuf, rec_sta, fileVars, take, cap, irq>>

\* ... then it is wrapped ...
FifoReadWrap ==
    /\ RecRuns
    /\ Step("wrap", "take")
    /\ sairecfifordpos' = IF sairecfifordpos >= FifoSize THEN 0 ELSE sairecfifordpos
    /\ UNCHANGED <<sairecfifowrpos, sairecfifobuf, rec_sta, fileVars, dmaVars>>

\* Mutant: the buffer is written although nothing is recorded.
FifoReadTakeAlways ==
    /\ RecRuns
    /\ Step("take", "write")
    /\ UNCHANGED <<fifoVars, rec_sta, fileVars, dmaVars>>

\* ... and the buffer it names is handed out
FifoReadTake ==
    /\ RecRuns
    /\ rp = "take"
    /\ rp' = IF rec_sta = "off" THEN "idle" ELSE "write"
    /\ UNCHANGED <<fifoVars, rec_sta, fileVars, dmaVars>>

\* f_write of the buffer; when it fails the block is lost, and the recorder goes on
FWrite ==
    /\ Step("write", "idle")
    /\ RecRuns
    /\ file' \in {file, Append(file, sairecfifobuf[sairecfifordpos])}
    /\ UNCHANGED <<fifoVars, rec_sta, drive, stale, dmaVars>>

NoButton ==
    /\ RecRuns
    /\ Step("idle", "loop")
    /\ UNCHANGED <<fifoVars, rec_sta, fileVars, dmaVars>>

\* the record button: pause, go on, or begin a new file
RecPause ==
    /\ RecRuns
    /\ Step("idle", "loop")
    /\ \/ rec_sta = "on" /\ rec_sta' = "paused"
       \/ rec_sta = "paused" /\ rec_sta' = "on"
    /\ UNCHANGED <<fifoVars, fileVars, dmaVars>>

\* what the last recording left in the ring stays there
RecStart ==
    /\ RecRuns
    /\ Step("idle", "open")
    /\ rec_sta = "off"
    /\ rec_sta' = "on"
    /\ drive' \in Drives
    /\ take' = 1 - take
    /\ cap' = 0
    /\ stale' = (sairecfifordpos # sairecfifowrpos)
    /\ UNCHANGED <<fifoVars, file, irq, burst>>

\* f_open
RecOpen ==
    /\ RecRuns
    /\ Step("open", "header")
    /\ file' = << >>
    /\ UNCHANGED <<fifoVars, rec_sta, drive, stale, dmaVars>>

\* f_write of the header
RecHeader ==
    /\ RecRuns
    /\ Step("header", "loop")
    /\ UNCHANGED <<fifoVars, rec_sta, fileVars, dmaVars>>

\* the file cannot be created: the recorder gives up
RecOpenFails ==
    /\ RecRuns
    /\ Step("open", "failed")
    /\ UNCHANGED <<fifoVars, rec_sta, fileVars, dmaVars>>

RecGiveUp ==
    /\ RecRuns
    /\ Step("failed", "leaving")
    /\ rec_sta' = "off"
    /\ UNCHANGED <<fifoVars, fileVars, dmaVars>>

\* the header is written over and the file closed
RecStop ==
    /\ RecRuns
    /\ Step("idle", "loop")
    /\ rec_sta # "off"
    /\ rec_sta' = "off"
    /\ file' = NoFile
    /\ UNCHANGED <<fifoVars, drive, stale, dmaVars>>

\* recorder_play: nothing is recorded, whatever the last visit left behind
RecEnter ==
    /\ Step("away", "loop")
    /\ rec_sta' = "off"
    /\ UNCHANGED <<fifoVars, fileVars, dmaVars>>

\* the return button stops the DMA; a recording under way is saved or given up
RecReturn ==
    /\ RecRuns
    /\ Step("idle", "leaving")
    /\ file' = NoFile
    /\ UNCHANGED <<fifoVars, rec_sta, drive, stale, dmaVars>>

\* The buffers are freed; the two positions stay as they are. What RecEnter
\* sets is cleared here already, so that nothing of it outlives the visit.
RecLeave ==
    /\ Step("leaving", "away")
    /\ sairecfifobuf' = [i \in Slots |-> NoBlock]
    /\ rec_sta' = "off"
    /\ stale' = FALSE
    /\ take' = 0
    /\ cap' = 0
    /\ burst' = 0
    /\ drive' = NoDrive
    /\ UNCHANGED <<sairecfifordpos, sairecfifowrpos, file, irq>>

RecStay == \/ Capture \/ RecSaiDmaRxCallback
           \/ FifoRead \/ FifoReadWrap \/ FifoReadTake \/ FWrite \/ NoButton
           \/ RecPause \/ RecStart \/ RecOpen \/ RecHeader \/ RecStop
           \/ RecOpenFails \/ RecGiveUp \/ RecReturn

RecNext == RecStay \/ RecEnter \/ RecLeave

RecSpec == RecInit /\ [][RecNext]_rvars

-----------------------------------------------------------------------------
\* the position of the block handed out last, once the read index has moved
Handed == IF sairecfifordpos >= FifoSize THEN 0 ELSE sairecfifordpos

QueueLen == (sairecfifowrpos + FifoSize - Handed) % FifoSize

\* the blocks in the ring, oldest first
Queue == [i \in 1..QueueLen |-> sairecfifobuf[(Handed + i) % FifoSize]]

Fifo == INSTANCE BoundedFifo WITH
    Blocks <- Blocks, Capacity <- FifoSize - 1,
    queue <- Queue, taken <- sairecfifobuf[Handed]

fifoView == <<Queue, sairecfifobuf[Handed]>>

(* The ring is a queue (recorder.c:93-118): blocks come out in order, and   *)
(* the buffer handed to f_write is not written over before the next one is  *)
(* taken, although the interrupt finds the read index between two values.   *)
(* Only leaving the recorder, which frees the buffers, is no step of it.    *)
ImplementsFifo == Fifo!Init /\ [][rp = "leaving" \/ Fifo!Put \/ Fifo!Take]_fifoView

(* What the interrupt brings while a recording is on is dropped only when    *)
(* the ring is full (recorder.c:111). A block that never gets as far, since  *)
(* f_write masked its interrupt until the next one came, is lost whatever    *)
(* room the ring has (diskio.c:283-290).                                     *)
Kept ==
    (irq # NoBlock /\ irq' = NoBlock /\ rec_sta = "on" /\ QueueLen < FifoSize - 1)
        => Queue' = Append(Queue, irq)
KeptIfRoom == [][Kept]_rvars

(* The file under way holds blocks of this recording only, in the order in  *)
(* which they were captured, whichever of them a failed f_write lost, unless *)
(* the ring was not empty when the recording began (recorder.c:514-521).     *)
FileInOrder ==
    file # NoFile /\ ~stale =>
        \A i \in DOMAIN file:
            /\ file[i][1] = take
            /\ \A j \in DOMAIN file: i < j => file[i][2] < file[j][2]

=============================================================================
