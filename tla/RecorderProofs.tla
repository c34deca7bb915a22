---------------------------- MODULE RecorderProofs ----------------------------
(* Proofs about Recorder for every length of the FIFO, every set of drives   *)
(* and any number of blocks in a recording.                                  *)
EXTENDS Recorder, RingLemmas

\* The parts of the type invariant: the ring, the file, the program counters and
\* what the DMA has captured.
RecRing ==
    /\ sairecfifordpos \in 0..FifoSize
    /\ sairecfifowrpos \in Slots
    /\ sairecfifobuf \in [Slots -> Blocks]
RecFile ==
    /\ file \in Seq(Blocks \cup {Closed})
    /\ stale \in BOOLEAN
RecPhases ==
    /\ rec_sta \in {"off", "on", "paused"}
    /\ drive \in Drives
    /\ rp \in {"away", "loop", "wrap", "take", "write", "idle", "open", "header",
              "failed", "leaving"}
RecDma ==
    /\ take \in 0..1
    /\ cap \in 0..MaxTake
    /\ irq \in Blocks
    /\ burst \in Nat

\* The read index leaves the ring only inside rec_sai_fifo_read.
RecReadIndex == rp # "wrap" => sairecfifordpos \in Slots

\* There, an interrupt finds room in any ring; but the one that may fall into it
\* finds a buffer that is free.
RoomBehind ==
    /\ burst <= MaxBurst
    /\ rp \in {"wrap", "take"} /\ burst = 0 => irq = NoBlock
    /\ sairecfifordpos = FifoSize =>
           sairecfifowrpos # FifoSize - 1 \/ (burst = 1 /\ irq = NoBlock)

\* A file is open while something is recorded, but for the time in which it is
\* being opened.
Recording == rec_sta # "off" /\ rp # "leaving"
FileOpen ==
    /\ rp \in {"open", "header", "failed"} => rec_sta = "on"
    /\ rp = "write" => rec_sta # "off"
    /\ file # NoFile <=> Recording /\ rp \notin {"open", "failed"}
    /\ rp = "away" => rec_sta = "off"

\* Sequence q holds blocks of recording t in order, none later than the m-th.
InTake(q, t, m) ==
    \A i \in 1..Len(q):
        /\ q[i][1] = t
        /\ q[i][2] \in 1..m
        /\ \A j \in 1..Len(q): i < j => q[i][2] < q[j][2]

\* Every block of p was captured before every block of q.
Precedes(p, q) == \A i \in 1..Len(p), j \in 1..Len(q): p[i][2] < q[j][2]

\* The last block whose interrupt has been served or forgotten.
Served == IF irq = NoBlock THEN cap ELSE cap - 1

\* The block that rec_sai_fifo_read has handed out, or is about to.
InHand == IF rp \in {"wrap", "take", "write"} THEN <<sairecfifobuf[Handed]>> ELSE << >>

\* What is recorded is in order on its way from the interrupt over the ring and
\* the buffer that was handed out to the file.
OnItsWay ==
    Recording /\ ~stale =>
        /\ irq # NoBlock => irq = <<take, cap>>
        /\ InTake(Queue, take, Served)
        /\ InTake(InHand, take, Served)
        /\ Precedes(InHand, Queue)
        /\ file # NoFile =>
               /\ InTake(file, take, Served)
               /\ Precedes(file, InHand)
               /\ Precedes(file, Queue)
-----------------------------------------------------------------------------
(* Sequences of blocks.                                                      *)

LEMMA InTakeLater ==
    ASSUME NEW q, NEW t, NEW m \in Int, NEW n \in Int, m <= n, InTake(q, t, m)
    PROVE  InTake(q, t, n)
BY DEF InTake

LEMMA AppendInTake ==
    ASSUME NEW S, NEW q \in Seq(S), NEW t, NEW n \in Int,
           NEW b \in S, b[1] = t, b[2] \in 1..n, InTake(q, t, n),
           \A i \in 1..Len(q): q[i][2] < b[2]
    PROVE  InTake(Append(q, b), t, n)
<1> DEFINE r == Append(q, b)
<1>1. /\ Len(r) = Len(q) + 1 /\ Len(q) \in Nat
      /\ \A i \in 1..Len(q): r[i] = q[i]
      /\ r[Len(q) + 1] = b
  BY AppendProperties, LenProperties
<1> HIDE DEF r
<1>2. ASSUME NEW i \in 1..Len(r)
      PROVE  /\ r[i][1] = t /\ r[i][2] \in 1..n
             /\ i \in 1..Len(q) => r[i][2] < b[2]
  <2>1. CASE i = Len(q) + 1
    BY <1>1, <2>1
  <2>2. CASE i \in 1..Len(q)
    <3>1. q[i][1] = t /\ q[i][2] \in 1..n
      BY <2>2 DEF InTake
    <3> QED
      BY <1>1, <2>2, <3>1
  <2> QED
    BY <1>1, <2>1, <2>2
<1>3. ASSUME NEW i \in 1..Len(r), NEW j \in 1..Len(r), i < j
      PROVE  r[i][2] < r[j][2]
  <2>1. i \in 1..Len(q)
    BY <1>1, <1>3
  <2>2. CASE j = Len(q) + 1
    BY <1>1, <1>2, <2>1, <2>2
  <2>3. CASE j \in 1..Len(q)
    BY <1>1, <1>3, <2>1, <2>3 DEF InTake
  <2> QED
    BY <1>1, <2>2, <2>3
<1> QED
  BY <1>2, <1>3 DEF InTake, r

LEMMA InTakePut ==
    ASSUME NEW S, NEW q \in Seq(S), NEW t, NEW m \in Int, NEW n \in Int,
           NEW b \in S, b[1] = t, b[2] \in 1..n, m < b[2], m <= n, InTake(q, t, m)
    PROVE  InTake(Append(q, b), t, n)
<1>1. InTake(q, t, n)
  BY InTakeLater
<1>2. \A i \in 1..Len(q): q[i][2] < b[2]
  <2>1. \A i \in 1..Len(q): q[i][2] \in 1..m
    BY DEF InTake
  <2> QED
    BY <2>1
<1> QED
  BY <1>1, <1>2, AppendInTake

LEMMA PrecedesPut ==
    ASSUME NEW S, NEW q \in Seq(S), NEW b \in S, NEW p,
           Precedes(p, q), \A i \in 1..Len(p): p[i][2] < b[2]
    PROVE  Precedes(p, Append(q, b))
<1>1. /\ Len(Append(q, b)) = Len(q) + 1 /\ Len(q) \in Nat
      /\ \A i \in 1..Len(q): Append(q, b)[i] = q[i]
      /\ Append(q, b)[Len(q) + 1] = b
  BY AppendProperties, LenProperties
<1>2. ASSUME NEW i \in 1..Len(p), NEW j \in 1..(Len(q) + 1)
      PROVE  p[i][2] < Append(q, b)[j][2]
  <2>1. CASE j = Len(q) + 1
    BY <1>1, <2>1
  <2>2. CASE j \in 1..Len(q)
    BY <1>1, <2>2 DEF Precedes
  <2> QED
    BY <1>1, <2>1, <2>2
<1> QED
  BY <1>1, <1>2 DEF Precedes

LEMMA PutPrecedes ==
    ASSUME NEW S, NEW p \in Seq(S), NEW b \in S, NEW q,
           Precedes(p, q), Precedes(<<b>>, q)
    PROVE  Precedes(Append(p, b), q)
<1>1. /\ Len(Append(p, b)) = Len(p) + 1 /\ Len(p) \in Nat
      /\ \A i \in 1..Len(p): Append(p, b)[i] = p[i]
      /\ Append(p, b)[Len(p) + 1] = b
  BY AppendProperties, LenProperties
<1>2. \A j \in 1..Len(q): b[2] < q[j][2]
  <2>1. Len(<<b>>) = 1 /\ <<b>>[1] = b
    OBVIOUS
  <2> QED
    BY <2>1 DEF Precedes
<1>3. ASSUME NEW i \in 1..(Len(p) + 1), NEW j \in 1..Len(q)
      PROVE  Append(p, b)[i][2] < q[j][2]
  <2>1. CASE i = Len(p) + 1
    BY <1>1, <1>2, <2>1
  <2>2. CASE i \in 1..Len(p)
    BY <1>1, <2>2 DEF Precedes
  <2> QED
    BY <1>1, <2>1, <2>2
<1> QED
  BY <1>1, <1>3 DEF Precedes

\* What holds of a queue holds of its head and the rest.
LEMMA Taken ==
    ASSUME NEW S, NEW q \in Seq(S), q # << >>
    PROVE  /\ \A t, m: InTake(q, t, m) => /\ InTake(<<Head(q)>>, t, m)
                                          /\ InTake(Tail(q), t, m)
                                          /\ Precedes(<<Head(q)>>, Tail(q))
           /\ \A p: Precedes(p, q) => Precedes(p, <<Head(q)>>) /\ Precedes(p, Tail(q))
<1>1. /\ Len(Tail(q)) = Len(q) - 1 /\ Len(q) \in Nat /\ Len(q) >= 1
      /\ \A i \in 1..Len(Tail(q)): Tail(q)[i] = q[i + 1]
  BY HeadTailProperties, EmptySeq, LenProperties
<1>2. Len(<<Head(q)>>) = 1 /\ <<Head(q)>>[1] = q[1]
  BY HeadTailProperties
<1>3. \A i \in 1..Len(Tail(q)): i + 1 \in 1..Len(q) /\ 1 < i + 1
  BY <1>1
<1> DEFINE h == <<Head(q)>>
           u == Tail(q)
<1> HIDE DEF h, u
<1>4. 1 \in 1..Len(q)
  BY <1>1
<1>5. ASSUME NEW t, NEW m, InTake(q, t, m)
      PROVE  InTake(h, t, m) /\ InTake(u, t, m) /\ Precedes(h, u)
  <2>1. InTake(h, t, m)
    BY <1>2, <1>4, <1>5 DEF InTake, h
  <2>2. InTake(u, t, m)
    <3>1. \A i, j \in 1..Len(u): i < j => i + 1 < j + 1
      BY <1>1 DEF u
    <3> QED
      BY <1>1, <1>3, <1>5, <3>1 DEF InTake, u
  <2>3. Precedes(h, u)
    BY <1>1, <1>2, <1>3, <1>4, <1>5 DEF InTake, Precedes, h, u
  <2> QED
    BY <2>1, <2>2, <2>3
<1>6. ASSUME NEW p, Precedes(p, q)
      PROVE  Precedes(p, h) /\ Precedes(p, u)
  BY <1>1, <1>2, <1>3, <1>4, <1>6 DEF Precedes, h, u
<1> QED
  BY <1>5, <1>6 DEF h, u

LEMMA NothingInTake ==
    \A t, m, q: InTake(<< >>, t, m) /\ Precedes(<< >>, q) /\ Precedes(q, << >>)
BY DEF InTake, Precedes

-----------------------------------------------------------------------------
(* The type invariant.                                                       *)

LEMMA RecParts == RecTypeOK <=> RecRing /\ RecFile /\ RecPhases /\ RecDma
BY DEF RecTypeOK, RecRing, RecFile, RecPhases, RecDma

LEMMA NoBlockIsBlock == /\ NoBlock \in Blocks
                         /\ NoFile \in Seq(Blocks \cup {Closed})
                         /\ << >> \in Seq(Blocks \cup {Closed})
BY DEF NoBlock, NoFile, Closed, Blocks

LEMMA RecRingStep ==
    ASSUME RecRing, RecReadIndex, RecDma, [RecNext]_rvars
    PROVE  RecRing'
<1> USE DEF RecRing, fifoVars, fileVars, dmaVars, Step
<1>1. CASE RecSaiDmaRxCallback
  BY <1>1, FifoSizeAssumption
  DEF RecSaiDmaRxCallback, FifoWrite, FifoFull, NextPos, Slots, RecDma
<1>2. CASE FifoRead \/ FifoReadWrap \/ FifoReadTake
  BY <1>2, FifoSizeAssumption
  DEF FifoRead, FifoReadWrap, FifoReadTake, RecReadIndex, Slots
<1>3. CASE Capture \/ FWrite \/ NoButton \/ RecPause
        \/ RecHeader \/ RecOpenFails \/ RecGiveUp
  BY <1>3
  DEF Capture, FWrite, NoButton, RecPause, RecHeader, RecOpenFails, RecGiveUp
<1>4. CASE RecStart \/ RecOpen \/ RecStop \/ RecReturn \/ RecEnter
  BY <1>4
  DEF RecStart, RecOpen, RecStop, RecReturn, RecEnter
<1>5. CASE RecLeave
  BY <1>5, NoBlockIsBlock
  DEF RecLeave
<1>6. CASE UNCHANGED rvars
  BY <1>6 DEF rvars
<1> QED
  BY <1>1, <1>2, <1>3, <1>4, <1>5, <1>6
  DEF RecNext, RecStay

LEMMA RecReadIndexStep ==
    ASSUME RecRing, RecReadIndex, [RecNext]_rvars
    PROVE  RecReadIndex'
<1> USE DEF RecReadIndex, fifoVars, fileVars, dmaVars, Step
<1>1. CASE RecSaiDmaRxCallback
  BY <1>1
  DEF RecSaiDmaRxCallback
<1>2. CASE FifoRead \/ FifoReadWrap \/ FifoReadTake
  BY <1>2, FifoSizeAssumption
  DEF FifoRead, FifoReadWrap, FifoReadTake, RecRing, Slots
<1>3. CASE Capture \/ FWrite \/ NoButton \/ RecPause
        \/ RecHeader \/ RecOpenFails \/ RecGiveUp
  BY <1>3
  DEF Capture, FWrite, NoButton, RecPause, RecHeader, RecOpenFails, RecGiveUp
<1>4. CASE RecStart \/ RecOpen \/ RecStop \/ RecReturn \/ RecEnter
  BY <1>4
  DEF RecStart, RecOpen, RecStop, RecReturn, RecEnter
<1>5. CASE RecLeave
  BY <1>5
  DEF RecLeave
<1>6. CASE UNCHANGED rvars
  BY <1>6 DEF rvars
<1> QED
  BY <1>1, <1>2, <1>3, <1>4, <1>5, <1>6
  DEF RecNext, RecStay

LEMMA RecPhasesStep ==
    ASSUME RecPhases, [RecNext]_rvars
    PROVE  RecPhases'
<1> USE DEF RecPhases, fifoVars, fileVars, dmaVars, Step
<1>1. CASE RecSaiDmaRxCallback
  BY <1>1
  DEF RecSaiDmaRxCallback
<1>2. CASE FifoRead \/ FifoReadWrap \/ FifoReadTake
  BY <1>2
  DEF FifoRead, FifoReadWrap, FifoReadTake
<1>3. CASE Capture \/ FWrite \/ NoButton \/ RecPause
        \/ RecHeader \/ RecOpenFails \/ RecGiveUp
  BY <1>3
  DEF Capture, FWrite, NoButton, RecPause, RecHeader, RecOpenFails, RecGiveUp
<1>4. CASE RecStart \/ RecOpen \/ RecStop \/ RecReturn \/ RecEnter
  BY <1>4
  DEF RecStart, RecOpen, RecStop, RecReturn, RecEnter
<1>5. CASE RecLeave
  BY <1>5, DrivesAssumption
  DEF RecLeave, NoDrive
<1>6. CASE UNCHANGED rvars
  BY <1>6 DEF rvars
<1> QED
  BY <1>1, <1>2, <1>3, <1>4, <1>5, <1>6
  DEF RecNext, RecStay

LEMMA RecDmaStep ==
    ASSUME RecDma, [RecNext]_rvars
    PROVE  RecDma'
<1> USE DEF RecDma, fifoVars, fileVars, dmaVars, Step
<1>1. CASE RecSaiDmaRxCallback
  BY <1>1, NoBlockIsBlock
  DEF RecSaiDmaRxCallback
<1>2. CASE FifoRead \/ FifoReadWrap \/ FifoReadTake
  BY <1>2
  DEF FifoRead, FifoReadWrap, FifoReadTake
<1>3. CASE Capture
  BY <1>3, BoundsAssumption
  DEF Capture, Blocks
<1>4. CASE FWrite \/ NoButton \/ RecPause
        \/ RecHeader \/ RecOpenFails \/ RecGiveUp
  BY <1>4
  DEF FWrite, NoButton, RecPause, RecHeader, RecOpenFails, RecGiveUp
<1>5. CASE RecStart \/ RecOpen \/ RecStop \/ RecReturn \/ RecEnter
  BY <1>5, BoundsAssumption
  DEF RecStart, RecOpen, RecStop, RecReturn, RecEnter
<1>6. CASE RecLeave
  BY <1>6, BoundsAssumption
  DEF RecLeave
<1>7. CASE UNCHANGED rvars
  BY <1>7 DEF rvars
<1> QED
  BY <1>1, <1>2, <1>3, <1>4, <1>5, <1>6, <1>7
  DEF RecNext, RecStay

LEMMA RecFileStep ==
    ASSUME RecFile, RecRing, RecReadIndex, [RecNext]_rvars
    PROVE  RecFile'
<1> USE DEF RecFile, fifoVars, fileVars, dmaVars, Step
<1>1. CASE RecSaiDmaRxCallback
  BY <1>1
  DEF RecSaiDmaRxCallback
<1>2. CASE FifoRead \/ FifoReadWrap \/ FifoReadTake \/ Capture
  BY <1>2
  DEF FifoRead, FifoReadWrap, FifoReadTake, Capture
<1>3. CASE FWrite
  <2>1. sairecfifobuf[sairecfifordpos] \in Blocks
    BY <1>3 DEF FWrite, RecReadIndex, RecRing
  <2> QED
    BY <1>3, <2>1 DEF FWrite
<1>4. CASE NoButton \/ RecPause \/ RecHeader \/ RecOpenFails \/ RecGiveUp
  BY <1>4
  DEF NoButton, RecPause, RecHeader, RecOpenFails, RecGiveUp
<1>5. CASE RecStart
  BY <1>5, NoBlockIsBlock
  DEF RecStart
<1>6. CASE RecOpen
  BY <1>6, NoBlockIsBlock
  DEF RecOpen
<1>7. CASE RecStop \/ RecReturn
  BY <1>7, NoBlockIsBlock
  DEF RecStop, RecReturn
<1>8. CASE RecEnter
  BY <1>8
  DEF RecEnter
<1>9. CASE RecLeave
  BY <1>9, NoBlockIsBlock
  DEF RecLeave
<1>10. CASE UNCHANGED rvars
  BY <1>10 DEF rvars
<1> QED
  BY <1>1, <1>2, <1>3, <1>4, <1>5, <1>6, <1>7, <1>8, <1>9, <1>10
  DEF RecNext, RecStay

-----------------------------------------------------------------------------
(* The ring is a queue.                                                      *)

LEMMA RecQueueIsRing ==
    ASSUME RecRing
    PROVE  /\ Handed \in 0..(FifoSize - 1)
           /\ Queue = RingQueue(sairecfifobuf, Handed, sairecfifowrpos, FifoSize)
           /\ QueueLen = RingLen(Handed, sairecfifowrpos, FifoSize)
           /\ Queue \in Seq(Blocks)
           /\ Len(Queue) = QueueLen
           /\ sairecfifobuf[Handed] \in Blocks
<1>1. Handed \in 0..(FifoSize - 1)
  BY FifoSizeAssumption DEF RecRing, Handed
<1>2. /\ Queue = RingQueue(sairecfifobuf, Handed, sairecfifowrpos, FifoSize)
      /\ QueueLen = RingLen(Handed, sairecfifowrpos, FifoSize)
  BY DEF Queue, QueueLen, RingQueue, RingLen
<1> QED
  BY <1>1, <1>2, RingIsSeq, FifoSizeAssumption DEF RecRing, Slots

LEMMA RecQueueLen ==
    ASSUME RecRing
    PROVE  QueueLen = IF sairecfifowrpos >= Handed THEN sairecfifowrpos - Handed
                      ELSE sairecfifowrpos + FifoSize - Handed
<1> DEFINE r == Handed
           w == sairecfifowrpos
<1>1. r \in 0..(FifoSize - 1) /\ w \in 0..(FifoSize - 1)
  BY RecQueueIsRing DEF RecRing, Slots
<1>2. FifoSize \in Nat \ {0}
  BY FifoSizeAssumption
<1>3. QueueLen = RingLen(r, w, FifoSize)
  BY RecQueueIsRing
<1> HIDE DEF r, w
<1>4. QueueLen = IF w >= r THEN w - r ELSE w + FifoSize - r
  BY <1>1, <1>2, <1>3, RingLenIs
<1> QED
  BY <1>4 DEF r, w

\* A block that goes into a free buffer is appended.
LEMMA WriteAppends ==
    ASSUME RecRing, RecRing', RecDma, RecSaiDmaRxCallback,
           rec_sta = "on", ~FifoFull, NextPos(sairecfifowrpos) # Handed
    PROVE  /\ QueueLen < FifoSize - 1
           /\ Queue' = Append(Queue, irq)
           /\ Handed' = Handed
           /\ sairecfifobuf'[Handed'] = sairecfifobuf[Handed]
<1> DEFINE n == FifoSize
           r == Handed
           w == sairecfifowrpos
           f == sairecfifobuf
<1>1. Handed' = r
  BY DEF RecSaiDmaRxCallback, Handed
<1>2. /\ sairecfifowrpos' = NextPos(w)
      /\ sairecfifobuf' = [f EXCEPT ![sairecfifowrpos'] = irq]
  BY DEF RecSaiDmaRxCallback, FifoWrite
<1>3. sairecfifowrpos' = After(w, n) /\ sairecfifowrpos' # r
  BY <1>2 DEF NextPos, After
<1>4. /\ r \in 0..(n - 1) /\ w \in 0..(n - 1) /\ f \in [0..(n - 1) -> Blocks]
      /\ sairecfifowrpos' \in 0..(n - 1) /\ sairecfifobuf' \in [0..(n - 1) -> Blocks]
  BY RecQueueIsRing DEF RecRing, Slots
<1>5. /\ sairecfifobuf'[sairecfifowrpos'] = irq
      /\ \A i \in 0..(n - 1): i # sairecfifowrpos' => sairecfifobuf'[i] = f[i]
  BY <1>2, <1>4
<1>6. irq \in Blocks /\ FifoSize \in Nat \ {0, 1}
  BY FifoSizeAssumption DEF RecDma
<1>7. /\ Queue = RingQueue(f, r, w, n) /\ QueueLen = RingLen(r, w, n)
      /\ Queue' = RingQueue(sairecfifobuf', Handed', sairecfifowrpos', n)
  BY RecQueueIsRing DEF Queue, QueueLen, RingQueue, RingLen
<1> HIDE DEF n, r, w, f
<1>8. RingLen(r, w, n) < n - 1
  BY <1>3, <1>4, <1>5, <1>6, RingPut DEF n
<1>9. RingQueue(sairecfifobuf', r, sairecfifowrpos', n) = PutOn(RingQueue(f, r, w, n), irq)
  BY <1>3, <1>4, <1>5, <1>6, RingPut DEF n
<1>10. sairecfifobuf'[r] = f[r]
  BY <1>3, <1>4, <1>5, <1>6, RingPut DEF n
<1> QED
  BY <1>1, <1>7, <1>8, <1>9, <1>10 DEF n, r, w, f, PutOn

\* What the interrupt finds full is full, and what it finds free inside
\* rec_sai_fifo_read is free if no other one came before it.
LEMMA FullIsFull ==
    ASSUME RecRing
    PROVE  FifoFull => QueueLen = FifoSize - 1 /\ NextPos(sairecfifowrpos) = Handed
<1> DEFINE r == Handed
           w == sairecfifowrpos
<1>1. r \in 0..(FifoSize - 1) /\ w \in 0..(FifoSize - 1) /\ FifoSize \in Nat \ {0, 1}
  BY RecQueueIsRing, FifoSizeAssumption DEF RecRing, Slots
<1>2. QueueLen = IF w >= r THEN w - r ELSE w + FifoSize - r
  BY RecQueueLen
<1>3. FifoFull => NextPos(w) = r
  BY <1>1 DEF FifoFull, NextPos, Handed, RecRing
<1> QED
  BY <1>1, <1>2, <1>3 DEF NextPos

LEMMA FreeIsFree ==
    ASSUME RecRing, RecDma, RoomBehind, irq # NoBlock, ~FifoFull
    PROVE  NextPos(sairecfifowrpos) # Handed
<1>1. CASE sairecfifordpos = FifoSize
  BY <1>1, FifoSizeAssumption DEF RoomBehind, RecRing, Slots, Handed, NextPos
<1>2. CASE sairecfifordpos # FifoSize
  BY <1>2, FifoSizeAssumption DEF RecRing, Slots, Handed, FifoFull, NextPos
<1> QED
  BY <1>1, <1>2

LEMMA RecReadTakes ==
    ASSUME RecRing, RecReadIndex, FifoRead, rp' = "wrap"
    PROVE  /\ Queue # << >>
           /\ Queue' = Tail(Queue)
           /\ sairecfifobuf'[Handed'] = Head(Queue)
<1> DEFINE n == FifoSize
           r == Handed
           w == sairecfifowrpos
           f == sairecfifobuf
<1>1. /\ sairecfifordpos \in Slots /\ sairecfifordpos # w
      /\ sairecfifordpos' = sairecfifordpos + 1
      /\ sairecfifowrpos' = w /\ sairecfifobuf' = f
  BY DEF FifoRead, RecReadIndex
<1>2. r = sairecfifordpos /\ Handed' = After(r, n)
  BY <1>1, FifoSizeAssumption DEF Handed, After, Slots
<1>3. r \in 0..(n - 1) /\ w \in 0..(n - 1) /\ f \in [0..(n - 1) -> Blocks]
  BY RecQueueIsRing DEF RecRing, Slots
<1>4. /\ Queue = RingQueue(f, r, w, n)
      /\ Queue' = RingQueue(sairecfifobuf', Handed', sairecfifowrpos', n)
  BY RecQueueIsRing DEF Queue, QueueLen, RingQueue, RingLen
<1> HIDE DEF n, r, w, f
<1>5. /\ Queue # << >>
      /\ f[After(r, n)] = Head(Queue)
      /\ Queue' = Tail(Queue)
  BY <1>1, <1>2, <1>3, <1>4, RingTake, FifoSizeAssumption DEF n
<1> QED
  BY <1>1, <1>2, <1>5

\* All other steps but the end of the visit leave the queue as it is.
LEMMA RecQueueStays ==
    ASSUME RecRing, RecReadIndex, [RecNext]_rvars, ~RecLeave,
           ~(RecSaiDmaRxCallback /\ rec_sta = "on" /\ ~FifoFull),
           ~(FifoRead /\ rp' = "wrap")
    PROVE  Queue' = Queue /\ sairecfifobuf'[Handed'] = sairecfifobuf[Handed]
<1> USE DEF fifoVars, fileVars, dmaVars, Step
<1>1. CASE UNCHANGED fifoVars
  BY <1>1 DEF Queue, QueueLen, Handed
<1>2. CASE FifoReadWrap
  <2>1. Handed' = Handed /\ UNCHANGED <<sairecfifowrpos, sairecfifobuf>>
    BY <1>2, FifoSizeAssumption DEF FifoReadWrap, Handed, RecRing
  <2> QED
    BY <2>1 DEF Queue, QueueLen
<1>3. CASE FifoRead
  BY <1>1, <1>3 DEF FifoRead
<1>4. CASE RecSaiDmaRxCallback
  BY <1>1, <1>4 DEF RecSaiDmaRxCallback, FifoWrite
<1>5. CASE Capture \/ FifoReadTake \/ FWrite \/ NoButton \/ RecPause \/ RecStart
  BY <1>1, <1>5 DEF Capture, FifoReadTake, FWrite, NoButton, RecPause, RecStart
<1>6. CASE RecOpen \/ RecHeader \/ RecStop \/ RecOpenFails \/ RecGiveUp \/ RecReturn
             \/ RecEnter
  BY <1>1, <1>6
  DEF RecOpen, RecHeader, RecStop, RecOpenFails, RecGiveUp, RecReturn, RecEnter
<1>7. CASE UNCHANGED rvars
  BY <1>1, <1>7 DEF rvars
<1> QED
  BY <1>2, <1>3, <1>4, <1>5, <1>6, <1>7 DEF RecNext, RecStay

LEMMA RoomBehindStep ==
    ASSUME MaxBurst <= 1, RecRing, RecReadIndex, RecDma, RoomBehind, [RecNext]_rvars
    PROVE  RoomBehind'
<1> USE FifoSizeAssumption, BoundsAssumption
<1> USE DEF RecRing, RecReadIndex, RecDma, RoomBehind, Slots,
            fifoVars, fileVars, dmaVars, Step
<1>1. CASE Capture
  BY <1>1, NoBlockIsBlock DEF Capture, Masked
<1>2. CASE RecSaiDmaRxCallback
  BY <1>2 DEF RecSaiDmaRxCallback
<1>3. CASE FifoRead
  BY <1>3 DEF FifoRead, RecRuns, Masked
<1>4. CASE FifoReadWrap
  BY <1>4 DEF FifoReadWrap
<1>5. CASE FifoReadTake \/ FWrite \/ NoButton \/ RecPause \/ RecStart \/ RecOpen
  BY <1>5 DEF FifoReadTake, FWrite, NoButton, RecPause, RecStart, RecOpen
<1>6. CASE RecHeader \/ RecStop \/ RecOpenFails \/ RecGiveUp \/ RecReturn \/ RecEnter
  BY <1>6 DEF RecHeader, RecStop, RecOpenFails, RecGiveUp, RecReturn, RecEnter
<1>7. CASE RecLeave
  BY <1>7 DEF RecLeave
<1>8. CASE UNCHANGED rvars
  BY <1>8 DEF rvars
<1> QED
  BY <1>1, <1>2, <1>3, <1>4, <1>5, <1>6, <1>7, <1>8 DEF RecNext, RecStay

LEMMA FifoStep ==
    ASSUME RecRing, RecRing', RecReadIndex, RecDma, RoomBehind, [RecNext]_rvars
    PROVE  [rp = "leaving" \/ Fifo!Put \/ Fifo!Take]_fifoView
<1>1. CASE RecSaiDmaRxCallback /\ rec_sta = "on" /\ ~FifoFull
  <2>1. irq # NoBlock
    BY <1>1 DEF RecSaiDmaRxCallback
  <2> QED
    BY <1>1, <2>1, FreeIsFree, WriteAppends, RecQueueIsRing DEF Fifo!Put, RecDma
<1>2. CASE FifoRead /\ rp' = "wrap"
  BY <1>2, RecReadTakes DEF Fifo!Take
<1>3. CASE RecLeave
  BY <1>3 DEF RecLeave, Step
<1> QED
  BY <1>1, <1>2, <1>3, RecQueueStays DEF fifoView

LEMMA KeptStep ==
    ASSUME RecRing, RecRing', RecDma, [RecNext]_rvars
    PROVE  Kept
<1> SUFFICES ASSUME irq # NoBlock, irq' = NoBlock, rec_sta = "on",
                    QueueLen < FifoSize - 1
             PROVE  Queue' = Append(Queue, irq)
  BY DEF Kept
<1>1. RecSaiDmaRxCallback
  <2> USE DEF fifoVars, fileVars, dmaVars, Step
  <2>1. irq' # irq
    OBVIOUS
  <2>2. CASE Capture
    BY <2>2, BoundsAssumption DEF Capture, RecDma, NoBlock
  <2>3. ~(FifoRead \/ FifoReadWrap \/ FifoReadTake \/ FWrite \/ NoButton \/ RecPause)
    BY <2>1 DEF FifoRead, FifoReadWrap, FifoReadTake, FWrite, NoButton, RecPause
  <2>4. ~(RecStart \/ RecOpen \/ RecHeader \/ RecStop \/ RecOpenFails)
    BY <2>1 DEF RecStart, RecOpen, RecHeader, RecStop, RecOpenFails
  <2>5. ~(RecGiveUp \/ RecReturn \/ RecEnter \/ RecLeave \/ UNCHANGED rvars)
    BY <2>1 DEF RecGiveUp, RecReturn, RecEnter, RecLeave, rvars
  <2> QED
    BY <2>2, <2>3, <2>4, <2>5 DEF RecNext, RecStay
<1> DEFINE r == Handed
           w == sairecfifowrpos
<1>2. r \in 0..(FifoSize - 1) /\ w \in 0..(FifoSize - 1) /\ FifoSize \in Nat \ {0, 1}
  BY RecQueueIsRing, FifoSizeAssumption DEF RecRing, Slots
<1>3. QueueLen = IF w >= r THEN w - r ELSE w + FifoSize - r
  BY RecQueueLen
<1>4. NextPos(w) # r
  BY <1>2, <1>3 DEF NextPos
<1> QED
  BY <1>1, <1>4, FullIsFull, WriteAppends

-----------------------------------------------------------------------------
(* The file.                                                                 *)

\* A file that gets one more block is still open: the block is none of those
\* that are in no file.
LEMMA AppendedIsFile ==
    ASSUME RecFile, NEW b \in Blocks
    PROVE  Append(file, b) # NoFile
<1>1. file \in Seq(Blocks \cup {Closed}) /\ Len(file) \in Nat
  BY LenProperties DEF RecFile
<1>2. /\ Len(Append(file, b)) = Len(file) + 1
      /\ Append(file, b)[Len(file) + 1] = b
  BY <1>1, AppendProperties
<1>3. NoFile[1] = Closed /\ Len(NoFile) = 1 /\ Closed[1] = 2
  BY DEF NoFile, Closed
<1> SUFFICES ASSUME Append(file, b) = NoFile PROVE FALSE
  OBVIOUS
<1>4. Len(file) + 1 = 1
  BY <1>2, <1>3
<1>5. b = Closed
  BY <1>2, <1>3, <1>4
<1>6. b[1] \in {0, 1}
  BY DEF Blocks, NoBlock
<1> QED
  BY <1>3, <1>5, <1>6

LEMMA WrittenIsBlock ==
    ASSUME RecRing, RecReadIndex, FileOpen, FWrite
    PROVE  LET b == sairecfifobuf[Handed]
           IN  /\ Recording /\ b \in Blocks
               /\ InHand = <<b>> /\ file # NoFile
               /\ file' \in {file, Append(file, b)}
<1> DEFINE b == sairecfifobuf[Handed]
<1>1. rp = "write" /\ Recording /\ file # NoFile
  BY DEF FWrite, Step, FileOpen, Recording
<1>2. Handed = sairecfifordpos
  BY <1>1, FifoSizeAssumption DEF RecReadIndex, Slots, Handed
<1>3. b \in Blocks
  BY RecQueueIsRing
<1>4. InHand = <<b>>
  BY <1>1 DEF InHand
<1> QED
  BY <1>1, <1>2, <1>3, <1>4 DEF FWrite, b

LEMMA FileOpenStep ==
    ASSUME RecRing, RecFile, RecReadIndex, FileOpen, [RecNext]_rvars
    PROVE  FileOpen'
<1> USE DEF FileOpen, Recording, fifoVars, fileVars, dmaVars, Step
<1>1. CASE FWrite
  <2> DEFINE b == sairecfifobuf[Handed]
  <2>1. /\ Recording /\ file # NoFile /\ b \in Blocks
        /\ file' \in {file, Append(file, b)}
    BY <1>1, WrittenIsBlock
  <2>2. file' # NoFile
    BY <2>1, AppendedIsFile
  <2> QED
    BY <1>1, <2>1, <2>2 DEF FWrite
<1>2. CASE RecOpen
  <2>1. << >> # NoFile
    BY DEF NoFile
  <2> QED
    BY <1>2, <2>1 DEF RecOpen
<1>3. CASE RecStart
  BY <1>3 DEF RecStart
<1>4. CASE RecStop \/ RecReturn
  BY <1>4 DEF RecStop, RecReturn
<1>5. CASE Capture \/ RecSaiDmaRxCallback \/ FifoRead \/ FifoReadWrap
  BY <1>5 DEF Capture, RecSaiDmaRxCallback, FifoRead, FifoReadWrap
<1>6. CASE FifoReadTake \/ NoButton \/ RecPause \/ RecHeader
  BY <1>6 DEF FifoReadTake, NoButton, RecPause, RecHeader
<1>7. CASE RecOpenFails \/ RecGiveUp \/ RecEnter \/ RecLeave
  BY <1>7 DEF RecOpenFails, RecGiveUp, RecEnter, RecLeave
<1>8. CASE UNCHANGED rvars
  BY <1>8 DEF rvars
<1> QED
  BY <1>1, <1>2, <1>3, <1>4, <1>5, <1>6, <1>7, <1>8 DEF RecNext, RecStay

-----------------------------------------------------------------------------
(* What is recorded is on its way, in order.                                 *)

LEMMA ServedIsInt == ASSUME RecDma PROVE Served \in Int /\ cap \in Int
BY BoundsAssumption DEF RecDma, Served

\* Blocks that nobody moves stay in order while more are captured.
LEMMA NothingMoves ==
    ASSUME RecDma, RecDma', OnItsWay, Recording, ~stale,
           Queue' = Queue, InHand' = InHand, file' = file, take' = take,
           Served <= Served', irq' # NoBlock => irq' = <<take', cap'>>
    PROVE  OnItsWay'
<1>1. Served \in Int /\ Served' \in Int
  BY BoundsAssumption DEF RecDma, Served
<1>2. /\ InTake(Queue, take, Served) /\ InTake(InHand, take, Served)
      /\ Precedes(InHand, Queue)
  BY DEF OnItsWay
<1>3. InTake(Queue, take, Served') /\ InTake(InHand, take, Served')
  BY <1>1, <1>2, InTakeLater
<1>4. file # NoFile => /\ InTake(file, take, Served') /\ Precedes(file, InHand)
                       /\ Precedes(file, Queue)
  BY <1>1, InTakeLater DEF OnItsWay
<1> QED
  BY <1>2, <1>3, <1>4 DEF OnItsWay

\* The interrupt puts the block it was raised for behind all others.
LEMMA PutInOrder ==
    ASSUME RecRing, RecRing', RecDma, RecDma', RecReadIndex, RoomBehind, OnItsWay,
           Recording, ~stale, RecSaiDmaRxCallback, rec_sta = "on", ~FifoFull
    PROVE  OnItsWay'
<1>1. /\ irq # NoBlock /\ irq' = NoBlock /\ irq = <<take, cap>>
      /\ UNCHANGED <<take, cap, file, rp>>
  BY DEF RecSaiDmaRxCallback, OnItsWay, fileVars
<1>2. /\ Queue' = Append(Queue, irq)
      /\ sairecfifobuf'[Handed'] = sairecfifobuf[Handed]
  BY <1>1, FreeIsFree, WriteAppends
<1>3. InHand' = InHand
  BY <1>1, <1>2 DEF InHand
<1>4. Queue \in Seq(Blocks) /\ irq \in Blocks
  BY RecQueueIsRing DEF RecDma
<1>5. /\ Served = cap - 1 /\ Served' = cap /\ cap \in Int
      /\ irq[1] = take /\ irq[2] = cap /\ cap \in 1..cap
  <2>1. irq[1] = take /\ irq[2] = cap
    BY <1>1
  <2>2. cap >= 1
    BY <1>1, <1>4, <2>1, BoundsAssumption DEF Blocks, RecDma
  <2> QED
    BY <1>1, <2>1, <2>2, ServedIsInt DEF Served
<1>6. Served \in Int /\ Served <= cap /\ Served < cap
  BY <1>5
<1>7. InTake(Queue', take, cap)
  BY <1>2, <1>4, <1>5, <1>6, InTakePut DEF OnItsWay
<1>8. InTake(InHand, take, cap) /\ (file # NoFile => InTake(file, take, cap))
  BY <1>5, <1>6, InTakeLater DEF OnItsWay
<1>9. ASSUME NEW p, InTake(p, take, Served), Precedes(p, Queue)
      PROVE  Precedes(p, Queue')
  <2>1. \A i \in 1..Len(p): p[i][2] < irq[2]
    <3>1. \A i \in 1..Len(p): p[i][2] \in 1..Served
      BY <1>9 DEF InTake
    <3> QED
      BY <1>5, <1>6, <3>1
  <2> QED
    BY <1>2, <1>4, <1>9, <2>1, PrecedesPut
<1>10. Precedes(InHand, Queue') /\ (file # NoFile => Precedes(file, Queue'))
  BY <1>9 DEF OnItsWay
<1> QED
  BY <1>1, <1>3, <1>5, <1>7, <1>8, <1>10 DEF OnItsWay

\* rec_sai_fifo_read takes the oldest one.
LEMMA ReadInOrder ==
    ASSUME RecRing, RecReadIndex, OnItsWay, Recording, ~stale, FifoRead, rp' = "wrap"
    PROVE  OnItsWay'
<1>1. /\ rp = "loop" /\ UNCHANGED <<take, cap, irq, file>>
      /\ Served' = Served
  BY DEF FifoRead, fileVars, Served
<1>2. Queue # << >> /\ Queue' = Tail(Queue) /\ Queue \in Seq(Blocks)
  BY RecReadTakes, RecQueueIsRing
<1>3. InHand' = <<Head(Queue)>>
  BY RecReadTakes DEF InHand
<1>4. /\ InTake(Queue, take, Served)
      /\ file # NoFile => InTake(file, take, Served) /\ Precedes(file, Queue)
      /\ irq # NoBlock => irq = <<take, cap>>
  BY DEF OnItsWay
<1>5. /\ InTake(InHand', take, Served) /\ InTake(Queue', take, Served)
      /\ Precedes(InHand', Queue')
  BY <1>2, <1>3, <1>4, Taken
<1>6. file # NoFile => Precedes(file, InHand') /\ Precedes(file, Queue')
  BY <1>2, <1>3, <1>4, Taken
<1> QED
  BY <1>1, <1>4, <1>5, <1>6 DEF OnItsWay

\* f_write puts it behind what is in the file, or loses it.
LEMMA WriteInOrder ==
    ASSUME RecRing, RecFile, RecDma, RecReadIndex, FileOpen, OnItsWay, ~stale, FWrite
    PROVE  OnItsWay'
<1> DEFINE b == sairecfifobuf[Handed]
<1>1. /\ Recording /\ b \in Blocks /\ file # NoFile
      /\ InHand = <<b>> /\ file' \in {file, Append(file, b)}
  BY WrittenIsBlock
<1>2. /\ InHand' = << >> /\ UNCHANGED <<take, cap, irq>>
      /\ Queue' = Queue /\ Served' = Served
  BY DEF FWrite, Step, InHand, fifoVars, dmaVars, Queue, QueueLen, Handed, Served
<1> HIDE DEF b
<1>3. Len(<<b>>) = 1 /\ <<b>>[1] = b
  OBVIOUS
<1>4. /\ file \in Seq(Blocks \cup {Closed}) /\ b \in Blocks \cup {Closed}
      /\ Queue \in Seq(Blocks) /\ Served \in Int
  BY <1>1, RecQueueIsRing, ServedIsInt DEF RecFile
<1>5. /\ InTake(file, take, Served) /\ InTake(<<b>>, take, Served)
      /\ InTake(Queue, take, Served)
      /\ Precedes(file, <<b>>) /\ Precedes(<<b>>, Queue) /\ Precedes(file, Queue)
  BY <1>1 DEF OnItsWay
<1>6. InTake(Append(file, b), take, Served)
  <2>1. \A i \in 1..Len(file): file[i][2] < b[2]
    BY <1>3, <1>5 DEF Precedes
  <2>2. b[1] = take /\ b[2] \in 1..Served
    BY <1>3, <1>5 DEF InTake
  <2> QED
    BY <1>1, <1>4, <1>5, <2>1, <2>2, AppendInTake
<1>7. Precedes(Append(file, b), Queue)
  BY <1>4, <1>5, PutPrecedes
<1>8. InTake(file', take, Served) /\ Precedes(file', Queue)
  BY <1>1, <1>5, <1>6, <1>7
<1>9. Recording /\ (irq # NoBlock => irq = <<take, cap>>)
  BY <1>1 DEF OnItsWay
<1> QED
  BY <1>2, <1>5, <1>8, <1>9, NothingInTake DEF OnItsWay

\* A recording that begins with an empty ring goes into an empty file.
LEMMA BeginInOrder ==
    ASSUME RecRing, RecReadIndex, RecDma, FileOpen, RecStart, ~stale'
    PROVE  OnItsWay'
<1>1. irq = NoBlock /\ UNCHANGED irq
  BY DEF RecStart, RecRuns, Masked, Step
<1>2. file = NoFile /\ file' = file
  BY DEF RecStart, FileOpen, Recording
<1>3. Queue = << >>
  <2>1. Handed = sairecfifowrpos
    <3>1. stale' = (sairecfifordpos # sairecfifowrpos)
      BY DEF RecStart
    <3>2. sairecfifordpos = sairecfifowrpos
      BY <3>1
    <3> QED
      BY <3>2, FifoSizeAssumption
      DEF RecStart, Step, RecReadIndex, Handed, Slots
  <2>2. QueueLen = 0
    <3>1. Handed \in Int /\ FifoSize \in Int
      BY RecQueueIsRing, FifoSizeAssumption
    <3> QED
      BY <2>1, <3>1, RecQueueLen
  <2> QED
    BY <2>2, RecQueueIsRing, EmptySeq
<1>4. Queue' = Queue /\ InHand' = << >>
  BY DEF RecStart, Step, fifoVars, Queue, QueueLen, Handed, InHand
<1> QED
  BY <1>1, <1>2, <1>3, <1>4, NothingInTake DEF OnItsWay

LEMMA OpenInOrder ==
    ASSUME OnItsWay, Recording, ~stale, RecOpen
    PROVE  OnItsWay'
<1>1. /\ file' = << >> /\ Queue' = Queue /\ InHand' = InHand /\ Served' = Served
      /\ UNCHANGED <<take, cap, irq>>
  BY DEF RecOpen, Step, fifoVars, dmaVars, Queue, QueueLen, Handed, InHand, Served
<1> QED
  BY <1>1, NothingInTake DEF OnItsWay

LEMMA OnItsWayStep ==
    ASSUME RecRing, RecRing', RecFile, RecDma, RecDma', RecReadIndex, RoomBehind,
           FileOpen, OnItsWay, [RecNext]_rvars
    PROVE  OnItsWay'
<1> USE DEF fifoVars, fileVars, dmaVars, Step
<1>1. CASE ~(Recording' /\ ~stale')
  BY <1>1 DEF OnItsWay
<1>2. CASE RecStart /\ ~stale'
  BY <1>2, BeginInOrder
<1>3. CASE FWrite /\ ~stale
  BY <1>3, WriteInOrder
<1>4. ASSUME ~RecStart PROVE Recording' /\ ~stale' => Recording /\ ~stale
  <2>1. CASE Capture \/ RecSaiDmaRxCallback \/ FifoRead \/ FifoReadWrap \/ FifoReadTake
               \/ FWrite \/ NoButton
    BY <2>1
    DEF Capture, RecSaiDmaRxCallback, FifoRead, FifoReadWrap, FifoReadTake, FWrite,
        NoButton, Recording
  <2>2. CASE RecPause \/ RecOpen \/ RecHeader \/ RecStop \/ RecOpenFails \/ RecGiveUp
               \/ RecReturn
    BY <2>2
    DEF RecPause, RecOpen, RecHeader, RecStop, RecOpenFails, RecGiveUp, RecReturn,
        Recording
  <2>3. CASE RecEnter \/ RecLeave \/ UNCHANGED rvars
    BY <2>3 DEF RecEnter, RecLeave, rvars, Recording
  <2> QED
    BY <1>4, <2>1, <2>2, <2>3 DEF RecNext, RecStay
<1>5. CASE Recording /\ ~stale /\ RecOpen
  BY <1>5, OpenInOrder
<1>6. CASE Recording /\ ~stale /\ RecSaiDmaRxCallback
  <2>1. CASE rec_sta = "on" /\ ~FifoFull
    BY <1>6, <2>1, PutInOrder
  <2>2. CASE ~(rec_sta = "on" /\ ~FifoFull)
    <3>1. Queue' = Queue /\ sairecfifobuf'[Handed'] = sairecfifobuf[Handed]
      BY <1>6, <2>2
      DEF RecSaiDmaRxCallback, FifoWrite, Queue, QueueLen, Handed
    <3>2. UNCHANGED <<rp, take, cap, file>> /\ irq' = NoBlock
      BY <1>6 DEF RecSaiDmaRxCallback
    <3>3. Served <= Served'
      BY <3>2, ServedIsInt DEF Served
    <3> QED
      BY <1>6, <3>1, <3>2, <3>3, NothingMoves DEF InHand
  <2> QED
    BY <2>1, <2>2
<1>7. CASE Recording /\ ~stale /\ FifoRead
  <2>1. CASE rp' = "wrap"
    BY <1>7, <2>1, ReadInOrder
  <2>2. CASE rp' # "wrap"
    <3>1. /\ rp = "loop" /\ rp' = "idle"
          /\ UNCHANGED <<fifoVars, take, cap, irq, file>>
      BY <1>7, <2>2 DEF FifoRead
    <3>2. Queue' = Queue /\ InHand' = InHand /\ Served' = Served
      BY <3>1 DEF Queue, QueueLen, Handed, InHand, Served
    <3> QED
      BY <1>7, <3>1, <3>2, NothingMoves, ServedIsInt DEF OnItsWay
  <2> QED
    BY <2>1, <2>2
<1>8. CASE Recording /\ ~stale /\ Capture
  <2>1. /\ UNCHANGED <<fifoVars, rp, take, file>> /\ cap' = cap + 1
        /\ irq' = <<take', cap'>>
    BY <1>8 DEF Capture
  <2>2. Queue' = Queue /\ InHand' = InHand
    BY <2>1 DEF Queue, QueueLen, Handed, InHand
  <2>3. Served <= Served'
    BY <2>1, ServedIsInt DEF Served
  <2> QED
    BY <1>8, <2>1, <2>2, <2>3, NothingMoves
<1>9. CASE Recording /\ ~stale /\ FifoReadWrap
  <2>1. /\ rp = "wrap" /\ rp' = "take"
        /\ UNCHANGED <<sairecfifowrpos, sairecfifobuf, take, cap, irq, file>>
    BY <1>9 DEF FifoReadWrap
  <2>2. Handed' = Handed
    BY <1>9, FifoSizeAssumption DEF FifoReadWrap, Handed, RecRing
  <2>3. Queue' = Queue /\ InHand' = InHand /\ Served' = Served
    BY <2>1, <2>2 DEF Queue, QueueLen, InHand, Served
  <2> QED
    BY <1>9, <2>1, <2>3, NothingMoves, ServedIsInt DEF OnItsWay
<1>10. CASE /\ Recording /\ ~stale
            /\ FifoReadTake \/ NoButton \/ RecPause \/ RecHeader \/ RecOpenFails
                \/ UNCHANGED rvars
  <2>1. UNCHANGED <<fifoVars, take, cap, irq, file>>
    BY <1>10
    DEF FifoReadTake, NoButton, RecPause, RecHeader, RecOpenFails, rvars
  <2>2. Queue' = Queue /\ Served' = Served
    BY <2>1 DEF Queue, QueueLen, Handed, Served
  <2>3. InHand' = InHand
    <3>1. Handed' = Handed
      BY <2>1 DEF Handed
    <3>2. rp \in {"wrap", "take", "write"} <=> rp' \in {"wrap", "take", "write"}
      BY <1>10
      DEF FifoReadTake, NoButton, RecPause, RecHeader, RecOpenFails, rvars, Recording
    <3> QED
      BY <2>1, <3>1, <3>2 DEF InHand
  <2> QED
    BY <1>10, <2>1, <2>2, <2>3, NothingMoves, ServedIsInt DEF OnItsWay
<1>11. CASE RecStop \/ RecGiveUp \/ RecReturn \/ RecEnter \/ RecLeave
  <2>1. ~Recording'
    BY <1>11 DEF RecStop, RecGiveUp, RecReturn, RecEnter, RecLeave, Recording
  <2> QED
    BY <1>1, <2>1
<1> QED
  BY <1>1, <1>2, <1>3, <1>4, <1>5, <1>6, <1>7, <1>8, <1>9, <1>10, <1>11
  DEF RecNext, RecStay

-----------------------------------------------------------------------------
(* The theorems. The first invariant is about single steps of the interrupt  *)
(* and of the read; the second needs it, and that one interrupt at most      *)
(* falls into a read.                                                        *)
RecShape == RecRing /\ RecFile /\ RecPhases /\ RecDma /\ RecReadIndex
RecOrder == RecShape /\ RoomBehind /\ FileOpen /\ OnItsWay

LEMMA RecInitHolds ==
    ASSUME RecInit
    PROVE  RecShape /\ RecOrder /\ Fifo!Init
<1>1. RecRing /\ RecReadIndex
  BY NoBlockIsBlock, FifoSizeAssumption DEF RecInit, RecRing, RecReadIndex, Slots
<1>2. RecFile
  BY NoBlockIsBlock DEF RecInit, RecFile
<1>3. RecPhases
  BY DrivesAssumption DEF RecInit, RecPhases, NoDrive
<1>4. RecDma
  BY NoBlockIsBlock, BoundsAssumption DEF RecInit, RecDma
<1>5. RoomBehind
  BY FifoSizeAssumption, BoundsAssumption DEF RecInit, RoomBehind
<1>6. FileOpen /\ OnItsWay
  BY DEF RecInit, FileOpen, OnItsWay, Recording
<1>7. Queue = << >> /\ sairecfifobuf[Handed] \in Blocks
  <2>1. Handed = 0
    BY FifoSizeAssumption DEF RecInit, Handed
  <2>2. QueueLen = 0
    BY <1>1, <2>1, RecQueueLen DEF RecInit
  <2> QED
    BY <1>1, <2>2, RecQueueIsRing, EmptySeq
<1> QED
  BY <1>1, <1>2, <1>3, <1>4, <1>5, <1>6, <1>7 DEF RecShape, RecOrder, Fifo!Init

LEMMA RecShapeStep ==
    ASSUME RecShape, [RecNext]_rvars
    PROVE  RecShape'
BY RecRingStep, RecFileStep, RecPhasesStep, RecDmaStep, RecReadIndexStep DEF RecShape

LEMMA RecOrderStep ==
    ASSUME MaxBurst <= 1, RecOrder, [RecNext]_rvars
    PROVE  RecOrder'
<1>1. RecShape'
  BY RecShapeStep DEF RecOrder
<1>2. RoomBehind'
  BY RoomBehindStep DEF RecOrder, RecShape
<1>3. FileOpen'
  BY FileOpenStep DEF RecOrder, RecShape
<1>4. OnItsWay'
  BY <1>1, OnItsWayStep DEF RecOrder, RecShape
<1> QED
  BY <1>1, <1>2, <1>3, <1>4 DEF RecOrder

\* Every variable keeps its range: the two indices never leave the ring, but for
\* the moment in which the read index is not wrapped yet (recorder.c:93-118).
THEOREM RecTypeCorrect == RecSpec => []RecTypeOK
<1>1. RecInit => RecShape
  BY RecInitHolds
<1>2. RecShape /\ [RecNext]_rvars => RecShape'
  BY RecShapeStep
<1>3. RecShape => RecTypeOK
  BY RecParts DEF RecShape
<1> QED
  BY <1>1, <1>2, <1>3, PTL DEF RecSpec

\* A block the interrupt brings while a recording is on goes into the ring
\* unless that is full, however the interrupt falls between the steps of the read
\* (recorder.c:105-118). It says nothing of an interrupt that is masked until the
\* next block comes.
THEOREM KeptAlways == RecSpec => KeptIfRoom
<1>1. RecInit => RecShape
  BY RecInitHolds
<1>2. RecShape /\ [RecNext]_rvars => RecShape'
  BY RecShapeStep
<1>3. RecShape /\ RecShape' /\ [RecNext]_rvars => [Kept]_rvars
  BY KeptStep DEF RecShape
<1> QED
  BY <1>1, <1>2, <1>3, PTL DEF RecSpec, KeptIfRoom

\* If no more than one interrupt falls into a rec_sai_fifo_read, the ring
\* implements the bounded queue: blocks come out in order, and the one handed to
\* f_write is not written over (recorder.c:93-118).
THEOREM RecorderRingIsQueue ==
    ASSUME MaxBurst <= 1
    PROVE  RecSpec => ImplementsFifo
<1>1. RecInit => RecOrder /\ Fifo!Init
  BY RecInitHolds
<1>2. RecOrder /\ [RecNext]_rvars => RecOrder'
  BY RecOrderStep
<1>3. RecOrder /\ RecOrder' /\ [RecNext]_rvars
        => [rp = "leaving" \/ Fifo!Put \/ Fifo!Take]_fifoView
  BY FifoStep DEF RecOrder, RecShape
<1> QED
  BY <1>1, <1>2, <1>3, PTL DEF RecSpec, ImplementsFifo

\* Then what a file holds are blocks of its own recording, in the order in which
\* they were captured, through pauses, masked interrupts, writes that fail and
\* files that cannot be created, if the ring was empty when the recording began
\* (recorder.c:514-521).
THEOREM FileAlwaysInOrder ==
    ASSUME MaxBurst <= 1
    PROVE  RecSpec => []FileInOrder
<1>1. RecInit => RecOrder
  BY RecInitHolds
<1>2. RecOrder /\ [RecNext]_rvars => RecOrder'
  BY RecOrderStep
<1>3. RecOrder => FileInOrder
  <2> SUFFICES ASSUME RecOrder, file # NoFile, ~stale
               PROVE  /\ DOMAIN file = 1..Len(file)
                      /\ InTake(file, take, Served)
    BY DEF FileInOrder, InTake
  <2> QED
    BY LenProperties DEF RecOrder, RecShape, RecFile, FileOpen, OnItsWay
<1> QED
  BY <1>1, <1>2, <1>3, PTL DEF RecSpec

=============================================================================
