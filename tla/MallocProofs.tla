---------------------------- MODULE MallocProofs ----------------------------
(* Proofs about Malloc for every pool size, block size, set of tasks and      *)
(* request, whichever tasks call myrealloc and are preempted in it.           *)
EXTENDS Malloc, TLAPS

\* A call of myrealloc in progress: what it was asked for, and the bounds of
\* its loops.
CallsInBounds ==
    \A u \in Task :
        LET r == re[u] IN
        /\ r.pc # "idle" => /\ u \in Reallocers
                            /\ memrdy
                            /\ r.n > 0
                            /\ r.old \in held[u] \cup {NoPtr}
        /\ r.pc = "scan" => r.off \in Cells /\ r.cnt < r.n
        /\ r.pc = "mark" => r.cnt < r.n
        /\ r.pc = "copy" => /\ r.off + r.n <= TblSize
                            /\ [off |-> r.off, len |-> r.n] \in held[u]

\* Nobody holds a chunk before my_mem_init.
HeldWhenReady == \A t \in Task : held[t] # {} => memrdy

Shape == TypeOK /\ CallsInBounds /\ HeldWhenReady

\* The run counted so far is still free, a chunk being marked is marked up to
\* cnt and free from there on, and a chunk being copied is a new one.
RunsFree ==
    \A u \in Task :
        LET r == re[u] IN
        /\ r.pc = "scan" => \A i \in (r.off + 1) .. (r.off + r.cnt) : memmap[i] = 0
        /\ r.pc = "mark" => /\ \A i \in r.off .. (r.off + r.cnt - 1) : memmap[i] = r.n
                            /\ \A i \in (r.off + r.cnt) .. (r.off + r.n - 1) : memmap[i] = 0
                            /\ \A i \in r.off .. (r.off + r.n - 1) : ~ Owned(i)
        /\ r.pc = "copy" => r.old # [off |-> r.off, len |-> r.n]

\* At most one task looks for a run, or marks it.
OneLooks ==
    \A u, v \in Task :
        re[u].pc \in {"scan", "mark"} /\ re[v].pc \in {"scan", "mark"} => u = v

Exact == NonOverlap /\ TableExact /\ RunsFree /\ OneLooks

\* The inductive invariant behind NonOverlapUncrossed and TableExactUncrossed.
IInv == Shape /\ (~ crossed => Exact)

-----------------------------------------------------------------------------
\* A request of at least one byte needs at least one block.
LEMMA NmembPositive ==
    ASSUME NEW size \in Sizes, size # 0
    PROVE  Nmemb(size) \in Nat \ {0}
<1>1. size \in Nat /\ BlkSize \in Nat \ {0}
  BY SizesAssumption, BlkSizeAssumption
<1>2. /\ size \div BlkSize \in Nat
      /\ size % BlkSize \in Nat
      /\ size = BlkSize * (size \div BlkSize) + (size % BlkSize)
  BY <1>1
<1>3. size \div BlkSize = 0 => size % BlkSize # 0
  BY <1>1, <1>2
<1> QED
  BY <1>2, <1>3 DEF Nmemb

\* The blocks of a chunk are blocks of the pool, and there is at least one.
LEMMA ChunkSpan ==
    ASSUME Shape, NEW t \in Task, NEW c \in held[t]
    PROVE  /\ c \in Chunk /\ c.off \in Nat /\ c.len \in Nat \ {0}
           /\ c.off + c.len <= TblSize
           /\ Span(c) \subseteq Cells
           /\ c.off \in Span(c)
           /\ memrdy
<1>1. c \in Chunk /\ memrdy /\ c.off + c.len <= TblSize
  BY DEF Shape, TypeOK, HeldWhenReady
<1>2. c.off \in Nat /\ c.len \in Nat \ {0}
  BY <1>1, TblSizeAssumption DEF Chunk, Cells
<1> QED
  BY <1>1, <1>2, TblSizeAssumption DEF Span, Cells

\* my_mem_free clears exactly the blocks of the chunk whose address it gets.
LEMMA FreeRunExact ==
    ASSUME Shape, TableExact, NEW t \in Task, NEW c \in held[t]
    PROVE  FreeRun(c.off) = [i \in Cells |-> IF i \in Span(c) THEN 0 ELSE memmap[i]]
<1>1. memmap[c.off] = c.len
  BY ChunkSpan DEF TableExact
<1> QED
  BY <1>1 DEF FreeRun, SetRun, Span

\* The table the scan sees is exact, and it is the table but for the first call.
LEMMA ReadyTableExact ==
    ASSUME Shape
    PROVE  /\ ReadyTable \in [Cells -> Nat]
           /\ memrdy => ReadyTable = memmap
           /\ TableExact =>
                 /\ \A t \in Task : \A c \in held[t] : \A i \in Span(c) : ReadyTable[i] = c.len
                 /\ \A i \in Cells : ReadyTable[i] # 0 => Owned(i) \/ Marking(i)
<1>1. CASE memrdy
  BY <1>1 DEF Shape, TypeOK, TableExact, ReadyTable
<1>2. CASE ~ memrdy
  BY <1>2 DEF Shape, HeldWhenReady, ReadyTable, ZeroTable
<1> QED
  BY <1>1, <1>2

\* Before my_mem_init no call of myrealloc is in progress and nothing is held.
LEMMA NothingBefore ==
    ASSUME Shape, ~ memrdy
    PROVE  \A t \in Task : held[t] = {} /\ re[t].pc = "idle"
BY DEF Shape, HeldWhenReady, CallsInBounds

-----------------------------------------------------------------------------
(* The shape of the state.                                                  *)

LEMMA NewChunkShape ==
    ASSUME Shape, NEW t \in Task, NEW o \in Nat, NEW n \in Nat \ {0}, o + n <= TblSize,
           held' = [held EXCEPT ![t] = @ \cup {[off |-> o, len |-> n]}]
    PROVE  /\ o \in Cells /\ [off |-> o, len |-> n] \in Chunk
           /\ held' \in [Task -> SUBSET Chunk]
           /\ \A u \in Task :
                 held'[u] = IF u = t THEN held[u] \cup {[off |-> o, len |-> n]} ELSE held[u]
           /\ \A u \in Task : \A c \in held'[u] : c.off + c.len <= TblSize
<1>1. o \in Cells /\ [off |-> o, len |-> n] \in Chunk
  BY TblSizeAssumption DEF Cells, Chunk
<1>2. \A u \in Task :
         held'[u] = IF u = t THEN held[u] \cup {[off |-> o, len |-> n]} ELSE held[u]
  BY DEF Shape, TypeOK
<1>3. held' \in [Task -> SUBSET Chunk]
  BY <1>1 DEF Shape, TypeOK
<1>4. \A u \in Task : \A c \in held'[u] : c.off + c.len <= TblSize
  BY <1>2 DEF Shape, TypeOK
<1> QED
  BY <1>1, <1>2, <1>3, <1>4

LEMMA InitShape ==
    ASSUME Shape, MyMemInit
    PROVE  Shape'
<1>1. /\ memrdy' = TRUE /\ memmap' = ZeroTable
      /\ held' = held /\ re' = re /\ crossed' = crossed
  BY DEF MyMemInit
<1>2. TypeOK'
  BY <1>1 DEF Shape, TypeOK, ZeroTable
<1>3. CallsInBounds' /\ HeldWhenReady'
  BY <1>1 DEF Shape, CallsInBounds, HeldWhenReady
<1> QED
  BY <1>2, <1>3 DEF Shape

LEMMA MallocShape ==
    ASSUME Shape, NEW t \in Task, NEW size \in Sizes, MyMalloc(t, size)
    PROVE  Shape'
<1> DEFINE n == Nmemb(size)
<1>1. /\ memrdy' = TRUE /\ re' = re /\ re[t].pc = "idle" /\ crossed' \in BOOLEAN
  BY DEF MyMalloc, CanCall, Shape, TypeOK
<1>2. \A u \in Task : held[u] \subseteq held'[u]
  BY DEF MyMalloc, Shape, TypeOK
<1>3. CallsInBounds' /\ HeldWhenReady'
  BY <1>1, <1>2 DEF Shape, CallsInBounds, HeldWhenReady
<1>4. CASE memmap' = ReadyTable /\ held' = held
  BY <1>1, <1>3, <1>4, ReadyTableExact DEF Shape, TypeOK
<1>5. CASE size # 0 /\ \E o \in Cells :
                /\ IsFirstFit(ReadyTable, n, o)
                /\ memmap' = SetRun(ReadyTable, o, n, n)
                /\ held' = [held EXCEPT ![t] = @ \cup {[off |-> o, len |-> n]}]
  <2> PICK o \in Cells :
                /\ IsFirstFit(ReadyTable, n, o)
                /\ memmap' = SetRun(ReadyTable, o, n, n)
                /\ held' = [held EXCEPT ![t] = @ \cup {[off |-> o, len |-> n]}]
    BY <1>5
  <2>1. n \in Nat \ {0} /\ o \in Nat /\ o + n <= TblSize
    BY <1>5, NmembPositive DEF IsFirstFit, Offsets, Cells
  <2> HIDE DEF n
  <2>2. /\ held' \in [Task -> SUBSET Chunk]
        /\ \A u \in Task : \A c \in held'[u] : c.off + c.len <= TblSize
    BY <2>1, NewChunkShape
  <2>3. memmap' \in [Cells -> Nat]
    BY <2>1, ReadyTableExact DEF SetRun
  <2> QED
    BY <1>1, <1>3, <2>2, <2>3 DEF Shape, TypeOK
<1> QED
  BY <1>4, <1>5 DEF MyMalloc

LEMMA FreeShape ==
    ASSUME Shape, NEW t \in Task, NEW c \in held[t], MyFree(t, c)
    PROVE  Shape'
<1>1. /\ memrdy' = memrdy /\ re' = re /\ crossed' = crossed /\ re[t].pc = "idle"
      /\ memmap' = FreeRun(c.off)
      /\ held' = [held EXCEPT ![t] = @ \ {c}]
  BY DEF MyFree, CanCall
<1>2. /\ held' \in [Task -> SUBSET Chunk]
      /\ \A u \in Task : held'[u] = IF u = t THEN held[u] \ {c} ELSE held[u]
  BY <1>1 DEF Shape, TypeOK
<1>3. memmap' \in [Cells -> Nat]
  BY <1>1 DEF FreeRun, SetRun, Shape, TypeOK
<1>4. TypeOK'
  BY <1>1, <1>2, <1>3 DEF Shape, TypeOK
<1>5. CallsInBounds' /\ HeldWhenReady'
  BY <1>1, <1>2 DEF Shape, CallsInBounds, HeldWhenReady
<1> QED
  BY <1>4, <1>5 DEF Shape

LEMMA CallShape ==
    ASSUME Shape, NEW t \in Task, NEW size \in Sizes,
           NEW old \in held[t] \cup {NoPtr}, ReallocCall(t, old, size)
    PROVE  Shape'
<1>1. /\ memrdy' = TRUE /\ memmap' = ReadyTable /\ held' = held /\ t \in Reallocers
      /\ crossed' \in BOOLEAN
  BY DEF ReallocCall, Shape, TypeOK
<1>2. memmap' \in [Cells -> Nat]
  BY <1>1, ReadyTableExact
<1>3. CASE size = 0
  <2>1. re' = re
    BY <1>3 DEF ReallocCall
  <2> QED
    BY <1>1, <1>2, <2>1 DEF Shape, TypeOK, CallsInBounds, HeldWhenReady
<1>4. CASE size # 0
  <2> DEFINE n == Nmemb(size)
             new == [pc |-> "scan", old |-> old, n |-> n, off |-> TblSize - 1, cnt |-> 0]
  <2>1. n \in Nat \ {0} /\ TblSize - 1 \in Cells /\ TblSize - 1 \in Nat /\ TblSize \in Nat
    BY <1>4, NmembPositive, TblSizeAssumption DEF Cells
  <2>2. re' = [re EXCEPT ![t] = new]
    BY <1>4 DEF ReallocCall
  <2> HIDE DEF n
  <2>3. new \in ReallocLocals
    BY <2>1 DEF ReallocLocals, Shape, TypeOK
  <2>4. /\ re' \in [Task -> ReallocLocals]
        /\ \A u \in Task : re'[u] = IF u = t THEN new ELSE re[u]
    BY <2>2, <2>3 DEF Shape, TypeOK
  <2>5. (TblSize - 1) + 0 < TblSize
    BY <2>1
  <2>6. TypeOK'
    BY <1>1, <1>2, <2>4, <2>5 DEF Shape, TypeOK
  <2>7. CallsInBounds' /\ HeldWhenReady'
    BY <1>1, <2>1, <2>4 DEF Shape, CallsInBounds, HeldWhenReady
  <2> QED
    BY <2>6, <2>7 DEF Shape
<1> QED
  BY <1>3, <1>4

\* The locals of a call that scans or marks, and where a turn of the scan leads.
LEMMA ScanFacts ==
    ASSUME Shape, NEW t \in Task, re[t].pc = "scan"
    PROVE  LET r == re[t]
               cmemb == IF memmap[r.off] = 0 THEN r.cnt + 1 ELSE 0
           IN
           /\ r \in ReallocLocals /\ r.off \in Cells /\ r.off \in Nat
           /\ r.cnt \in Nat /\ r.n \in Nat
           /\ t \in Reallocers /\ memrdy /\ r.n > 0 /\ r.old \in held[t] \cup {NoPtr}
           /\ r.cnt < r.n /\ r.off + r.cnt < TblSize
           /\ cmemb \in Nat /\ cmemb <= r.n /\ r.off + cmemb <= TblSize
<1>1. /\ re[t] \in ReallocLocals /\ re[t].off \in Cells
      /\ t \in Reallocers /\ memrdy /\ re[t].n > 0 /\ re[t].old \in held[t] \cup {NoPtr}
      /\ re[t].cnt < re[t].n /\ re[t].off + re[t].cnt < TblSize
  BY DEF Shape, TypeOK, CallsInBounds
<1>2. re[t].off \in Nat /\ re[t].cnt \in Nat /\ re[t].n \in Nat /\ TblSize \in Nat
  BY <1>1, TblSizeAssumption DEF ReallocLocals
<1> QED
  BY <1>1, <1>2, TblSizeAssumption DEF Cells

LEMMA MarkFacts ==
    ASSUME Shape, NEW t \in Task, re[t].pc = "mark"
    PROVE  LET r == re[t] IN
           /\ r \in ReallocLocals /\ r.off \in Nat /\ r.cnt \in Nat /\ r.n \in Nat
           /\ t \in Reallocers /\ memrdy /\ r.n > 0 /\ r.old \in held[t] \cup {NoPtr}
           /\ r.cnt < r.n /\ r.off + r.n <= TblSize
           /\ r.off + r.cnt \in Cells /\ r.off \in Cells
           /\ r.off .. (r.off + r.n - 1) \subseteq Cells
<1>1. /\ re[t] \in ReallocLocals
      /\ t \in Reallocers /\ memrdy /\ re[t].n > 0 /\ re[t].old \in held[t] \cup {NoPtr}
      /\ re[t].cnt < re[t].n /\ re[t].off + re[t].n <= TblSize
  BY DEF Shape, TypeOK, CallsInBounds
<1>2. re[t].off \in Nat /\ re[t].cnt \in Nat /\ re[t].n \in Nat
  BY <1>1 DEF ReallocLocals
<1> QED
  BY <1>1, <1>2, TblSizeAssumption DEF Cells

\* What a turn of the scan makes of the locals.
LEMMA ScanTurn ==
    ASSUME Shape, NEW t \in Task, ReallocScan(t)
    PROVE  LET r == re[t]
               cmemb == IF memmap[r.off] = 0 THEN r.cnt + 1 ELSE 0
           IN
           /\ re' \in [Task -> ReallocLocals]
           /\ \A u \in Task : u # t => re'[u] = re[u]
           /\ \/ /\ cmemb = r.n
                 /\ re'[t].pc = "mark" /\ re'[t].cnt = 0
                 /\ re'[t].off = r.off /\ re'[t].n = r.n /\ re'[t].old = r.old
              \/ re'[t] = Idle
              \/ /\ cmemb < r.n /\ r.off # 0
                 /\ re'[t].pc = "scan" /\ re'[t].cnt = cmemb
                 /\ re'[t].off = r.off - 1 /\ re'[t].n = r.n /\ re'[t].old = r.old
<1> DEFINE r == re[t]
           cmemb == IF memmap[r.off] = 0 THEN r.cnt + 1 ELSE 0
           next == IF cmemb = r.n THEN [r EXCEPT !.pc = "mark", !.cnt = 0]
                   ELSE IF r.off = 0 THEN Idle
                   ELSE [r EXCEPT !.off = @ - 1, !.cnt = cmemb]
<1>1. re' = [re EXCEPT ![t] = next] /\ r.pc = "scan"
  BY DEF ReallocScan
<1>2. /\ r \in ReallocLocals /\ r.off \in Nat /\ r.n \in Nat /\ cmemb \in Nat
      /\ cmemb <= r.n
  BY <1>1, ScanFacts
<1> HIDE DEF cmemb, r
<1>3. next \in ReallocLocals /\
      \/ /\ cmemb = r.n
         /\ next.pc = "mark" /\ next.cnt = 0
         /\ next.off = r.off /\ next.n = r.n /\ next.old = r.old
      \/ next = Idle
      \/ /\ cmemb < r.n /\ r.off # 0
         /\ next.pc = "scan" /\ next.cnt = cmemb
         /\ next.off = r.off - 1 /\ next.n = r.n /\ next.old = r.old
  <2>1. CASE cmemb = r.n
    <3>1. next = [r EXCEPT !.pc = "mark", !.cnt = 0]
      BY <2>1
    <3> HIDE DEF next
    <3> QED
      BY <1>2, <2>1, <3>1 DEF ReallocLocals
  <2>2. CASE cmemb # r.n /\ r.off = 0
    BY <2>2 DEF ReallocLocals, Idle
  <2>3. CASE cmemb # r.n /\ r.off # 0
    <3>1. r.off - 1 \in Nat /\ cmemb < r.n
      BY <1>2, <2>3
    <3>2. next = [r EXCEPT !.off = r.off - 1, !.cnt = cmemb]
      BY <2>3
    <3> HIDE DEF next
    <3>3. next \in ReallocLocals
      BY <1>2, <3>1, <3>2 DEF ReallocLocals
    <3>4. /\ next.pc = "scan" /\ next.cnt = cmemb
          /\ next.off = r.off - 1 /\ next.n = r.n /\ next.old = r.old
      <4>1. r.pc = "scan"
        BY <1>1
      <4> QED
        BY <1>2, <3>2, <4>1 DEF ReallocLocals
    <3> QED
      BY <2>3, <3>1, <3>3, <3>4
  <2> QED
    BY <2>1, <2>2, <2>3
<1> HIDE DEF next
<1>4. /\ re' \in [Task -> ReallocLocals]
      /\ \A u \in Task : u # t => re'[u] = re[u]
      /\ re'[t] = next
  BY <1>1, <1>3 DEF Shape, TypeOK
<1> QED
  BY <1>3, <1>4 DEF r, cmemb

LEMMA ScanShape ==
    ASSUME Shape, NEW t \in Task, ReallocScan(t)
    PROVE  Shape'
<1> DEFINE r == re[t]
           cmemb == IF memmap[r.off] = 0 THEN r.cnt + 1 ELSE 0
<1>1. r.pc = "scan" /\ UNCHANGED <<memrdy, memmap, held, crossed>>
  BY DEF ReallocScan
<1>2. /\ r.off \in Cells /\ r.off \in Nat /\ r.n \in Nat /\ r.n > 0
      /\ t \in Reallocers /\ memrdy /\ r.old \in held[t] \cup {NoPtr}
      /\ cmemb \in Nat /\ r.off + cmemb <= TblSize
  BY <1>1, ScanFacts
<1>3. /\ re' \in [Task -> ReallocLocals]
      /\ \A u \in Task : u # t => re'[u] = re[u]
      /\ \/ /\ cmemb = r.n
            /\ re'[t].pc = "mark" /\ re'[t].cnt = 0
            /\ re'[t].off = r.off /\ re'[t].n = r.n /\ re'[t].old = r.old
         \/ re'[t] = Idle
         \/ /\ cmemb < r.n /\ r.off # 0
            /\ re'[t].pc = "scan" /\ re'[t].cnt = cmemb
            /\ re'[t].off = r.off - 1 /\ re'[t].n = r.n /\ re'[t].old = r.old
  BY ScanTurn
<1> HIDE DEF cmemb, r
<1>4. /\ re'[t].pc = "scan" => re'[t].off + re'[t].cnt < TblSize /\ re'[t].off \in Cells
                               /\ re'[t].cnt < re'[t].n
      /\ re'[t].pc = "mark" => re'[t].off + re'[t].n <= TblSize /\ re'[t].cnt < re'[t].n
      /\ re'[t].pc # "idle" => re'[t].n > 0 /\ re'[t].old = r.old
      /\ re'[t].pc # "copy"
  BY <1>2, <1>3, TblSizeAssumption DEF Idle, Cells
<1>5. TypeOK'
  BY <1>1, <1>3, <1>4 DEF Shape, TypeOK
<1>6. CallsInBounds' /\ HeldWhenReady'
  BY <1>1, <1>2, <1>3, <1>4 DEF Shape, CallsInBounds, HeldWhenReady
<1> QED
  BY <1>5, <1>6 DEF Shape

\* What a turn of the marking loop does: the next entry, or the last one.
LEMMA MarkTurn ==
    ASSUME Shape, NEW t \in Task, ReallocMark(t)
    PROVE  LET r == re[t]
               new == [off |-> r.off, len |-> r.n]
           IN
           /\ memmap' \in [Cells -> Nat]
           /\ \A i \in Cells : memmap'[i] = IF i = r.off + r.cnt THEN r.n ELSE memmap[i]
           /\ re' \in [Task -> ReallocLocals]
           /\ \A u \in Task : u # t => re'[u] = re[u]
           /\ re'[t].off = r.off /\ re'[t].n = r.n /\ re'[t].old = r.old
           /\ \/ /\ r.cnt + 1 = r.n /\ re'[t].pc = "copy"
                 /\ held' = [held EXCEPT ![t] = @ \cup {new}]
              \/ /\ r.cnt + 1 < r.n /\ re'[t].pc = "mark" /\ re'[t].cnt = r.cnt + 1
                 /\ held' = held
<1> DEFINE r == re[t]
           new == [off |-> r.off, len |-> r.n]
<1>1. r.pc = "mark" /\ memmap' = [memmap EXCEPT ![r.off + r.cnt] = r.n]
  BY DEF ReallocMark
<1>2. /\ r \in ReallocLocals /\ r.cnt \in Nat /\ r.n \in Nat /\ r.cnt < r.n
      /\ r.off + r.cnt \in Cells
  BY <1>1, MarkFacts
<1>3. /\ memmap' \in [Cells -> Nat]
      /\ \A i \in Cells : memmap'[i] = IF i = r.off + r.cnt THEN r.n ELSE memmap[i]
  BY <1>1, <1>2 DEF Shape, TypeOK
<1>4. CASE r.cnt + 1 = r.n
  <2>1. re' = [re EXCEPT ![t].pc = "copy"] /\ held' = [held EXCEPT ![t] = @ \cup {new}]
    BY <1>4 DEF ReallocMark
  <2>2. /\ \A u \in Task : u # t => re'[u] = re[u]
        /\ re'[t] = [r EXCEPT !.pc = "copy"]
        /\ re' \in [Task -> ReallocLocals]
    BY <1>2, <2>1 DEF Shape, TypeOK, ReallocLocals
  <2>3. /\ re'[t].pc = "copy" /\ re'[t].off = r.off /\ re'[t].n = r.n /\ re'[t].old = r.old
    BY <1>2, <2>2 DEF ReallocLocals
  <2> QED
    BY <1>3, <1>4, <2>1, <2>2, <2>3
<1>5. CASE r.cnt + 1 # r.n
  <2>1. re' = [re EXCEPT ![t].cnt = r.cnt + 1] /\ held' = held
    BY <1>5 DEF ReallocMark
  <2>2. /\ \A u \in Task : u # t => re'[u] = re[u]
        /\ re'[t] = [r EXCEPT !.cnt = r.cnt + 1]
        /\ re' \in [Task -> ReallocLocals]
    BY <1>2, <2>1 DEF Shape, TypeOK, ReallocLocals
  <2>3. /\ re'[t].pc = "mark" /\ re'[t].cnt = r.cnt + 1
        /\ re'[t].off = r.off /\ re'[t].n = r.n /\ re'[t].old = r.old
    BY <1>1, <1>2, <2>2 DEF ReallocLocals
  <2>4. r.cnt + 1 < r.n
    BY <1>2, <1>5
  <2> QED
    BY <1>3, <2>1, <2>2, <2>3, <2>4
<1> QED
  BY <1>4, <1>5

LEMMA MarkShape ==
    ASSUME Shape, NEW t \in Task, ReallocMark(t)
    PROVE  Shape'
<1> DEFINE r == re[t]
           new == [off |-> r.off, len |-> r.n]
<1>1. r.pc = "mark" /\ UNCHANGED <<memrdy, crossed>>
  BY DEF ReallocMark
<1>2. /\ r.off \in Nat /\ r.n \in Nat \ {0} /\ t \in Reallocers /\ memrdy
      /\ r.old \in held[t] \cup {NoPtr} /\ r.off + r.n <= TblSize
  BY <1>1, MarkFacts
<1>3. /\ memmap' \in [Cells -> Nat]
      /\ re' \in [Task -> ReallocLocals]
      /\ \A u \in Task : u # t => re'[u] = re[u]
      /\ re'[t].off = r.off /\ re'[t].n = r.n /\ re'[t].old = r.old
      /\ \/ /\ re'[t].pc = "copy" /\ held' = [held EXCEPT ![t] = @ \cup {new}]
         \/ /\ r.cnt + 1 < r.n /\ re'[t].pc = "mark" /\ re'[t].cnt = r.cnt + 1
            /\ held' = held
  BY MarkTurn
<1> HIDE DEF r
<1>4. CASE re'[t].pc = "copy" /\ held' = [held EXCEPT ![t] = @ \cup {new}]
  <2>1. /\ held' \in [Task -> SUBSET Chunk]
        /\ \A u \in Task : held'[u] = IF u = t THEN held[u] \cup {new} ELSE held[u]
        /\ \A u \in Task : \A c \in held'[u] : c.off + c.len <= TblSize
    BY <1>2, <1>4, NewChunkShape
  <2>2. TypeOK'
    BY <1>1, <1>3, <1>4, <2>1 DEF Shape, TypeOK
  <2>3. CallsInBounds' /\ HeldWhenReady'
    BY <1>1, <1>2, <1>3, <1>4, <2>1 DEF Shape, CallsInBounds, HeldWhenReady
  <2> QED
    BY <2>2, <2>3 DEF Shape
<1>5. CASE r.cnt + 1 < r.n /\ re'[t].pc = "mark" /\ re'[t].cnt = r.cnt + 1 /\ held' = held
  <2>1. TypeOK'
    BY <1>1, <1>2, <1>3, <1>5 DEF Shape, TypeOK
  <2>2. CallsInBounds' /\ HeldWhenReady'
    BY <1>1, <1>2, <1>3, <1>5 DEF Shape, CallsInBounds, HeldWhenReady
  <2> QED
    BY <2>1, <2>2 DEF Shape
<1> QED
  BY <1>3, <1>4, <1>5

LEMMA FinishShape ==
    ASSUME Shape, NEW t \in Task, ReallocFree(t)
    PROVE  Shape'
<1>1. /\ UNCHANGED <<memrdy, crossed>> /\ memmap' \in {memmap, FreeRun(re[t].old.off)}
      /\ held' = [held EXCEPT ![t] = @ \ {re[t].old}]
      /\ re' = [re EXCEPT ![t] = Idle]
  BY DEF ReallocFree
<1>2. /\ held' \in [Task -> SUBSET Chunk]
      /\ \A u \in Task : u # t => held'[u] = held[u]
      /\ held'[t] \subseteq held[t]
  BY <1>1 DEF Shape, TypeOK
<1>3. memmap' \in [Cells -> Nat]
  BY <1>1 DEF FreeRun, SetRun, Shape, TypeOK
<1>4. /\ re' \in [Task -> ReallocLocals] /\ re'[t] = Idle
      /\ \A u \in Task : u # t => re'[u] = re[u]
  BY <1>1 DEF Shape, TypeOK, Idle, ReallocLocals
<1>5. TypeOK'
  BY <1>1, <1>2, <1>3, <1>4 DEF Shape, TypeOK, Idle
<1>6. CallsInBounds' /\ HeldWhenReady'
  BY <1>1, <1>2, <1>4 DEF Shape, CallsInBounds, HeldWhenReady, Idle
<1> QED
  BY <1>5, <1>6 DEF Shape

LEMMA ShapeStep == Shape /\ [Next]_vars => Shape'
<1> SUFFICES ASSUME Shape, [Next]_vars
             PROVE  Shape'
  OBVIOUS
<1>1. CASE UNCHANGED vars
  BY <1>1 DEF vars, Shape, TypeOK, CallsInBounds, HeldWhenReady
<1>2. ASSUME NEW t \in Task, MyRealloc(t)
      PROVE  Shape'
  BY <1>2, CallShape, ScanShape, MarkShape, FinishShape DEF MyRealloc
<1> QED
  BY <1>1, <1>2, InitShape, MallocShape, FreeShape DEF Next

-----------------------------------------------------------------------------
(* Until a crossing the table is exact and the chunks are disjoint.         *)

\* A task that gets a run that nobody owns gets a new chunk: the part of the
\* step that mymalloc and the marking loop share.
LEMMA TakeFreeRun ==
    ASSUME Shape, NonOverlap,
           NEW t \in Task, NEW o \in Nat, NEW n \in Nat \ {0},
           o + n <= TblSize,
           \A i \in o .. (o + n - 1) : ~ Owned(i),
           held' = [held EXCEPT ![t] = @ \cup {[off |-> o, len |-> n]}]
    PROVE  /\ NonOverlap'
           /\ \A i : Owned(i)' <=> Owned(i) \/ i \in o .. (o + n - 1)
<1> DEFINE new == [off |-> o, len |-> n]
<1>1. Span(new) = o .. (o + n - 1)
  BY DEF Span
<1>3. \A u \in Task : held'[u] = IF u = t THEN held[u] \cup {new} ELSE held[u]
  BY DEF Shape, TypeOK
<1>4. \A u \in Task : \A d \in held[u] : Span(d) \cap Span(new) = {}
  BY <1>1 DEF Owned
<1>5. NonOverlap'
  <2> SUFFICES ASSUME NEW u \in Task, NEW v \in Task,
                      NEW c \in held'[u], NEW d \in held'[v],
                      Span(c) \cap Span(d) # {}
               PROVE  u = v /\ c = d
    BY DEF NonOverlap
  <2>1. CASE c \in held[u] /\ d \in held[v]
    BY <2>1 DEF NonOverlap
  <2>2. CASE c \in held[u] /\ d \notin held[v]
    BY <2>2, <1>3, <1>4
  <2>3. CASE c \notin held[u] /\ d \in held[v]
    BY <2>3, <1>3, <1>4
  <2>4. CASE c \notin held[u] /\ d \notin held[v]
    BY <2>4, <1>3
  <2> QED
    BY <2>1, <2>2, <2>3, <2>4
<1>7. \A i : Owned(i)' <=> Owned(i) \/ i \in o .. (o + n - 1)
  <2> SUFFICES ASSUME NEW i
               PROVE  Owned(i)' <=> Owned(i) \/ i \in Span(new)
    BY <1>1
  <2>1. ASSUME Owned(i)'
        PROVE  Owned(i) \/ i \in Span(new)
    <3>1. PICK u \in Task : \E c \in held'[u] : i \in Span(c)
      BY <2>1 DEF Owned
    <3> QED
      BY <3>1, <1>3 DEF Owned
  <2>2. ASSUME Owned(i)
        PROVE  Owned(i)'
    BY <2>2, <1>3 DEF Owned
  <2>3. ASSUME i \in Span(new)
        PROVE  Owned(i)'
    <3>1. new \in held'[t]
      BY <1>3
    <3> QED
      BY <2>3, <3>1 DEF Owned
  <2> QED
    BY <2>1, <2>2, <2>3
<1> QED
  BY <1>5, <1>7

\* A task gives a chunk back, whatever another is doing: the part of the step
\* that myfree and the end of myrealloc share. re is the others' locals.
LEMMA GiveBack ==
    ASSUME Shape, Exact,
           NEW t \in Task, NEW c \in held[t], re[t].pc \notin {"scan", "mark"},
           memrdy' = memrdy,
           memmap' = FreeRun(c.off),
           held' = [held EXCEPT ![t] = @ \ {c}],
           re'[t].pc = "idle", \A u \in Task : u # t => re'[u] = re[u]
    PROVE  Exact'
<1>1. memmap' = [i \in Cells |-> IF i \in Span(c) THEN 0 ELSE memmap[i]]
  BY FreeRunExact DEF Exact
<1>2. \A u \in Task : held'[u] = IF u = t THEN held[u] \ {c} ELSE held[u]
  BY DEF Shape, TypeOK
<1>3. NonOverlap'
  BY <1>2 DEF Exact, NonOverlap
<1>4. ASSUME NEW u \in Task, NEW d \in held'[u], NEW i \in Span(d)
      PROVE  memmap'[i] = d.len
  <2>1. d \in held[u] /\ (u # t \/ d # c)
    BY <1>2
  <2>2. i \notin Span(c)
    BY <2>1 DEF Exact, NonOverlap
  <2>3. i \in Cells /\ memmap[i] = d.len
    BY <2>1, ChunkSpan DEF Exact, TableExact
  <2> QED
    BY <1>1, <2>2, <2>3
<1>5. \A i : Owned(i) /\ i \notin Span(c) => Owned(i)'
  BY <1>2 DEF Owned
<1>6. \A i : Owned(i)' => Owned(i)
  BY <1>2 DEF Owned
<1>7. \A i : Marking(i) => Marking(i)'
  <2>1. SUFFICES ASSUME NEW i, Marking(i)
                 PROVE  Marking(i)'
    OBVIOUS
  <2>2. PICK u \in Task : re[u].pc = "mark" /\ i \in re[u].off .. (re[u].off + re[u].cnt - 1)
    BY <2>1 DEF Marking
  <2>3. re'[u] = re[u]
    BY <2>2
  <2> QED
    BY <2>2, <2>3 DEF Marking
<1>8. TableExact'
  <2>1. ASSUME NEW i \in Cells, memmap'[i] # 0, memrdy
        PROVE  Owned(i)' \/ Marking(i)'
    <3>1. memmap[i] # 0 /\ i \notin Span(c)
      BY <1>1, <2>1
    <3>2. Owned(i) \/ Marking(i)
      BY <2>1, <3>1 DEF Exact, TableExact
    <3> QED
      BY <1>5, <1>7, <3>1, <3>2
  <2> QED
    BY <1>4, <2>1 DEF TableExact
<1>9. RunsFree'
  <2>1. SUFFICES ASSUME NEW u \in Task, u # t
                 PROVE  RunsFree!(u)'
    BY DEF RunsFree
  <2>2. re'[u] = re[u] /\ held'[u] = held[u]
    BY <1>2, <2>1
  <2>3. CASE re[u].pc = "scan"
    <3>1. \A i \in (re[u].off + 1) .. (re[u].off + re[u].cnt) : i \in Cells /\ memmap[i] = 0
      <4>1. /\ re[u].off \in Nat /\ re[u].cnt \in Nat
            /\ re[u].off + re[u].cnt < TblSize
        BY <2>3, ScanFacts
      <4>2. \A i \in (re[u].off + 1) .. (re[u].off + re[u].cnt) : i \in Cells
        BY <4>1, TblSizeAssumption DEF Cells
      <4>3. RunsFree!(u)
        BY DEF Exact, RunsFree
      <4> QED
        BY <2>3, <4>2, <4>3
    <3>2. \A i \in (re[u].off + 1) .. (re[u].off + re[u].cnt) : memmap'[i] = 0
      BY <1>1, <3>1
    <3> QED
      BY <2>2, <2>3, <3>2
  <2>4. CASE re[u].pc = "mark"
    <3> DEFINE r == re[u]
    <3>1. /\ \A i \in r.off .. (r.off + r.cnt - 1) : memmap[i] = r.n
          /\ \A i \in (r.off + r.cnt) .. (r.off + r.n - 1) : memmap[i] = 0
          /\ \A i \in r.off .. (r.off + r.n - 1) : ~ Owned(i)
      BY <2>4 DEF Exact, RunsFree
    <3>2. /\ r.off \in Nat /\ r.cnt \in Nat /\ r.n \in Nat /\ r.cnt < r.n
          /\ r.off .. (r.off + r.n - 1) \subseteq Cells
      BY <2>4, MarkFacts
    <3> HIDE DEF r
    <3>3. /\ r.off .. (r.off + r.cnt - 1) \subseteq r.off .. (r.off + r.n - 1)
          /\ (r.off + r.cnt) .. (r.off + r.n - 1) \subseteq r.off .. (r.off + r.n - 1)
      BY <3>2
    <3>4. \A i \in r.off .. (r.off + r.n - 1) : memmap'[i] = memmap[i] /\ ~ Owned(i)'
      <4>1. \A i \in Span(c) : Owned(i)
        BY DEF Owned
      <4> QED
        BY <1>1, <1>6, <3>1, <3>2, <4>1
    <3>5. /\ \A i \in r.off .. (r.off + r.cnt - 1) : memmap'[i] = r.n
          /\ \A i \in (r.off + r.cnt) .. (r.off + r.n - 1) : memmap'[i] = 0
          /\ \A i \in r.off .. (r.off + r.n - 1) : ~ Owned(i)'
      BY <3>1, <3>3, <3>4
    <3> QED
      BY <2>2, <2>4, <3>5 DEF r
  <2>5. CASE re[u].pc = "copy"
    BY <2>2, <2>5 DEF Exact, RunsFree
  <2>6. CASE re[u].pc = "idle"
    BY <2>2, <2>6
  <2> QED
    BY <2>3, <2>4, <2>5, <2>6 DEF Shape, TypeOK, ReallocLocals
<1>10. OneLooks'
  <2>1. \A u \in Task : re'[u].pc \in {"scan", "mark"} => re[u].pc \in {"scan", "mark"}
    OBVIOUS
  <2> QED
    BY <2>1 DEF Exact, OneLooks
<1> QED
  BY <1>3, <1>8, <1>9, <1>10 DEF Exact

LEMMA InitExact ==
    ASSUME Shape, Exact, MyMemInit
    PROVE  Exact'
<1>1. \A t \in Task : held[t] = {} /\ re[t].pc = "idle"
  BY NothingBefore DEF MyMemInit
<1> QED
  BY <1>1 DEF MyMemInit, ZeroTable, Exact, NonOverlap, TableExact, RunsFree, OneLooks

\* The table changes only from garbage to zeros, before anything is held.
LEMMA ReadyExact ==
    ASSUME Shape, Exact, memrdy' = TRUE, memmap' = ReadyTable, held' = held, re' = re
    PROVE  Exact'
<1>1. NonOverlap' /\ OneLooks'
  BY DEF Exact, NonOverlap, OneLooks
<1>2. \A i : (Owned(i)' <=> Owned(i)) /\ (Marking(i)' <=> Marking(i))
  BY DEF Owned, Marking
<1>3. TableExact'
  BY <1>2, ReadyTableExact DEF Exact, TableExact
<1>4. RunsFree'
  <2>1. CASE memrdy
    BY <1>2, <2>1, ReadyTableExact DEF Exact, RunsFree
  <2>2. CASE ~ memrdy
    BY <2>2, NothingBefore DEF RunsFree
  <2> QED
    BY <2>1, <2>2
<1> QED
  BY <1>1, <1>3, <1>4 DEF Exact

LEMMA MallocExact ==
    ASSUME Shape, Exact, NEW t \in Task, NEW size \in Sizes, MyMalloc(t, size), ~ crossed'
    PROVE  Exact'
<1> DEFINE n == Nmemb(size)
<1>1. memrdy' = TRUE /\ re' = re /\ re[t].pc = "idle"
  BY DEF MyMalloc, CanCall
<1>2. CASE memmap' = ReadyTable /\ held' = held
  BY <1>1, <1>2, ReadyExact
<1>3. CASE size # 0 /\ crossed' = (crossed \/ Crossing(t)) /\ \E o \in Cells :
                /\ IsFirstFit(ReadyTable, n, o)
                /\ memmap' = SetRun(ReadyTable, o, n, n)
                /\ held' = [held EXCEPT ![t] = @ \cup {[off |-> o, len |-> n]}]
  <2> PICK o \in Cells :
                /\ IsFirstFit(ReadyTable, n, o)
                /\ memmap' = SetRun(ReadyTable, o, n, n)
                /\ held' = [held EXCEPT ![t] = @ \cup {[off |-> o, len |-> n]}]
    BY <1>3
  <2> DEFINE new == [off |-> o, len |-> n]
  <2>1. n \in Nat \ {0} /\ o \in Nat
    BY <1>3, NmembPositive DEF Cells
  <2>2. o + n <= TblSize /\ \A i \in o .. (o + n - 1) : ReadyTable[i] = 0
    BY DEF IsFirstFit, Offsets
  <2>3. \A i \in o .. (o + n - 1) : ~ Owned(i)
    BY <2>2, ReadyTableExact, ChunkSpan DEF Owned, Exact
  <2>4. \A u \in Task : re[u].pc \notin {"scan", "mark"}
    BY <1>1, <1>3 DEF Crossing
  <2>5. \A i : ~ Marking(i)
    BY <2>4 DEF Marking
  <2> HIDE DEF n
  <2>6. /\ NonOverlap'
        /\ \A i : Owned(i)' <=> Owned(i) \/ i \in o .. (o + n - 1)
    BY <2>1, <2>2, <2>3, TakeFreeRun DEF Exact
  <2>7. memmap' = [i \in Cells |-> IF i \in o .. (o + n - 1) THEN n ELSE ReadyTable[i]]
    BY DEF SetRun
  <2>8. \A u \in Task : held'[u] = IF u = t THEN held[u] \cup {new} ELSE held[u]
    BY DEF Shape, TypeOK
  <2>9. ASSUME NEW u \in Task, NEW c \in held'[u], NEW i \in Span(c)
        PROVE  memmap'[i] = c.len
    <3>1. CASE c \in held[u]
      <4>1. i \in Cells /\ ReadyTable[i] = c.len /\ Owned(i)
        BY <2>9, <3>1, ReadyTableExact, ChunkSpan DEF Owned, Exact
      <4> QED
        BY <2>3, <2>7, <4>1
    <3>2. CASE c = new
      <4>1. i \in Cells /\ i \in o .. (o + n - 1)
        BY <2>1, <2>2, <3>2, TblSizeAssumption DEF Span, Cells
      <4> QED
        BY <2>7, <3>2, <4>1
    <3> QED
      BY <2>8, <3>1, <3>2
  <2>10. \A i \in Cells : memmap'[i] # 0 => Owned(i)'
    BY <2>5, <2>6, <2>7, ReadyTableExact DEF Exact
  <2>11. TableExact'
    BY <2>9, <2>10 DEF TableExact
  <2>12. RunsFree' /\ OneLooks'
    BY <1>1, <2>4 DEF RunsFree, OneLooks, Exact
  <2> QED
    BY <2>6, <2>11, <2>12 DEF Exact
<1> QED
  BY <1>2, <1>3 DEF MyMalloc

LEMMA FreeExact ==
    ASSUME Shape, Exact, NEW t \in Task, NEW c \in held[t], MyFree(t, c)
    PROVE  Exact'
<1>1. /\ memrdy' = memrdy /\ re' = re /\ re[t].pc = "idle"
      /\ memmap' = FreeRun(c.off)
      /\ held' = [held EXCEPT ![t] = @ \ {c}]
  BY DEF MyFree, CanCall
<1> QED
  BY <1>1, GiveBack

LEMMA CallExact ==
    ASSUME Shape, Exact, NEW t \in Task, NEW size \in Sizes,
           NEW old \in held[t] \cup {NoPtr}, ReallocCall(t, old, size), ~ crossed'
    PROVE  Exact'
<1>1. memrdy' = TRUE /\ memmap' = ReadyTable /\ held' = held /\ re[t].pc = "idle"
  BY DEF ReallocCall, CanCall
<1>2. CASE size = 0
  <2>1. re' = re
    BY <1>2 DEF ReallocCall
  <2> QED
    BY <1>1, <2>1, ReadyExact
<1>3. CASE size # 0
  <2> DEFINE new == [pc |-> "scan", old |-> old, n |-> Nmemb(size), off |-> TblSize - 1,
                     cnt |-> 0]
  <2>1. re' = [re EXCEPT ![t] = new] /\ crossed' = (crossed \/ Crossing(t))
    BY <1>3 DEF ReallocCall
  <2>2. /\ \A u \in Task : re'[u] = IF u = t THEN new ELSE re[u]
        /\ \A u \in Task : re[u].pc \notin {"scan", "mark"}
    BY <1>1, <2>1 DEF Shape, TypeOK, Crossing
  <2>3. NonOverlap' /\ OneLooks'
    BY <1>1, <2>2 DEF Exact, NonOverlap, OneLooks
  <2>4. \A i : (Owned(i)' <=> Owned(i)) /\ ~ Marking(i)
    BY <1>1, <2>2 DEF Owned, Marking
  <2>5. TableExact'
    BY <1>1, <2>4, ReadyTableExact DEF Exact, TableExact
  <2>6. RunsFree'
    <3>1. \A i \in (TblSize - 1 + 1) .. (TblSize - 1 + 0) : FALSE
      BY TblSizeAssumption
    <3>2. SUFFICES ASSUME NEW u \in Task
                   PROVE  RunsFree!(u)'
      BY DEF RunsFree
    <3>3. CASE u = t
      BY <2>2, <3>1, <3>3
    <3>4. CASE u # t
      BY <2>2, <3>4 DEF Exact, RunsFree
    <3> QED
      BY <3>3, <3>4
  <2> QED
    BY <2>3, <2>5, <2>6 DEF Exact
<1> QED
  BY <1>2, <1>3

LEMMA ScanExact ==
    ASSUME Shape, Exact, NEW t \in Task, ReallocScan(t)
    PROVE  Exact'
<1> DEFINE r == re[t]
           cmemb == IF memmap[r.off] = 0 THEN r.cnt + 1 ELSE 0
<1>1. r.pc = "scan" /\ UNCHANGED <<memrdy, memmap, held>>
  BY DEF ReallocScan
<1>2. /\ r.off \in Nat /\ r.cnt \in Nat /\ r.n \in Nat /\ memrdy
      /\ cmemb \in Nat /\ r.off + cmemb <= TblSize
      /\ \A i \in (r.off + 1) .. (r.off + r.cnt) : memmap[i] = 0
  <2>1. \A i \in (r.off + 1) .. (r.off + r.cnt) : memmap[i] = 0
    BY <1>1 DEF Exact, RunsFree
  <2> QED
    BY <1>1, <2>1, ScanFacts
<1>3. /\ \A u \in Task : u # t => re'[u] = re[u]
      /\ \/ /\ cmemb = r.n
            /\ re'[t].pc = "mark" /\ re'[t].cnt = 0
            /\ re'[t].off = r.off /\ re'[t].n = r.n /\ re'[t].old = r.old
         \/ re'[t] = Idle
         \/ /\ cmemb < r.n /\ r.off # 0
            /\ re'[t].pc = "scan" /\ re'[t].cnt = cmemb
            /\ re'[t].off = r.off - 1 /\ re'[t].n = r.n /\ re'[t].old = r.old
  BY ScanTurn
<1>4. \A i \in r.off .. (r.off + cmemb - 1) : memmap[i] = 0 /\ i \in Cells
  BY <1>2, TblSizeAssumption DEF Cells
<1>5. \A u \in Task : u # t => re[u].pc \notin {"scan", "mark"}
  BY <1>1 DEF Exact, OneLooks
<1> HIDE DEF cmemb, r
<1>6. NonOverlap' /\ OneLooks'
  BY <1>1, <1>3, <1>5 DEF Exact, NonOverlap, OneLooks
<1>7. \A i : (Owned(i)' <=> Owned(i)) /\ ~ Marking(i)
  BY <1>1, <1>5 DEF Owned, Marking, r
<1>8. TableExact'
  BY <1>1, <1>7 DEF Exact, TableExact
<1>9. \A i : i \in Cells /\ memmap[i] = 0 => ~ Owned(i)
  BY <1>2, ChunkSpan DEF Exact, TableExact, Owned
<1>10. RunsFree'
  <2>1. SUFFICES ASSUME NEW u \in Task
                 PROVE  RunsFree!(u)'
    BY DEF RunsFree
  <2>2. CASE u # t
    BY <1>3, <1>5, <2>2 DEF Exact, RunsFree
  <2>3. CASE u = t /\ cmemb = r.n /\ re'[t].pc = "mark"
    <3>1. re'[t].cnt = 0 /\ re'[t].off = r.off /\ re'[t].n = r.n
      BY <1>3, <2>3 DEF Idle
    <3>2. \A i \in r.off .. (r.off + r.n - 1) : memmap'[i] = 0 /\ ~ Owned(i)'
      BY <1>1, <1>4, <1>7, <1>9, <2>3
    <3>3. /\ \A i \in r.off .. (r.off + 0 - 1) : FALSE
          /\ r.off + 0 = r.off
      BY <1>2
    <3> QED
      BY <2>3, <3>1, <3>2, <3>3
  <2>4. CASE u = t /\ re'[t] = Idle
    BY <2>4 DEF Idle
  <2>5. CASE u = t /\ re'[t].pc = "scan"
    <3>1. re'[t].cnt = cmemb /\ re'[t].off = r.off - 1
      BY <1>3, <2>5 DEF Idle
    <3>2. \A i \in ((r.off - 1) + 1) .. ((r.off - 1) + cmemb) : i \in r.off .. (r.off + cmemb - 1)
      BY <1>2
    <3>3. \A i \in ((r.off - 1) + 1) .. ((r.off - 1) + cmemb) : memmap'[i] = 0
      BY <1>1, <1>4, <3>2
    <3> QED
      BY <2>5, <3>1, <3>3
  <2> QED
    BY <1>3, <2>2, <2>3, <2>4, <2>5
<1> QED
  BY <1>6, <1>8, <1>10 DEF Exact

LEMMA MarkExact ==
    ASSUME Shape, Exact, NEW t \in Task, ReallocMark(t)
    PROVE  Exact'
<1> DEFINE r == re[t]
           top == r.off + r.cnt
           new == [off |-> r.off, len |-> r.n]
<1>1. r.pc = "mark" /\ memrdy' = memrdy
  BY DEF ReallocMark
<1>2. /\ r.off \in Nat /\ r.cnt \in Nat /\ r.n \in Nat \ {0}
      /\ memrdy /\ r.old \in held[t] \cup {NoPtr}
      /\ r.cnt < r.n /\ r.off + r.n <= TblSize /\ top \in Cells
      /\ r.off .. (r.off + r.n - 1) \subseteq Cells
  BY <1>1, MarkFacts
<1>3. /\ memmap' \in [Cells -> Nat]
      /\ \A i \in Cells : memmap'[i] = IF i = top THEN r.n ELSE memmap[i]
      /\ \A u \in Task : u # t => re'[u] = re[u]
      /\ re'[t].off = r.off /\ re'[t].n = r.n /\ re'[t].old = r.old
      /\ \/ /\ r.cnt + 1 = r.n /\ re'[t].pc = "copy"
            /\ held' = [held EXCEPT ![t] = @ \cup {new}]
         \/ /\ r.cnt + 1 < r.n /\ re'[t].pc = "mark" /\ re'[t].cnt = r.cnt + 1
            /\ held' = held
  BY MarkTurn
<1>4. /\ \A i \in r.off .. (r.off + r.cnt - 1) : memmap[i] = r.n
      /\ \A i \in (r.off + r.cnt) .. (r.off + r.n - 1) : memmap[i] = 0
      /\ \A i \in r.off .. (r.off + r.n - 1) : ~ Owned(i)
  BY <1>1 DEF Exact, RunsFree
<1>5. \A u \in Task : u # t => re[u].pc \notin {"scan", "mark"}
  BY <1>1 DEF Exact, OneLooks
<1>6. \A i : Marking(i) <=> i \in r.off .. (top - 1)
  <2>1. \A u \in Task : re[u].pc = "mark" => u = t
    BY <1>5
  <2> QED
    BY <1>1, <1>2, <2>1 DEF Marking
<1> HIDE DEF r
<1>7. \A i \in r.off .. top : memmap'[i] = r.n
  BY <1>2, <1>3, <1>4
<1>8. ASSUME NEW u \in Task, NEW c \in held[u], NEW i \in Span(c)
      PROVE  memmap'[i] = c.len
  <2>1. i \in Cells /\ memmap[i] = c.len /\ Owned(i)
    BY <1>2, ChunkSpan DEF Exact, TableExact, Owned
  <2>2. i # top
    BY <1>2, <1>4, <2>1
  <2> QED
    BY <1>3, <2>1, <2>2
<1>9. CASE /\ r.cnt + 1 = r.n /\ re'[t].pc = "copy"
           /\ held' = [held EXCEPT ![t] = @ \cup {new}]
  <2>1. /\ NonOverlap'
        /\ \A i : Owned(i)' <=> Owned(i) \/ i \in r.off .. (r.off + r.n - 1)
    <3> HIDE DEF top
    <3> QED
      BY <1>2, <1>4, <1>9, TakeFreeRun DEF Exact
  <2>2. \A u \in Task : held'[u] = IF u = t THEN held[u] \cup {new} ELSE held[u]
    BY <1>9 DEF Shape, TypeOK
  <2>3. r.old # new
    <3>1. CASE r.old = NoPtr
      BY <1>2, <3>1 DEF NoPtr
    <3>2. CASE r.old \in held[t]
      <4>1. Owned(r.old.off)
        BY <3>2, ChunkSpan DEF Owned
      <4>2. ~ Owned(new.off)
        BY <1>2, <1>4
      <4> QED
        BY <4>1, <4>2
    <3> QED
      BY <1>2, <3>1, <3>2
  <2>4. RunsFree'
    <3>1. SUFFICES ASSUME NEW u \in Task
                   PROVE  RunsFree!(u)'
      BY DEF RunsFree
    <3>2. CASE u # t
      BY <1>3, <1>5, <3>2 DEF Exact, RunsFree
    <3>3. CASE u = t
      BY <1>3, <1>9, <2>3, <3>3
    <3> QED
      BY <3>2, <3>3
  <2>5. OneLooks'
    BY <1>3, <1>5, <1>9 DEF OneLooks
  <2>6. ASSUME NEW u \in Task, NEW c \in held'[u], NEW i \in Span(c)
        PROVE  memmap'[i] = c.len
    <3>1. CASE c \in held[u]
      BY <1>8, <3>1
    <3>2. CASE c = new
      BY <1>2, <1>7, <1>9, <3>2 DEF Span
    <3> QED
      BY <2>2, <3>1, <3>2
  <2>7. ASSUME NEW i \in Cells, memmap'[i] # 0
        PROVE  Owned(i)'
    <3>1. CASE i = top
      BY <1>2, <2>1, <3>1
    <3>2. CASE i # top
      <4>1. Owned(i) \/ i \in r.off .. (top - 1)
        BY <1>2, <1>3, <1>6, <2>7, <3>2 DEF Exact, TableExact
      <4> QED
        BY <1>2, <2>1, <4>1
    <3> QED
      BY <3>1, <3>2
  <2>8. TableExact'
    BY <2>6, <2>7 DEF TableExact
  <2> QED
    BY <2>1, <2>4, <2>5, <2>8 DEF Exact
<1>10. CASE /\ r.cnt + 1 < r.n /\ re'[t].pc = "mark" /\ re'[t].cnt = r.cnt + 1
            /\ held' = held
  <2>1. NonOverlap' /\ OneLooks'
    BY <1>3, <1>5, <1>10 DEF Exact, NonOverlap, OneLooks
  <2>2. \A i : Owned(i)' <=> Owned(i)
    BY <1>10 DEF Owned
  <2>3. RunsFree'
    <3>1. SUFFICES ASSUME NEW u \in Task
                   PROVE  RunsFree!(u)'
      BY DEF RunsFree
    <3>2. CASE u # t
      BY <1>3, <1>5, <3>2 DEF Exact, RunsFree
    <3>3. CASE u = t
      <4>1. \A i \in r.off .. (r.off + (r.cnt + 1) - 1) : memmap'[i] = r.n
        BY <1>2, <1>7
      <4>2. \A i \in (r.off + (r.cnt + 1)) .. (r.off + r.n - 1) : memmap'[i] = 0
        BY <1>2, <1>3, <1>4
      <4>3. \A i \in r.off .. (r.off + r.n - 1) : ~ Owned(i)'
        BY <1>4, <2>2
      <4> QED
        BY <1>3, <1>10, <3>3, <4>1, <4>2, <4>3
    <3> QED
      BY <3>2, <3>3
  <2>4. \A i \in r.off .. top : Marking(i)'
    <3>1. \A i \in r.off .. top : i \in r.off .. (r.off + (r.cnt + 1) - 1)
      BY <1>2
    <3> QED
      BY <1>3, <1>10, <3>1 DEF Marking
  <2>5. ASSUME NEW i \in Cells, memmap'[i] # 0
        PROVE  Owned(i)' \/ Marking(i)'
    <3>1. CASE i = top
      BY <1>2, <2>4, <3>1
    <3>2. CASE i # top
      <4>1. Owned(i) \/ i \in r.off .. (top - 1)
        BY <1>2, <1>3, <1>6, <2>5, <3>2 DEF Exact, TableExact
      <4> QED
        BY <1>2, <2>2, <2>4, <4>1
    <3> QED
      BY <3>1, <3>2
  <2>6. TableExact'
    BY <1>8, <1>10, <2>5 DEF TableExact
  <2> QED
    BY <2>1, <2>3, <2>6 DEF Exact
<1> QED
  BY <1>3, <1>9, <1>10

LEMMA FinishExact ==
    ASSUME Shape, Exact, NEW t \in Task, ReallocFree(t)
    PROVE  Exact'
<1> DEFINE r == re[t]
<1>1. /\ memrdy' = memrdy
      /\ memmap' = IF r.old = NoPtr THEN memmap ELSE FreeRun(r.old.off)
      /\ held' = [held EXCEPT ![t] = @ \ {r.old}]
      /\ re' = [re EXCEPT ![t] = Idle]
      /\ r.pc = "copy"
  BY DEF ReallocFree
<1>2. re'[t] = Idle /\ \A u \in Task : u # t => re'[u] = re[u]
  BY <1>1 DEF Shape, TypeOK
<1>3. r.old \in held[t] \cup {NoPtr}
  BY <1>1 DEF Shape, CallsInBounds
<1>4. CASE r.old = NoPtr
  <2>1. NoPtr \notin held[t]
    BY ChunkSpan DEF NoPtr
  <2>2. held' = held /\ memmap' = memmap
    BY <1>1, <1>4, <2>1 DEF Shape, TypeOK
  <2>3. NonOverlap' /\ OneLooks'
    BY <1>2, <2>2 DEF Exact, NonOverlap, OneLooks, Idle
  <2>4. \A i : (Owned(i)' <=> Owned(i)) /\ (Marking(i) => Marking(i)')
    <3>1. \A i : Owned(i)' <=> Owned(i)
      BY <2>2 DEF Owned
    <3>2. ASSUME NEW i, NEW u \in Task, re[u].pc = "mark",
                 i \in re[u].off .. (re[u].off + re[u].cnt - 1)
          PROVE  Marking(i)'
      <4>1. re'[u] = re[u]
        BY <1>1, <1>2, <3>2
      <4> QED
        BY <3>2, <4>1 DEF Marking
    <3> QED
      BY <3>1, <3>2 DEF Marking
  <2>5. TableExact'
    BY <1>1, <2>2, <2>4 DEF Exact, TableExact
  <2>6. RunsFree'
    <3>1. SUFFICES ASSUME NEW u \in Task
                   PROVE  RunsFree!(u)'
      BY DEF RunsFree
    <3>2. CASE u # t
      BY <1>2, <2>2, <2>4, <3>2 DEF Exact, RunsFree
    <3>3. CASE u = t
      BY <1>2, <3>3 DEF Idle
    <3> QED
      BY <3>2, <3>3
  <2> QED
    BY <2>3, <2>5, <2>6 DEF Exact
<1>5. CASE r.old # NoPtr
  <2> DEFINE old == r.old
  <2>1. /\ old \in held[t]
        /\ memmap' = FreeRun(old.off)
        /\ held' = [held EXCEPT ![t] = @ \ {old}]
    BY <1>1, <1>3, <1>5
  <2> HIDE DEF old
  <2>2. re[t].pc \notin {"scan", "mark"} /\ re'[t].pc = "idle"
    BY <1>1, <1>2 DEF Idle
  <2> QED
    BY <1>1, <1>2, <2>1, <2>2, GiveBack
<1> QED
  BY <1>4, <1>5

-----------------------------------------------------------------------------
LEMMA Start == Init => IInv
<1> SUFFICES ASSUME Init PROVE IInv
  OBVIOUS
<1>1. re = [t \in Task |-> Idle] /\ held = [t \in Task |-> {}]
  BY DEF Init
<1>2. TypeOK
  BY TblSizeAssumption, GarbageAssumption
  DEF Init, TypeOK, Idle, ReallocLocals, NoPtr
<1>3. CallsInBounds /\ HeldWhenReady /\ RunsFree /\ OneLooks
  BY <1>1 DEF CallsInBounds, HeldWhenReady, RunsFree, OneLooks, Idle
<1>4. NonOverlap /\ TableExact
  BY DEF Init, NonOverlap, TableExact
<1> QED
  BY <1>2, <1>3, <1>4 DEF IInv, Shape, Exact

LEMMA Step == IInv /\ [Next]_vars => IInv'
<1> SUFFICES ASSUME IInv, [Next]_vars, ~ crossed'
             PROVE  Exact'
  BY ShapeStep DEF IInv
<1>1. Shape
  BY DEF IInv
<1>2. ~ crossed
  BY <1>1 DEF Next, MyMemInit, MyMalloc, MyFree, MyRealloc, ReallocCall, ReallocScan,
              ReallocMark, ReallocFree, vars
<1>3. Exact
  BY <1>2 DEF IInv
<1>4. CASE UNCHANGED vars
  BY <1>3, <1>4 DEF vars, Exact, NonOverlap, TableExact, RunsFree, OneLooks, Owned, Marking
<1>5. ASSUME NEW t \in Task, MyRealloc(t)
      PROVE  Exact'
  BY <1>1, <1>3, <1>5, CallExact, ScanExact, MarkExact, FinishExact DEF MyRealloc
<1> QED
  BY <1>1, <1>3, <1>4, <1>5, InitExact, MallocExact, FreeExact DEF Next

LEMMA IInvAlways == Spec => []IInv
BY Start, Step, PTL DEF Spec

\* malloc.c: in every order of calls and preemptions, and after a crossing
\* too, chunks lie in the pool and the loops of myrealloc stay in the table.
THEOREM TypeCorrect == Spec => []TypeOK
<1>1. IInv => TypeOK
  BY DEF IInv, Shape
<1> QED
  BY <1>1, IInvAlways, PTL

\* mymalloc, myfree and myrealloc never hand the same block to two owners, in
\* any order of calls and preemptions, until a task takes a chunk between the
\* scan and the marks of another's myrealloc.
THEOREM ChunksDisjoint == Spec => []NonOverlapUncrossed
<1>1. IInv => NonOverlapUncrossed
  BY DEF IInv, Exact, NonOverlapUncrossed
<1> QED
  BY <1>1, IInvAlways, PTL

\* So long the table of malloc.c agrees with what the tasks hold: no block
\* leaks and none is freed while it is owned.
THEOREM TableAlwaysExact == Spec => []TableExactUncrossed
<1>1. IInv => TableExactUncrossed
  BY DEF IInv, Exact, TableExactUncrossed
<1> QED
  BY <1>1, IInvAlways, PTL

-----------------------------------------------------------------------------
(* The abstract pool.                                                       *)

\* Taking a run of blocks that nobody owns is a Take of the abstract pool.
LEMMA TakeRefines ==
    ASSUME NEW t \in Task, NEW o \in Nat, NEW n \in Nat \ {0},
           o + n <= TblSize,
           \A i \in o .. (o + n - 1) : ~ Owned(i),
           held' = [held EXCEPT ![t] = @ \cup {[off |-> o, len |-> n]}]
    PROVE  Pool!Next
<1> DEFINE new == [off |-> o, len |-> n]
<1>1. new \in Pool!Chunk /\ Pool!Span(new) = o .. (o + n - 1)
  BY TblSizeAssumption DEF Pool!Chunk, Pool!Cells, Pool!Span
<1>2. Pool!Span(new) \subseteq Pool!Cells
  BY <1>1, TblSizeAssumption DEF Pool!Cells
<1>3. \A i \in Pool!Span(new) : ~ Pool!Owned(i)
  BY <1>1 DEF Pool!Owned, Pool!Span, Owned, Span
<1>4. Pool!Take(t, new)
  BY <1>2, <1>3 DEF Pool!Take
<1> QED
  BY <1>1, <1>4 DEF Pool!Next

LEMMA MallocRefines ==
    ASSUME Shape, Exact, NEW t \in Task, NEW size \in Sizes, MyMalloc(t, size)
    PROVE  Pool!Next \/ held' = held
<1> DEFINE n == Nmemb(size)
<1> SUFFICES ASSUME size # 0, NEW o \in Cells, IsFirstFit(ReadyTable, n, o),
                    held' = [held EXCEPT ![t] = @ \cup {[off |-> o, len |-> n]}]
             PROVE  Pool!Next
  BY DEF MyMalloc
<1>1. n \in Nat \ {0} /\ o \in Nat
  BY NmembPositive DEF Cells
<1>2. o + n <= TblSize /\ \A i \in o .. (o + n - 1) : ReadyTable[i] = 0
  BY DEF IsFirstFit, Offsets
<1>3. \A i \in o .. (o + n - 1) : ~ Owned(i)
  BY <1>2, ReadyTableExact, ChunkSpan DEF Owned, Exact
<1> HIDE DEF n
<1> QED
  BY <1>1, <1>2, <1>3, TakeRefines

LEMMA MarkRefines ==
    ASSUME Shape, Exact, NEW t \in Task, ReallocMark(t)
    PROVE  Pool!Next \/ held' = held
<1> DEFINE r == re[t]
<1> SUFFICES ASSUME held' = [held EXCEPT ![t] = @ \cup {[off |-> r.off, len |-> r.n]}]
             PROVE  Pool!Next
  BY DEF ReallocMark
<1>1. /\ r.off \in Nat /\ r.n \in Nat \ {0} /\ r.off + r.n <= TblSize
      /\ \A i \in r.off .. (r.off + r.n - 1) : ~ Owned(i)
  <2>1. r.pc = "mark"
    BY DEF ReallocMark
  <2>2. \A i \in r.off .. (r.off + r.n - 1) : ~ Owned(i)
    BY <2>1 DEF Exact, RunsFree
  <2> QED
    BY <2>1, <2>2, MarkFacts
<1> HIDE DEF r
<1> QED
  BY <1>1, TakeRefines

\* Giving back a chunk one holds is a Give of the abstract pool.
LEMMA GiveRefines ==
    ASSUME Shape, NEW t \in Task, NEW c \in held[t],
           held' = [held EXCEPT ![t] = @ \ {c}]
    PROVE  Pool!Next
<1>1. c \in Pool!Chunk
  BY ChunkSpan DEF Chunk, Cells, Pool!Chunk, Pool!Cells
<1>2. Pool!Give(t, c)
  BY DEF Pool!Give
<1> QED
  BY <1>1, <1>2 DEF Pool!Next

LEMMA FinishRefines ==
    ASSUME Shape, NEW t \in Task, ReallocFree(t)
    PROVE  Pool!Next \/ held' = held
<1>1. /\ held' = [held EXCEPT ![t] = @ \ {re[t].old}]
      /\ re[t].old \in held[t] \cup {NoPtr}
  BY DEF ReallocFree, Shape, CallsInBounds
<1>2. CASE re[t].old \in held[t]
  BY <1>1, <1>2, GiveRefines
<1>3. CASE re[t].old \notin held[t]
  BY <1>1, <1>3 DEF Shape, TypeOK
<1> QED
  BY <1>2, <1>3

\* Every step of malloc.c until a crossing, and the step that crosses, is a
\* step of the abstract pool or leaves it alone.
LEMMA NextRefines ==
    ASSUME IInv, [Next]_vars
    PROVE  [crossed \/ Pool!Next]_held
<1> SUFFICES ASSUME Shape, Exact
             PROVE  [Pool!Next]_held
  BY DEF IInv
<1>1. CASE MyMemInit
  BY <1>1 DEF MyMemInit
<1>2. ASSUME NEW t \in Task, NEW size \in Sizes, MyMalloc(t, size)
      PROVE  Pool!Next \/ held' = held
  BY <1>2, MallocRefines
<1>3. ASSUME NEW t \in Task, NEW c \in held[t], MyFree(t, c)
      PROVE  Pool!Next
  BY <1>3, GiveRefines DEF MyFree
<1>4. ASSUME NEW t \in Task, MyRealloc(t)
      PROVE  Pool!Next \/ held' = held
  <2>1. CASE ReallocMark(t)
    BY <2>1, MarkRefines
  <2>2. CASE ReallocFree(t)
    BY <2>2, FinishRefines
  <2>3. CASE ReallocScan(t)
    BY <2>3 DEF ReallocScan
  <2>4. CASE \E size \in Sizes : \E old \in held[t] \cup {NoPtr} : ReallocCall(t, old, size)
    BY <2>4 DEF ReallocCall
  <2> QED
    BY <1>4, <2>1, <2>2, <2>3, <2>4 DEF MyRealloc
<1>5. CASE UNCHANGED vars
  BY <1>5 DEF vars
<1> QED
  BY <1>1, <1>2, <1>3, <1>4, <1>5 DEF Next

\* malloc.c implements the abstract pool, whatever the size of the bank and
\* whichever tasks call myrealloc, until a crossing.
THEOREM MallocImplementsAllocator == Spec => ImplementsAllocator
<1>1. Init => Pool!Init
  BY DEF Init, Pool!Init
<1>2. IInv /\ [Next]_vars => [crossed \/ Pool!Next]_held
  BY NextRefines
<1> QED
  BY <1>1, <1>2, IInvAlways, PTL DEF Spec, ImplementsAllocator

=============================================================================
