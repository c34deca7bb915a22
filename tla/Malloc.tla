------------------------------- MODULE Malloc -------------------------------
(***************************************************************************)
(* The block allocator of MALLOC/malloc.c for one memory bank (SRAMIN,     *)
(* SRAMEX or SRAMCCM: the banks share no state), used by the uC/OS-II      *)
(* tasks of the firmware.                                                  *)
(*                                                                         *)
(* mymalloc and myfree mask interrupts around the whole operation, so each *)
(* is one action.  myrealloc calls my_mem_malloc with interrupts enabled:  *)
(* its scan of the table and its marking of the table are one action per   *)
(* entry, between which a task of higher priority may run.                 *)
(*                                                                         *)
(* A task is its uC/OS-II priority: the kernel gives every task a priority *)
(* of its own, and the smaller number runs first.                          *)
(***************************************************************************)
EXTENDS Integers

CONSTANTS Task,        \* priorities of the tasks that use the bank
          Reallocers,  \* the tasks among them that call myrealloc
          TblSize,     \* memtblsize: entries of the table
          BlkSize,     \* memblksize: bytes of a block
          Sizes,       \* the sizes requested, in bytes
          Garbage      \* what the table may hold before my_mem_init

ASSUME TaskAssumption    == Task \subseteq Nat /\ Reallocers \subseteq Task
ASSUME TblSizeAssumption == TblSize \in Nat \ {0}
ASSUME BlkSizeAssumption == BlkSize \in Nat \ {0}
ASSUME SizesAssumption   == Sizes \subseteq Nat
ASSUME GarbageAssumption == Garbage \subseteq Nat

VARIABLES memrdy,  \* mallco_dev.memrdy[memx]
          memmap,  \* mallco_dev.memmap[memx]
          held,    \* held[t]: the chunks whose addresses task t was given
          re,      \* re[t]: locals of task t's call of myrealloc
          crossed  \* a task has taken a chunk, or gone for one with
                   \* myrealloc, between the scan and the marks of another's
                   \* (history: the code does not see it)

vars == <<memrdy, memmap, held, re, crossed>>

Cells == 0 .. (TblSize - 1)
Chunk == [off : Cells, len : 1 .. TblSize]
Span(c) == c.off .. (c.off + c.len - 1)

NoPtr == [off |-> -1, len |-> 0]      \* NULL

Idle == [pc |-> "idle", old |-> NoPtr, n |-> 0, off |-> 0, cnt |-> 0]

Owned(i) == \E t \in Task : \E c \in held[t] : i \in Span(c)

\* Blocks needed for a request, rounded up.
Nmemb(size) == size \div BlkSize + (IF size % BlkSize # 0 THEN 1 ELSE 0)

\* Mutant: the run counted is one block short.
OffsetsShort(tbl, n) ==
    {o \in Cells : o + n <= TblSize /\ \A i \in o .. (o + n - 2) : tbl[i] = 0}

\* Mutant: the bound of the scan is one off.
OffsetsPastEnd(tbl, n) ==
    {o \in Cells : o + n <= TblSize + 1 /\ \A i \in (o .. (o + n - 1)) \cap Cells : tbl[i] = 0}

\* The offsets at which n free blocks begin, and the one the downward scan
\* of my_mem_malloc meets first.
Offsets(tbl, n) ==
    {o \in Cells : o + n <= TblSize /\ \A i \in o .. (o + n - 1) : tbl[i] = 0}
IsFirstFit(tbl, n, o) ==
    o \in Offsets(tbl, n) /\ \A p \in Offsets(tbl, n) : p <= o

ZeroTable == [i \in Cells |-> 0]

\* Mutant: the table is cleared by every call.
ReadyTableAlways == ZeroTable

\* The table after the "not initialised yet" test that opens my_mem_malloc.
ReadyTable == IF memrdy THEN memmap ELSE ZeroTable

SetRun(tbl, off, n, v) ==
    [i \in Cells |-> IF i \in off .. (off + n - 1) THEN v ELSE tbl[i]]

\* The scheduler: myrealloc never blocks, so while it is under way in a task
\* only tasks of higher priority get the processor.
Runs(t) == \A u \in Task : re[u].pc # "idle" => t <= u
CanCall(t) == Runs(t) /\ re[t].pc = "idle"

\* Another task is between the first turn of its scan and its last mark.
Crossing(t) == \E u \in Task \ {t} : re[u].pc \in {"scan", "mark"}
-----------------------------------------------------------------------------
Init ==
    /\ memrdy = FALSE
    /\ memmap \in [Cells -> Garbage]
    /\ held = [t \in Task |-> {}]
    /\ re = [t \in Task |-> Idle]
    /\ crossed = FALSE

\* my_mem_init, called by system_init before the tasks are started.
MyMemInit ==
    /\ ~ memrdy
    /\ memrdy' = TRUE
    /\ memmap' = ZeroTable
    /\ UNCHANGED <<held, re, crossed>>

\* mymalloc: returns NULL, or the first fit, marked with its length.
MyMalloc(t, size) ==
    LET n == Nmemb(size) IN
    /\ CanCall(t)
    /\ memrdy' = TRUE
    /\ \/ /\ size = 0 \/ Offsets(ReadyTable, n) = {}
          /\ memmap' = ReadyTable
          /\ UNCHANGED <<held, crossed>>
       \/ /\ size # 0
          /\ \E o \in Cells :
                /\ IsFirstFit(ReadyTable, n, o)
                /\ memmap' = SetRun(ReadyTable, o, n, n)
                /\ held' = [held EXCEPT ![t] = @ \cup {[off |-> o, len |-> n]}]
          /\ crossed' = (crossed \/ Crossing(t))
    /\ UNCHANGED re

\* Mutant: the last block of the run is not cleared.
FreeRunShort(off) == SetRun(memmap, off, memmap[off] - 1, 0)

\* The effect of my_mem_free on the table: the number of blocks to clear is
\* read from the table, not from the caller.
FreeRun(off) == SetRun(memmap, off, memmap[off], 0)

\* myfree of an address the task was given (myfree(NULL) changes nothing).
MyFree(t, c) ==
    /\ CanCall(t)
    /\ c \in held[t]
    /\ memmap' = FreeRun(c.off)
    /\ held' = [held EXCEPT ![t] = @ \ {c}]
    /\ UNCHANGED <<memrdy, re, crossed>>
-----------------------------------------------------------------------------
\* myrealloc enters my_mem_malloc, which starts its scan at the last entry.
ReallocCall(t, old, size) ==
    /\ CanCall(t)
    /\ t \in Reallocers
    /\ old \in held[t] \cup {NoPtr}
    /\ memrdy' = TRUE
    /\ memmap' = ReadyTable
    /\ IF size = 0
       THEN UNCHANGED <<re, crossed>>
       ELSE /\ re' = [re EXCEPT ![t] = [pc |-> "scan", old |-> old,
                         n |-> Nmemb(size), off |-> TblSize - 1, cnt |-> 0]]
            /\ crossed' = (crossed \/ Crossing(t))
    /\ UNCHANGED held

\* One turn of the scan loop: count free entries, restart at a used one.
\* Reaching n ends the scan; running out of entries makes myrealloc return
\* NULL, and the caller keeps the old chunk.
ReallocScan(t) ==
    LET r == re[t]
        cmemb == IF memmap[r.off] = 0 THEN r.cnt + 1 ELSE 0
    IN
    /\ Runs(t)
    /\ r.pc = "scan"
    /\ re' = [re EXCEPT ![t] =
                IF cmemb = r.n THEN [r EXCEPT !.pc = "mark", !.cnt = 0]
                ELSE IF r.off = 0 THEN Idle
                ELSE [r EXCEPT !.off = @ - 1, !.cnt = cmemb]]
    /\ UNCHANGED <<memrdy, memmap, held, crossed>>

\* One turn of the marking loop; after the last one the chunk is the task's.
ReallocMark(t) ==
    LET r == re[t] IN
    /\ Runs(t)
    /\ r.pc = "mark"
    /\ memmap' = [memmap EXCEPT ![r.off + r.cnt] = r.n]
    /\ IF r.cnt + 1 = r.n
       THEN /\ held' = [held EXCEPT ![t] = @ \cup {[off |-> r.off, len |-> r.n]}]
            /\ re' = [re EXCEPT ![t].pc = "copy"]
       ELSE /\ re' = [re EXCEPT ![t].cnt = @ + 1]
            /\ UNCHANGED held
    /\ UNCHANGED <<memrdy, crossed>>

\* The old contents are copied (data, not modelled), the old chunk is freed
\* by the locked myfree, and the new address is returned.
ReallocFree(t) ==
    LET r == re[t] IN
    /\ Runs(t)
    /\ r.pc = "copy"
    /\ memmap' = IF r.old = NoPtr THEN memmap ELSE FreeRun(r.old.off)
    /\ held' = [held EXCEPT ![t] = @ \ {r.old}]
    /\ re' = [re EXCEPT ![t] = Idle]
    /\ UNCHANGED <<memrdy, crossed>>

MyRealloc(t) ==
    \/ \E size \in Sizes : \E old \in held[t] \cup {NoPtr} : ReallocCall(t, old, size)
    \/ ReallocScan(t)
    \/ ReallocMark(t)
    \/ ReallocFree(t)

Next ==
    \/ MyMemInit
    \/ \E t \in Task :
          \/ \E size \in Sizes : MyMalloc(t, size)
          \/ \E c \in held[t] : MyFree(t, c)
          \/ MyRealloc(t)

Spec == Init /\ [][Next]_vars
-----------------------------------------------------------------------------
ReallocLocals == [pc : {"idle", "scan", "mark", "copy"}, old : Chunk \cup {NoPtr},
                  n : Nat, off : Nat, cnt : Nat]

\* Shape of the state: table entries are counts, what tasks hold are runs of
\* blocks that lie in the pool, and a call of myrealloc is at one of its four
\* points; it reads and marks no entry outside the table.
TypeOK ==
    /\ memrdy \in BOOLEAN
    /\ memmap \in [Cells -> Nat]
    /\ held \in [Task -> SUBSET Chunk]
    /\ re \in [Task -> ReallocLocals]
    /\ crossed \in BOOLEAN
    /\ \A t \in Task :
          /\ \A c \in held[t] : c.off + c.len <= TblSize
          /\ re[t].pc = "scan" => re[t].off + re[t].cnt < TblSize
          /\ re[t].pc = "mark" => re[t].off + re[t].n <= TblSize

\* No block is in two chunks: two addresses that malloc.c handed out and has
\* not taken back never overlap, whichever tasks hold them.
NonOverlap ==
    \A t, u \in Task : \A c \in held[t], d \in held[u] :
        Span(c) \cap Span(d) # {} => t = u /\ c = d

\* Blocks an unfinished marking loop of my_mem_malloc has already written.
Marking(i) ==
    \E u \in Task : re[u].pc = "mark" /\ i \in re[u].off .. (re[u].off + re[u].cnt - 1)

\* The table says the truth about every block: the entries of a chunk all
\* hold its length, which is what my_mem_free will clear, and an entry that
\* is not zero belongs to a chunk or to a marking under way.  A leaked block
\* or one freed under its owner's feet breaks it.
TableExact ==
    memrdy =>
        /\ \A t \in Task : \A c \in held[t] : \A i \in Span(c) : memmap[i] = c.len
        /\ \A i \in Cells : memmap[i] # 0 => Owned(i) \/ Marking(i)

\* Chunks never overlap (malloc.c:83-174), in any order of preemptions and
\* frees within myrealloc, until a task takes a chunk between the scan and
\* the marks of another's myrealloc: what may happen then, malloc_race shows.
NonOverlapUncrossed == ~ crossed => NonOverlap

\* So long is the table exact as well (malloc.c:91-104, 122-126).
TableExactUncrossed == ~ crossed => TableExact

\* malloc.c gives and takes back chunks as the abstract pool does; the first
\* chunk taken in such a moment is still a free one.
Pool == INSTANCE Allocator
ImplementsAllocator == Pool!Init /\ [][crossed \/ Pool!Next]_held
=============================================================================
