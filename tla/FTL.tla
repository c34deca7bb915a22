-------------------------------- MODULE FTL --------------------------------
(***************************************************************************)
(* The flash translation layer of HARDWARE/NAND/ftl.c over the NAND driver *)
(* of HARDWARE/NAND/nand.c.                                                *)
(*                                                                         *)
(* A step makes at most one change to the flash (one page program, block   *)
(* erase or bad-block mark), together with the computation around it, so   *)
(* that a power cut can fall between any two changes.  A page program or   *)
(* copy, an erase or a write of spare bytes may report a timeout           *)
(* (NAND_WaitRB misses the busy pulse when an interrupt outlasts it, or    *)
(* the chip is slow), whether or not it took effect.                       *)
(*                                                                         *)
(* The spare bytes of a block's first two pages are abstracted to its tag: *)
(* free (all 0XFF), bad, half bad (the bad-block mark is in the second     *)
(* page only, and the first is free), or the number of the logical block   *)
(* it holds.  The "used" byte is only ever tested together with the        *)
(* logical number.                                                         *)
(***************************************************************************)
EXTENDS Integers, Sequences, FiniteSets

CONSTANTS NBlocks,      \* nand_dev.block_totalnum
          NPages,       \* nand_dev.block_pagenum
          SecPerPage,   \* sectors in a page: page_mainsize / SectorSize
          MinBlocks,    \* 100: fewer valid blocks than this force a format
          Percent,      \* 93: share of the good blocks that hold data
          Val,          \* what the file system writes to a sector
          MaxCount,     \* sectors in one call, a bound of the model
          FactoryBad,   \* blocks the manufacturer marked bad
          MaxCuts, MaxFaults, MaxWears   \* bounds on what the environment does

ASSUME GeometryAssumption ==
    /\ NBlocks \in Nat \ {0} /\ NPages \in Nat \ {0} /\ SecPerPage \in Nat \ {0}
    /\ MinBlocks \in Nat /\ Percent \in 1 .. 99 /\ MinBlocks * Percent >= 100
    /\ FactoryBad \subseteq 0 .. (NBlocks - 1)
ASSUME BoundsAssumption == MaxCount \in Nat

Block == 0 .. (NBlocks - 1)
Page == 0 .. (NPages - 1)
SecPerBlk == NPages * SecPerPage
Off == 0 .. (SecPerBlk - 1)

NoBlk == -1                  \* 0XFFFF in the LUT, 0XFFFFFFFF elsewhere
Free == -1                   \* tag of a block whose spare bytes are all 0XFF
Bad == -2                    \* tag of a block marked bad
HalfBad == -3                \* bad to all but FTL_FindUnusedBlock, free to that

Blank == "blank"             \* a sector of 0XFF, as after an erase
Zero == "zero"               \* a sector of 0X00
Mixed == "mixed"             \* programmed twice with different data
Content == Val \cup {Blank, Zero, Mixed}

VARIABLES
    cell,      \* cell[b][o]: content of sector o of physical block b
    tag,       \* tag[b]: the spare bytes of block b
    wear,      \* wear[b][o]: "ok", or one bit of sector o of block b reads wrong:
               \* "flip" until the block is erased, "stuck" at 0 for good
    lut,       \* nand_dev.lut: physical block of each logical block
    valid,     \* nand_dev.valid_blocknum
    curblock,  \* the static curblock of FTL_FindSamePlaneUnusedBlock
    call,      \* the FTL function under way, or how the last one returned
    cp,        \* locals of FTL_CopyAndWriteToBlock and of the check after it
    spent,     \* how much of its bounds the environment has used
    \* no variables of the program:
    halved,    \* a bad-block mark once reached the second page of a free block only
    unmarked,  \* the last bad-block mark of this call did not reach the first page
    size       \* valid_blocknum when the disk was first mounted since its format

flash == <<cell, tag, wear>>
ram == <<lut, valid, curblock>>
env == <<spent, halved, unmarked, size>>
vars == <<cell, tag, wear, lut, valid, curblock, call, cp, spent, halved, unmarked, size>>

MaxOf(S) == CHOOSE x \in S : \A y \in S : y <= x
MinOf(S) == CHOOSE x \in S : \A y \in S : x <= y
Least(a, b) == IF a <= b THEN a ELSE b

\* at: SectorNo, n: SectorCount, buf: the data of a write, i: sectors done.
\* While formatting i is the block, at good_blocknum and n the next logical number.
Call(op, at, n, buf) == [op |-> op, at |-> at, n |-> n, buf |-> buf, i |-> 0, res |-> 0]
PoweredOff == Call("off", 0, 0, <<>>)

NoCopy == [pc |-> "none", src |-> 0, dst |-> 0, page |-> 0, first |-> 0,
           col |-> 0, buf |-> <<>>]
-----------------------------------------------------------------------------
(* The chip *)

\* Programming can only clear bits.
Program(old, new) ==
    IF new = Blank \/ new = old THEN old
    ELSE IF old = Blank THEN new
    ELSE IF Zero \in {old, new} THEN Zero
    ELSE Mixed

InPage(o, p) == o \div SecPerPage = p

\* The cells of block b after its page p was programmed with img.
Programmed(b, p, img) ==
    [cell EXCEPT ![b] = [o \in Off |->
        IF InPage(o, p) THEN Program(cell[b][o], img[o]) ELSE cell[b][o]]]

\* An erase clears the block's spare bytes too, and heals a flipped bit.
Blanked(b) ==
    /\ cell' = [cell EXCEPT ![b] = [o \in Off |-> Blank]]
    /\ wear' = [wear EXCEPT ![b] = [o \in Off |->
                    IF wear[b][o] = "flip" THEN "ok" ELSE wear[b][o]]]
Erased(b) == Blanked(b) /\ tag' = [tag EXCEPT ![b] = Free]

\* Every bit of sector o of block b reads 1.
ReadsBlank(b, o) == cell[b][o] = Blank /\ wear[b][o] = "ok"

Unbounded == -1
Fails ==
    \/ MaxFaults = Unbounded /\ UNCHANGED spent
    \/ spent.faults < MaxFaults /\ spent' = [spent EXCEPT !.faults = @ + 1]
Fault == Fails /\ UNCHANGED <<halved, unmarked, size>>

\* FTL_CheckBadBlock
IsBad(b) == tag[b] \in {Bad, HalfBad}

\* FTL_BadBlockMark, which does not look at the results of its two writes.
BadBlockMark(b) ==
    /\ tag' = [tag EXCEPT ![b] = Bad]
    /\ unmarked' = FALSE
    /\ UNCHANGED <<halved, size>>
\* Neither write takes effect, or the second one alone.  That makes no odds to a
\* block that carries a number.
MarkFails(b) ==
    /\ unmarked' = TRUE
    /\ \/ UNCHANGED <<tag, halved>>
       \/ /\ tag[b] = Free
          /\ tag' = [tag EXCEPT ![b] = HalfBad]
          /\ halved' = TRUE
    /\ UNCHANGED size
-----------------------------------------------------------------------------
(* The look-up table *)

\* FTL_CreateLUT scans upwards, so the highest block with a number wins.
CreateLUT(tg) ==
    [l \in Block |-> LET owners == {b \in Block : tg[b] = l}
                     IN  IF owners = {} THEN NoBlk ELSE MaxOf(owners)]
\* The first hole; without one valid_blocknum keeps its value.
ValidBlocks(lt) ==
    LET holes == {l \in Block : lt[l] = NoBlk}
    IN  IF holes = {} THEN valid ELSE MinOf(holes)

LBNToPBN(l) == IF l > valid \/ l \notin Block THEN NoBlk ELSE lut[l]

\* Mutant: only the bad-block byte of the spare bytes is tested.
UnusedIfGood(from, src) == {b \in Block : b <= from /\ b % 2 = src % 2 /\ tag[b] # Bad}

\* FTL_FindUnusedBlock, downwards from a block, in the plane of src.
Unused(from, src) ==
    {b \in Block : b <= from /\ b % 2 = src % 2 /\ tag[b] \in {Free, HalfBad}}

\* FTL_FindSamePlaneUnusedBlock resumes at curblock and wraps around once.
FindSamePlane(src) ==
    LET here == Unused(curblock, src)
        all == Unused(NBlocks - 1, src)
    IN  IF here # {} THEN MaxOf(here) ELSE IF all # {} THEN MaxOf(all) ELSE NoBlk
\* What curblock is left at when nothing was found: the last block.
NextCur(found) == IF found = NoBlk THEN NBlocks - 1 ELSE found

Goodblock(good) == (good * Percent) \div 100
-----------------------------------------------------------------------------
Init ==
    /\ cell = [b \in Block |-> [o \in Off |-> Blank]]
    /\ tag = [b \in Block |-> IF b \in FactoryBad THEN Bad ELSE Free]
    /\ wear = [b \in Block |-> [o \in Off |-> "ok"]]
    /\ lut = [l \in Block |-> 0]
    /\ valid = 0
    /\ curblock = NBlocks - 1
    /\ call = PoweredOff
    /\ cp = NoCopy
    /\ spent = [cuts |-> 0, faults |-> 0, wears |-> 0]
    /\ halved = FALSE
    /\ unmarked = FALSE
    /\ size = 0

\* FTL_CreateLUT(1) after a change of the tags.
Rebuild(tg) ==
    /\ lut' = CreateLUT(tg)
    /\ valid' = ValidBlocks(CreateLUT(tg))

\* FTL_Init: build the LUT; with too few valid blocks, format.  FatFs calls
\* it (disk_initialize) to mount the disk, and again to mount or make a file
\* system on a disk that is already up, or after it failed.
FTL_Init ==
    /\ call.op \in {"off", "idle", "dead"}
    /\ Rebuild(tag)
    /\ \/ /\ valid' >= MinBlocks
          /\ call' = Call("idle", 0, 0, <<>>)
          /\ size' = IF size = 0 THEN valid' ELSE size
       \/ /\ valid' < MinBlocks
          /\ call' = Call("erase", 0, 0, <<>>)
          /\ size' = 0
    /\ unmarked' = FALSE
    /\ UNCHANGED <<flash, curblock, cp, spent, halved>>

\* FTL_Format, first loop: erase the good blocks; one that cannot be erased is
\* marked bad.
FormatErase ==
    LET b == call.i
        next == [call EXCEPT !.i = @ + 1]
    IN
    /\ call.op = "erase" /\ b < NBlocks
    /\ UNCHANGED <<ram, cp>>
    /\ \/ IsBad(b) /\ call' = next /\ UNCHANGED <<flash, env>>
       \/ /\ ~ IsBad(b)
          /\ Erased(b)
          /\ call' = [next EXCEPT !.at = @ + 1]
          /\ UNCHANGED env
       \/ /\ ~ IsBad(b)
          /\ Fails
          /\ BadBlockMark(b) \/ MarkFails(b)
          /\ call' = next
          /\ UNCHANGED <<cell, wear>>

\* The block is erased all the same, and the mark does not reach its first page.
FormatEraseLate ==
    LET b == call.i IN
    /\ call.op = "erase" /\ b < NBlocks
    /\ ~ IsBad(b)
    /\ Fails
    /\ Blanked(b)
    /\ \/ tag' = [tag EXCEPT ![b] = Free] /\ UNCHANGED halved
       \/ tag' = [tag EXCEPT ![b] = HalfBad] /\ halved' = TRUE
    /\ unmarked' = TRUE
    /\ call' = [call EXCEPT !.i = @ + 1]
    /\ UNCHANGED <<ram, cp, size>>

FormatErased ==
    /\ call.op = "erase" /\ call.i = NBlocks
    /\ call' = [call EXCEPT !.i = 0, !.op = IF call.at < MinBlocks THEN "dead" ELSE "mark"]
    /\ UNCHANGED <<flash, ram, cp, env>>

\* Second loop: number the first goodblock good blocks.  A number written over
\* another one leaves the bits that both have.
NumberingOn == call.op = "mark" /\ call.i < NBlocks /\ call.n # Goodblock(call.at)

FormatMark ==
    LET b == call.i IN
    /\ NumberingOn
    /\ ~ IsBad(b)
    /\ \/ /\ \E l \in IF tag[b] = Free THEN {call.n} ELSE 0 .. Least(tag[b], call.n) :
                tag' = [tag EXCEPT ![b] = l]
          /\ UNCHANGED env
       \/ Fault /\ UNCHANGED tag
    /\ call' = [call EXCEPT !.i = @ + 1, !.n = @ + 1]
    /\ UNCHANGED <<cell, wear, ram, cp>>

FormatSkip ==
    /\ NumberingOn
    /\ IsBad(call.i)
    /\ call' = [call EXCEPT !.i = @ + 1]
    /\ UNCHANGED <<flash, ram, cp, env>>

\* The end of the loop builds the LUT and ends FTL_Format and FTL_Init.
FormatEnd ==
    /\ call.op = "mark" /\ ~ NumberingOn
    /\ Rebuild(tag)
    /\ \/ /\ valid' >= MinBlocks
          /\ call' = Call("idle", 0, 0, <<>>)
          /\ size' = valid'
       \/ /\ valid' < MinBlocks
          /\ call' = Call("dead", 0, 0, <<>>)
          /\ UNCHANGED size
    /\ UNCHANGED <<flash, curblock, cp, spent, halved, unmarked>>
-----------------------------------------------------------------------------
(* FTL_CopyAndWriteToBlock, and what its two callers do with its result *)

Pos == call.at + call.i                  \* SectorNo + i
PBN == LBNToPBN(Pos \div SecPerBlk)
BlkOff == Pos % SecPerBlk
Left == call.n - call.i
ToPageEnd == SecPerPage - (BlkOff % SecPerPage)
ToBlkEnd == SecPerBlk - BlkOff

Done(k) == [call EXCEPT !.i = @ + k]
Answer(res) == [call EXCEPT !.op = "idle", !.res = res]

StartCopy(buf) ==
    cp' = [NoCopy EXCEPT !.pc = "find", !.src = PBN, !.first = BlkOff \div SecPerPage,
                         !.col = BlkOff % SecPerPage, !.buf = buf]

\* The label retry: choose a destination, or return 1.  FTL_WriteSectors
\* turns that into 3; FTL_ReadSectors does not look at it.
CopyFind ==
    LET dst == FindSamePlane(cp.src) IN
    /\ cp.pc = "find"
    /\ curblock' = NextCur(dst)
    /\ IF dst # NoBlk
       THEN /\ cp' = [cp EXCEPT !.pc = "page", !.dst = dst, !.page = 0]
            /\ UNCHANGED call
       ELSE IF call.op = "write"
       THEN cp' = NoCopy /\ call' = Answer(3)
       ELSE cp' = [cp EXCEPT !.pc = "scrub"] /\ UNCHANGED call
    /\ UNCHANGED <<flash, lut, valid, env>>

\* What page cp.page of the destination is programmed with: the page of the
\* source, with the next wrlen sectors of the data laid over it from col on.
WrLen == IF cp.page >= cp.first THEN Least(Len(cp.buf), SecPerPage - cp.col) ELSE 0
Overlay(o) == o - cp.page * SecPerPage - cp.col
Overlaid(o) == Overlay(o) \in 0 .. (WrLen - 1)
PageImage ==
    [o \in Off |-> IF Overlaid(o) THEN cp.buf[Overlay(o) + 1] ELSE cell[cp.src][o]]

\* The chip copies a page as it reads it, a wrong bit included.  The first
\* page carries the spare bytes, so the tag goes with it.
CopiedPage ==
    /\ cell' = Programmed(cp.dst, cp.page, PageImage)
    /\ wear' = [wear EXCEPT ![cp.dst] = [o \in Off |->
                    IF /\ InPage(o, cp.page) /\ ~ Overlaid(o)
                       /\ wear[cp.src][o] # "ok" /\ wear[cp.dst][o] = "ok"
                    THEN "flip" ELSE wear[cp.dst][o]]]
    /\ tag' = IF cp.page > 0 THEN tag
              ELSE [tag EXCEPT ![cp.dst] = IF tag[cp.dst] = HalfBad THEN Bad ELSE tag[cp.src]]

\* Mutant: the column is not set to zero for the next page.
ConsumedKeepsColumn(c) ==
    IF WrLen = 0 THEN c ELSE [c EXCEPT !.buf = SubSeq(@, WrLen + 1, Len(@))]

\* The data just used is dropped from the buffer, whatever the copy returned.
Consumed(c) ==
    IF WrLen = 0 THEN c
    ELSE [c EXCEPT !.col = 0, !.buf = SubSeq(@, WrLen + 1, Len(@))]

CopyPage ==
    /\ cp.pc = "page"
    /\ cp.page < NPages
    /\ CopiedPage
    /\ cp' = [Consumed(cp) EXCEPT !.page = @ + 1]
    /\ UNCHANGED <<ram, call, env>>

\* A page copy that reports a failure: the destination is marked bad, the LUT
\* is rebuilt, and the copy starts again with another destination.
CopyPageFails ==
    /\ cp.pc = "page"
    /\ cp.page < NPages
    /\ Fault
    /\ CopiedPage \/ UNCHANGED flash
    /\ cp' = [Consumed(cp) EXCEPT !.pc = "bad"]
    /\ UNCHANGED <<ram, call>>

\* Mutant: the failed destination is not marked.
CopyBadForgets ==
    /\ cp.pc = "bad"
    /\ cp' = [cp EXCEPT !.pc = "find"]
    /\ UNCHANGED <<flash, ram, call, env>>

\* Mutant: the source is marked in place of the destination.
CopyBadSource ==
    /\ cp.pc = "bad"
    /\ BadBlockMark(cp.src) /\ UNCHANGED spent
    /\ Rebuild(tag')
    /\ cp' = [cp EXCEPT !.pc = "find"]
    /\ UNCHANGED <<cell, wear, curblock, call>>

CopyBad ==
    /\ cp.pc = "bad"
    /\ \/ BadBlockMark(cp.dst) /\ UNCHANGED spent
       \/ MarkFails(cp.dst) /\ Fails
    /\ Rebuild(tag')
    /\ cp' = [cp EXCEPT !.pc = "find"]
    /\ UNCHANGED <<cell, wear, curblock, call>>

\* Mutant: the LUT keeps the erased block.
NotRedirected == lut

\* The copy is complete: the source is erased (the result is not looked at)
\* and its entry in the LUT, if it has one, is redirected.
Redirected ==
    LET mapped == {l \in Block : lut[l] = cp.src}
    IN  IF mapped = {} THEN lut ELSE [lut EXCEPT ![MinOf(mapped)] = cp.dst]

CopyEnd ==
    /\ cp.pc = "page"
    /\ cp.page = NPages
    /\ \/ Erased(cp.src) /\ UNCHANGED env
       \/ Fault /\ UNCHANGED flash
    /\ lut' = Redirected
    /\ IF call.op = "write"
       THEN cp' = NoCopy /\ call' = Done(Least(Left, ToBlkEnd))
       ELSE cp' = [cp EXCEPT !.pc = "scrub"] /\ UNCHANGED call
    /\ UNCHANGED <<valid, curblock>>
-----------------------------------------------------------------------------
(* FTL_WriteSectors *)

WriteSectors(s, buf) ==
    /\ call.op = "idle"
    /\ call' = Call("write", s, Len(buf), buf)
    /\ unmarked' = FALSE
    /\ UNCHANGED <<flash, ram, cp, spent, halved, size>>

Writing == call.op = "write" /\ cp.pc = "none" /\ call.i < call.n

\* Mutants: the buffer pointer is not advanced; a copy is not ended at the
\* end of the block.
PartFromStart(k) == SubSeq(call.buf, 1, k)
AllLeft == SubSeq(call.buf, call.i + 1, call.n)

\* The part of the data that goes into the rest of a page, or of a block.
Part(k) == SubSeq(call.buf, call.i + 1, call.i + k)
PagePart == Part(Least(Left, ToPageEnd))
BlockPart == Part(Least(Left, ToBlkEnd))

RangeBlank == \A o \in BlkOff .. (BlkOff + Len(PagePart) - 1) : ReadsBlank(PBN, o)

WriteDirect ==
    cell' = Programmed(PBN, BlkOff \div SecPerPage,
                [o \in Off |-> IF o - BlkOff \in 0 .. (Len(PagePart) - 1)
                               THEN PagePart[o - BlkOff + 1] ELSE Blank])

\* One turn of the loop over the pages.
WriteNoBlock ==
    /\ Writing /\ PBN = NoBlk
    /\ call' = Answer(1)
    /\ UNCHANGED <<flash, ram, cp, env>>

WriteInPlace ==
    /\ Writing /\ PBN # NoBlk
    /\ RangeBlank
    /\ WriteDirect
    /\ call' = Done(Len(PagePart))
    /\ UNCHANGED <<tag, wear, ram, cp, env>>

\* The page program or the "used" mark after it reports a failure.
WriteInPlaceFails ==
    /\ Writing /\ PBN # NoBlk
    /\ RangeBlank
    /\ Fault
    /\ WriteDirect \/ UNCHANGED cell
    /\ StartCopy(BlockPart)
    /\ UNCHANGED <<tag, wear, ram, call>>

WriteByCopy ==
    /\ Writing /\ PBN # NoBlk
    /\ ~ RangeBlank
    /\ StartCopy(BlockPart)
    /\ UNCHANGED <<flash, ram, call, env>>

\* NAND_ReadPageComp reports a failure.
WriteCompareFails ==
    /\ Writing /\ PBN # NoBlk
    /\ Fault
    /\ call' = Answer(2)
    /\ UNCHANGED <<flash, ram, cp>>
-----------------------------------------------------------------------------
(* FTL_ReadSectors *)

ReadSectors(s, n) ==
    /\ call.op = "idle"
    /\ call' = Call("read", s, n, <<>>)
    /\ unmarked' = FALSE
    /\ UNCHANGED <<flash, ram, cp, spent, halved, size>>

Reading == call.op = "read" /\ cp.pc = "none" /\ call.i < call.n

ReadLen == Least(Left, ToPageEnd)
ReadClean == \A o \in BlkOff .. (BlkOff + ReadLen - 1) : wear[PBN][o] = "ok"

ReadNoBlock ==
    /\ Reading /\ PBN = NoBlk
    /\ call' = Answer(1)
    /\ UNCHANGED <<flash, ram, cp, env>>

ReadOk ==
    /\ Reading /\ PBN # NoBlk
    /\ ReadClean
    /\ call' = Done(ReadLen)
    /\ UNCHANGED <<flash, ram, cp, env>>

ReadFails ==
    /\ Reading /\ PBN # NoBlk
    /\ Fault
    /\ call' = Answer(2)
    /\ UNCHANGED <<flash, ram, cp>>

\* A one-bit error that shows twice: the corrected data is moved elsewhere.
ReadMoves ==
    /\ Reading /\ PBN # NoBlk
    /\ ~ ReadClean
    /\ StartCopy([k \in 1 .. ReadLen |-> cell[PBN][BlkOff + k - 1]])
    /\ UNCHANGED <<flash, ram, call, env>>

\* FTL_BlockCompare(block, 0XFFFFFFFF) looks at the first page only: it is
\* blank, or an erase makes it so, unless a bit is stuck in it.
PageZeroBlank(b) == \A o \in Off : InPage(o, 0) => ReadsBlank(b, o)
Stuck(b) == \E o \in Off : InPage(o, 0) /\ wear[b][o] = "stuck"

ScrubBlank ==
    /\ cp.pc = "scrub"
    /\ IF PageZeroBlank(cp.src) THEN UNCHANGED flash ELSE Erased(cp.src)
    /\ cp' = [cp EXCEPT !.pc = IF Stuck(cp.src) THEN "condemn" ELSE "wipe"]
    /\ UNCHANGED <<ram, call, env>>

\* FTL_BlockCompare(block, 0): the first page is not zero, so the block is
\* erased and every page is filled with zeros, after which it is.
ScrubWipe ==
    /\ cp.pc = "wipe"
    /\ Erased(cp.src)
    /\ cp' = [cp EXCEPT !.pc = "zero", !.page = 0]
    /\ UNCHANGED <<ram, call, env>>

ScrubZero ==
    /\ cp.pc = "zero"
    /\ cp.page < NPages
    /\ cell' = Programmed(cp.src, cp.page, [o \in Off |-> Zero])
    /\ cp' = [cp EXCEPT !.page = @ + 1]
    /\ UNCHANGED <<tag, wear, ram, call, env>>

\* The block passed: it is erased and the read goes on.
ScrubEnd ==
    /\ cp.pc = "zero"
    /\ cp.page = NPages
    /\ Erased(cp.src)
    /\ cp' = NoCopy
    /\ call' = Done(ReadLen)
    /\ UNCHANGED <<ram, env>>

\* The block failed: it is marked bad and the LUT is rebuilt.
ScrubCondemn ==
    /\ cp.pc = "condemn"
    /\ \/ BadBlockMark(cp.src) /\ UNCHANGED spent
       \/ MarkFails(cp.src) /\ Fails
    /\ Rebuild(tag')
    /\ cp' = NoCopy
    /\ call' = Done(ReadLen)
    /\ UNCHANGED <<cell, wear, curblock>>

\* Both loops end when all sectors are done.
ReturnOk ==
    /\ call.op \in {"write", "read"} /\ cp.pc = "none" /\ call.i = call.n
    /\ call' = Answer(0)
    /\ UNCHANGED <<flash, ram, cp, env>>
-----------------------------------------------------------------------------
(* The environment *)

\* Power is lost: RAM is, the flash is not.
PowerCut ==
    /\ call.op # "off"
    /\ spent.cuts < MaxCuts
    /\ spent' = [spent EXCEPT !.cuts = @ + 1]
    /\ call' = PoweredOff
    /\ cp' = NoCopy
    /\ lut' = [l \in Block |-> 0]
    /\ valid' = 0
    /\ curblock' = NBlocks - 1
    /\ UNCHANGED <<flash, halved, unmarked, size>>

\* One bit of a sector that holds data goes wrong between two calls.
SectorWears(b, o, kind) ==
    /\ spent.wears < MaxWears
    /\ call.op = "idle"
    /\ wear[b][o] = "ok" /\ cell[b][o] # Blank
    /\ wear' = [wear EXCEPT ![b][o] = kind]
    /\ spent' = [spent EXCEPT !.wears = @ + 1]
    /\ UNCHANGED <<cell, tag, ram, call, cp, halved, unmarked, size>>

\* The sectors FatFs is told the disk has, and one more.
Sector == 0 .. (Goodblock(NBlocks) * SecPerBlk)

Requests ==
    \/ FTL_Init
    \/ \E s \in Sector, n \in 1 .. MaxCount :
          \/ ReadSectors(s, n)
          \/ \E buf \in [1 .. n -> Val] : WriteSectors(s, buf)

Environment ==
    \/ Requests
    \/ PowerCut
    \/ \E b \in Block, o \in Off, kind \in {"flip", "stuck"} : SectorWears(b, o, kind)

Code ==
    \/ FormatErase \/ FormatEraseLate \/ FormatErased
    \/ FormatMark \/ FormatSkip \/ FormatEnd
    \/ CopyFind \/ CopyPage \/ CopyPageFails \/ CopyBad \/ CopyEnd
    \/ WriteNoBlock \/ WriteInPlace \/ WriteInPlaceFails \/ WriteByCopy \/ WriteCompareFails
    \/ ReadNoBlock \/ ReadOk \/ ReadFails \/ ReadMoves
    \/ ScrubBlank \/ ScrubWipe \/ ScrubZero \/ ScrubEnd \/ ScrubCondemn
    \/ ReturnOk

Next == Code \/ Environment

Spec == Init /\ [][Next]_vars

\* A call that has begun runs on: the task or interrupt it runs in is never
\* stopped for good, and no step of it waits for anything but the chip, for
\* which every wait has a limit.
FairSpec == Spec /\ WF_vars(Code)
-----------------------------------------------------------------------------
CallRec == [op : {"off", "erase", "mark", "idle", "dead", "write", "read"},
            at : Nat, n : 0 .. (NBlocks + MaxCount), buf : Seq(Val),
            i : 0 .. (NBlocks + MaxCount), res : 0 .. 3]
CopyRec == [pc : {"none", "find", "page", "bad", "scrub", "wipe", "zero", "condemn"},
            src : Block, dst : Block, page : 0 .. NPages, first : Page,
            col : 0 .. (SecPerPage - 1), buf : Seq(Content)]

\* Shape of the state: the tables of the chip and of RAM, the indices of the
\* loops of FTL_Format, FTL_WriteSectors and FTL_ReadSectors never past their
\* ends, and a copy never laid over sectors outside its block.
TypeOK ==
    /\ cell \in [Block -> [Off -> Content]]
    /\ tag \in [Block -> Block \cup {Free, Bad, HalfBad}]
    /\ wear \in [Block -> [Off -> {"ok", "flip", "stuck"}]]
    /\ lut \in [Block -> Block \cup {NoBlk}]
    /\ valid \in 0 .. NBlocks
    /\ curblock \in Block
    /\ call \in CallRec
    /\ cp \in CopyRec
    /\ cp.pc = "page" => (Len(cp.buf) > 0 =>
          (IF cp.page > cp.first THEN cp.page ELSE cp.first) * SecPerPage + cp.col + Len(cp.buf)
              <= SecPerBlk)
    /\ call.op \in {"write", "read"} => call.i <= call.n
    /\ halved \in BOOLEAN /\ unmarked \in BOOLEAN /\ size \in 0 .. NBlocks

Mounted == call.op \in {"idle", "write", "read"}
Good == {b \in Block : ~ IsBad(b)}

\* The table in RAM and the flash agree, at every step of a write, a read or
\* a copy, through retries and power cuts: a block the table gives for a
\* logical block carries that block's number.  No block serves two.  A block that
\* is half bad breaks it: FTL_FindUnusedBlock hands it out for a copy, and the
\* next FTL_CreateLUT leaves it out.
MapAgrees == Mounted /\ ~ halved => \A l \in Block : lut[l] # NoBlk => tag[lut[l]] = l

\* Nothing leaks: between two calls every block is free, bad, or the one
\* block of the logical number it carries.  Blocks that are none of these
\* are never found again, and the copies run out of spare blocks.
NoOrphan == call.op = "idle" => \A b \in Block : tag[b] \in Block => lut[tag[b]] = b

\* The disk keeps the size it had when it was first mounted after FTL_Format,
\* whatever fails or goes bad later: all its logical blocks are reachable.
FullCapacity == call.op = "idle" /\ ~ halved => valid >= size

\* Once FTL_Format has numbered a block, some block carries that number
\* after every later step, a power cut included: only another FTL_Format
\* may give it up.  One lost number below MinBlocks makes the next FTL_Init
\* format the whole chip.
Numbered == {tag[b] : b \in Good} \ {Free}
NumbersKept ==
    [][halved' \/ call.op \in {"erase", "mark"} \/ Numbered \subseteq Numbered']_vars

\* FTL_Format, FTL_WriteSectors and FTL_ReadSectors come to an end whatever
\* the chip answers, the retry loop of FTL_CopyAndWriteToBlock included, unless
\* its bad-block marks fail time after time: then it finds the same block again.
CallReturns ==
    /\ call.op \in {"erase", "mark"} ~> call.op \in {"idle", "dead", "off"}
    /\ call.op \in {"write", "read"} ~> call.op \in {"idle", "off"} \/ unmarked

\* When FTL_CopyAndWriteToBlock is about to give up the source block, the
\* destination holds all of it, with the caller's data laid over the sectors
\* it asked for, whatever page and column the data began at.
Wanted(o) == LET k == o - BlkOff
             IN  IF call.op = "write" /\ k \in 0 .. (Least(Left, ToBlkEnd) - 1)
                 THEN call.buf[call.i + k + 1] ELSE cell[cp.src][o]
CopyComplete ==
    cp.pc = "page" /\ cp.page = NPages => \A o \in Off : cell[cp.dst][o] = Wanted(o)

\* Sectors, their contents and the write under way, as the file system sees
\* them.  Without a table in RAM it is the one the next FTL_Init will build.
Lookup(s) == LET l == s \div SecPerBlk
                 table == IF call.op = "off" THEN CreateLUT(tag) ELSE lut
             IN  IF l \in Block THEN table[l] ELSE NoBlk
Disk == [s \in Sector |-> IF Lookup(s) = NoBlk THEN Blank
                          ELSE cell[Lookup(s)][s % SecPerBlk]]
Request == [at |-> IF call.op = "write" THEN call.at ELSE 0,
            buf |-> IF call.op = "write" THEN call.buf ELSE <<>>]
LastAnswer == IF call.op # "idle" \/ call.buf = <<>> THEN "none"
              ELSE IF call.res = 0 THEN "ok" ELSE "error"

\* The layer behaves as an array of sectors: a write changes only the
\* sectors it names, a success means they all hold the new data, and reads,
\* block moves and a new FTL_Init change none.
Device == INSTANCE BlockDevice WITH disk <- Disk, req <- Request, ans <- LastAnswer
ImplementsBlockDevice == Device!Spec
=============================================================================
