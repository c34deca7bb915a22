------------------------------ MODULE SpiFlash ------------------------------
(***************************************************************************)
(* The SPI flash (w25qxx.c) as the disk of FatFs (diskio.c) and of the USB  *)
(* device (usbd_storage_msd.c), with power cuts.                            *)
(*                                                                          *)
(* A write is never interrupted by another user of the flash: FatFs works   *)
(* with interrupts masked (ff_enter) and the USB device inside an           *)
(* interrupt. A read of a glyph (text.c) is done without the lock, so that  *)
(* a write may begin between two of its bytes.                              *)
(*                                                                          *)
(* A byte is the set of its bits that are 1.                                *)
(***************************************************************************)
EXTENDS Integers, Sequences, FiniteSetsExt

CONSTANTS
    Sectors,        \* number of sectors
    SectorSize,     \* 4096
    PageSize,       \* 256
    DiskSector,     \* FLASH_SECTOR_SIZE
    Bits,           \* the bits of a byte
    Data,           \* bound: what is written
    MaxWrites       \* bound: writes that are begun

ASSUME GeometryAssumption ==
    /\ {Sectors, SectorSize, PageSize, DiskSector} \subseteq Nat \ {0}
    /\ SectorSize % PageSize = 0
    /\ SectorSize % DiskSector = 0
ASSUME DataAssumption ==
    /\ Data \subseteq Seq(SUBSET Bits) \ {<< >>}
    /\ MaxWrites \in Nat

VARIABLES
    flash,          \* the bytes of the chip
    calls,          \* the calls of W25QXX_Write still to be made, current one first
    pc,             \* where W25QXX_Write is
    buf,            \* W25QXX_BUF
    prog,           \* what W25QXX_Write_NoCheck has still to program
    erased,         \* this sector is being rewritten as a whole
    stream,         \* the address of the next byte of the glyph, or -1: CS high
    want, before,   \* what the flash should hold after the write, and before it
    damaged,        \* bytes a power cut may have destroyed
    mixed,          \* a glyph was being read when this sector was
    garbled,        \* bytes that were rewritten from such a read
    writes

wvars == <<flash, calls, pc, buf, prog, erased>>
gvars == <<want, before, damaged, mixed, garbled, writes>>
vars  == <<wvars, stream, gvars>>

Size      == Sectors * SectorSize
Addr      == 0..(Size - 1)
Byte      == SUBSET Bits
Blank     == Bits
NoProg    == [at |-> 0, data |-> << >>]
Chunk     == [at: Addr, data: Seq(Byte)]

SpiTypeOK ==
    /\ flash \in [Addr -> Byte]
    /\ calls \in Seq(Chunk)
    /\ pc \in {"idle", "read", "erase", "prog"}
    /\ buf \in [0..(SectorSize - 1) -> Byte]
    /\ prog \in Chunk
    /\ erased \in BOOLEAN
    /\ stream \in {-1} \cup Nat
    /\ want \in [Addr -> Byte]
    /\ before \in [Addr -> Byte]
    /\ damaged \subseteq Addr
    /\ mixed \in BOOLEAN
    /\ garbled \subseteq Addr
    /\ writes \in 0..MaxWrites

Init ==
    /\ flash = [a \in Addr |-> Blank]
    /\ calls = << >>
    /\ pc = "idle"
    /\ buf = [i \in 0..(SectorSize - 1) |-> Blank]
    /\ prog = NoProg
    /\ erased = FALSE
    /\ stream = -1
    /\ want = flash
    /\ before = flash
    /\ damaged = {}
    /\ mixed = FALSE
    /\ garbled = {}
    /\ writes = 0

Named(c) == c.at..(c.at + Len(c.data) - 1)

\* memory f with the bytes of c stored, or programmed: that only clears bits
Stored(f, c)     == [a \in DOMAIN f |-> IF a \in Named(c) THEN c.data[a - c.at + 1] ELSE f[a]]
Programmed(f, c) == [a \in DOMAIN f |-> IF a \in Named(c) THEN f[a] \cap c.data[a - c.at + 1]
                                                          ELSE f[a]]

\* Mutant: the address advances by a sector, whatever was written.
RestBySector(c, n) == [at |-> c.at + SectorSize, data |-> SubSeq(c.data, n + 1, Len(c.data))]

\* the first n bytes of c, and the rest
First(c, n) == [at |-> c.at, data |-> SubSeq(c.data, 1, n)]
Rest(c, n) == [at |-> c.at + n, data |-> SubSeq(c.data, n + 1, Len(c.data))]

\* how much of c lies in the block of size bytes it begins in
Cut(c, size) == Min({Len(c.data), size - (c.at % size)})

-----------------------------------------------------------------------------
(* The write.                                                               *)

\* c is what the caller has written, cs the calls of W25QXX_Write that do it
Begin(c, cs) ==
    /\ pc = "idle"
    /\ writes < MaxWrites
    /\ writes' = writes + 1
    /\ calls' = cs
    /\ pc' = "read"
    /\ before' = want
    /\ want' = Stored(want, c)
    /\ UNCHANGED <<flash, buf, prog, erased, stream, damaged, mixed, garbled>>

\* STORAGE_Write, or another caller: one call for all bytes
WriteBytes ==
    \E a \in Addr, d \in Data:
        LET c == [at |-> a, data |-> d]
        IN  /\ a + Len(d) <= Size
            /\ Begin(c, <<c>>)

\* a call for each sector of the disk
SectorCalls(c) ==
    [i \in 1..(Len(c.data) \div DiskSector) |->
        [at   |-> c.at + (i - 1) * DiskSector,
         data |-> SubSeq(c.data, (i - 1) * DiskSector + 1, i * DiskSector)]]

DiskWrite ==
    \E a \in Addr, d \in Data:
        LET c == [at |-> a, data |-> d]
        IN  /\ a % DiskSector = 0 /\ Len(d) % DiskSector = 0
            /\ a + Len(d) <= Size
            /\ Begin(c, SectorCalls(c))

SecPos == calls[1].at \div SectorSize
SecOff == calls[1].at % SectorSize
Sector == (SecPos * SectorSize)..(SecPos * SectorSize + SectorSize - 1)

\* the part of the call that falls into this sector
Part == First(calls[1], Cut(calls[1], SectorSize))

\* Mutant: only the bytes that are written are read.
SectorReadPart ==
    [i \in 0..(SectorSize - 1) |->
        IF i \in SecOff..(SecOff + Len(Part.data) - 1) THEN flash[SecPos * SectorSize + i]
                                                      ELSE Blank]

\* What W25QXX_Read of the sector gives. When a glyph is being read CS is low
\* already: the chip goes on with the glyph and takes no command.
SectorRead ==
    [i \in 0..(SectorSize - 1) |->
        IF stream = -1 THEN flash[SecPos * SectorSize + i]
                       ELSE flash[(stream + 4 + i) % Size]]

\* Mutant: the test for blank bytes stops one short.
NeedsEraseShort(b) == \E i \in 0..(Len(Part.data) - 2): b[SecOff + i] # Blank

NeedsErase(b) == \E i \in 0..(Len(Part.data) - 1): b[SecOff + i] # Blank

ReadSector ==
    /\ pc = "read"
    /\ buf' = SectorRead
    /\ stream' = -1
    /\ IF NeedsErase(buf')
       THEN pc' = "erase" /\ UNCHANGED prog
       ELSE pc' = "prog" /\ prog' = Part
    /\ erased' = FALSE
    /\ mixed' = (stream # -1)
    /\ garbled' = IF stream = -1 THEN garbled
                  ELSE garbled \cup (IF NeedsErase(buf') THEN Sector ELSE Named(Part))
    /\ UNCHANGED <<flash, calls, want, before, damaged, writes>>

EraseSector ==
    /\ pc = "erase"
    /\ flash' = [a \in Addr |-> IF a \in Sector THEN Blank ELSE flash[a]]
    /\ buf' = Stored(buf, [Part EXCEPT !.at = SecOff])
    /\ prog' = [at   |-> SecPos * SectorSize,
                data |-> [i \in 1..SectorSize |-> buf'[i - 1]]]
    /\ erased' = TRUE
    /\ pc' = "prog"
    /\ UNCHANGED <<calls, stream, gvars>>

\* the call goes on with the next sector, or the next call begins, or all is done
Advance ==
    /\ calls' = IF Part = calls[1] THEN Tail(calls)
                ELSE [calls EXCEPT ![1] = Rest(calls[1], Len(Part.data))]
    /\ pc' = IF calls' = << >> THEN "idle" ELSE "read"
    /\ damaged' = damaged \ Named(Part)
    /\ garbled' = IF mixed /\ ~ erased THEN garbled ELSE garbled \ Named(Part)
    /\ mixed' = FALSE
    /\ erased' = FALSE
    /\ prog' = NoProg
    /\ buf' = [i \in 0..(SectorSize - 1) |-> Blank]

\* a turn of the loop of W25QXX_Write_NoCheck
WritePage ==
    /\ pc = "prog"
    /\ LET n == Cut(prog, PageSize)
       IN  /\ flash' = Programmed(flash, First(prog, n))
           /\ IF n = Len(prog.data)
              THEN Advance
              ELSE /\ prog' = Rest(prog, n)
                   /\ UNCHANGED <<calls, pc, buf, erased, damaged, mixed, garbled>>
    /\ UNCHANGED <<stream, want, before, writes>>

\* bytes named by the calls that have not come back
Pending == UNION {Named(calls[i]): i \in DOMAIN calls}

Off == /\ calls' = << >>
       /\ pc' = "idle"
       /\ buf' = [i \in 0..(SectorSize - 1) |-> Blank]
       /\ prog' = NoProg
       /\ erased' = FALSE
       /\ stream' = -1
       /\ mixed' = FALSE
       /\ want' = [a \in Addr |-> IF a \in Pending THEN before[a] ELSE want[a]]
       /\ UNCHANGED <<before, garbled, writes>>

\* The power fails: nothing was begun in this sector; or it is being erased;
\* or one of its pages is being programmed.
PowerCut ==
    \/ /\ pc = "read"
       /\ Off
       /\ UNCHANGED <<flash, damaged>>
    \/ /\ pc = "erase"
       /\ Off
       /\ \E as \in SUBSET Sector:
              flash' = [a \in Addr |-> IF a \in as THEN Blank ELSE flash[a]]
       /\ damaged' = damaged \cup Sector
    \/ /\ pc = "prog"
       /\ Off
       /\ LET new == Programmed(flash, First(prog, Cut(prog, PageSize)))
          IN  \E as \in SUBSET Named(First(prog, Cut(prog, PageSize))):
                  flash' = [a \in Addr |-> IF a \in as THEN new[a] ELSE flash[a]]
       /\ damaged' = damaged \cup (IF erased THEN Sector ELSE Named(Part))

-----------------------------------------------------------------------------
(* Get_HzMat: a task reads a glyph while no write is under way.             *)

GlyphBegin ==
    /\ pc = "idle"
    /\ stream = -1
    /\ stream' \in Addr
    /\ UNCHANGED <<wvars, gvars>>

GlyphByte ==
    /\ pc = "idle"
    /\ stream \in 0..(Size - 2)
    /\ stream' = stream + 1
    /\ UNCHANGED <<wvars, gvars>>

GlyphEnd ==
    /\ pc = "idle"
    /\ stream # -1
    /\ stream' = -1
    /\ UNCHANGED <<wvars, gvars>>

Next == \/ WriteBytes \/ DiskWrite \/ ReadSector \/ EraseSector \/ WritePage
        \/ PowerCut \/ GlyphBegin \/ GlyphByte \/ GlyphEnd

Spec == Init /\ [][Next]_vars

-----------------------------------------------------------------------------
(* At rest every byte holds what was written to it last, and a write changes *)
(* no other byte, although it erases whole sectors (w25qxx.c:236-286). A     *)
(* power cut harms only the sector under way, or only the bytes named when   *)
(* it was blank; a glyph that was being read (text.c:46) does the same.      *)
Written == pc = "idle" => \A a \in Addr \ (damaged \cup garbled): flash[a] = want[a]

(* At every moment each byte that neither has harmed is in the flash or in   *)
(* the copy of the sector that is being rewritten.                          *)
NothingLost ==
    \A a \in Addr \ (damaged \cup garbled \cup Pending):
        \/ flash[a] = want[a]
        \/ pc = "prog" /\ erased /\ a \in Sector /\ buf[a % SectorSize] = want[a]

=============================================================================
