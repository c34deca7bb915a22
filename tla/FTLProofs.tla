----------------------------- MODULE FTLProofs -----------------------------
(* Proofs about FTL for every geometry of the chip, every set of factory bad *)
(* blocks, any number of failures, power cuts and worn bits.                 *)
EXTENDS FTL, SequenceTheorems, FiniteSetTheorems, WellFoundedInduction, TLAPS

\* FTL_Format numbers no more blocks than it has passed.
FormatCounts ==
    /\ call.op \in {"erase", "mark"} => call.i <= NBlocks
    /\ call.op = "erase" => call.n = 0
    /\ call.op = "mark" => call.n <= call.i

\* The data that is still to be laid over a copy fits into its block, whether the
\* copy goes on or begins again.
InBlock ==
    cp.pc \in {"find", "page", "bad"} /\ cp.buf # <<>> =>
        /\ cp.first * SecPerPage + cp.col + Len(cp.buf) <= SecPerBlk
        /\ cp.pc = "page" /\ cp.page > cp.first
               => cp.page * SecPerPage + cp.col + Len(cp.buf) <= SecPerBlk

\* A block is copied for a turn of one of the two loops, and only a read looks at
\* the source afterwards.
Scrubbing == cp.pc \in {"scrub", "wipe", "zero", "condemn"}
InCall ==
    /\ cp.pc # "none" => call.op \in {"write", "read"} /\ call.i < call.n
    /\ Scrubbing => call.op = "read"

\* Where FTL_CopyAndWriteToBlock is: the source keeps its number, and the
\* destination has it once the first page is copied.
CopyUnderWay ==
    /\ cp.pc \in {"find", "page", "bad"} => tag[cp.src] \in Block
    /\ cp.pc \in {"page", "bad"} =>
           cp.dst # cp.src /\ tag[cp.dst] \in {Free, tag[cp.src]}
    /\ cp.pc = "page" => tag[cp.dst] = IF cp.page = 0 THEN Free ELSE tag[cp.src]
    /\ Scrubbing => /\ cp.dst # cp.src
                    /\ tag[cp.dst] \in Block /\ tag[cp.src] \in {Free, tag[cp.dst]}

\* A block that is given up is not in the table any more.
GivenUp == Scrubbing => \A l \in Block : lut[l] # cp.src

\* No block is half bad: the blocks that FTL_FindUnusedBlock finds are free.
NoHalf == \A b \in Block : tag[b] # HalfBad

\* The steps of the two loops of FTL_Format.
Erasing == FormatErase \/ FormatEraseLate \/ FormatErased
Marking == FormatMark \/ FormatSkip \/ FormatEnd

\* The copy that a read makes of a worn block finds a spare block.
SpareFound == cp.pc = "find" /\ call.op = "read" => FindSamePlane(cp.src) # NoBlk

\* What the environment has done so far.
SpentType == spent \in [cuts : Nat, faults : Nat, wears : Nat]

\* Nothing wears: no read makes a copy.
NoWear ==
    /\ \A b \in Block, o \in Off : wear[b][o] = "ok"
    /\ call.op = "read" => cp.pc = "none"

\* As long as nothing fails and the power stays, no two blocks carry one number,
\* but for the two of a copy, and the table knows all others that carry one.
Source(b) == cp.pc = "page" /\ cp.page > 0 /\ b = cp.src
Target(b) == cp.pc = "page" /\ cp.page > 0 /\ b = cp.dst
OneOwner ==
    \A b, c \in Block : tag[b] \in Block /\ tag[b] = tag[c] /\ b # c
        => (Source(b) /\ Target(c)) \/ (Source(c) /\ Target(b))
FormatNumbers ==
    \A b \in Block :
        /\ call.op = "erase" /\ b < call.i => tag[b] \notin Block
        /\ call.op = "mark" => IF b < call.i THEN tag[b] < call.n ELSE tag[b] \notin Block
AllMapped ==
    Mounted => \A b \in Block : tag[b] \in Block /\ ~ Target(b) => lut[tag[b]] = b

\* No copy has failed.
NoBadCopy == cp.pc # "bad"

\* FTL_Format gives no number above its share of the blocks, and later the disk has
\* its size: the numbers below it are all there.
Numbering(n) == \A k \in 0 .. (n - 1) : \E b \in Block : tag[b] = k
NoneNumbered == \A b \in Block : tag[b] \notin Block
FormatLimit ==
    /\ \A b \in Block : tag[b] < NBlocks - 1
    /\ call.op = "erase" => call.at <= call.i
    /\ call.op = "mark" => call.at \in 1 .. NBlocks /\ call.n <= Goodblock(call.at)
Sized ==
    /\ Numbering(size)
    /\ call.op \in {"erase", "mark"} => size = 0
    /\ Mounted => valid >= size

\* What a copy still has to lay over the source: its data from sector Rest on.
Rest == IF cp.pc = "page" /\ cp.page > cp.first THEN cp.page * SecPerPage ELSE BlkOff
DataLeft ==
    cp.pc \in {"find", "page"} =>
        /\ IF cp.pc = "page" /\ cp.page > cp.first THEN cp.col = 0 \/ cp.buf = <<>>
           ELSE cp.first * SecPerPage + cp.col = BlkOff
        /\ \A o \in Off : o >= Rest =>
               Wanted(o) = IF o - Rest < Len(cp.buf) THEN cp.buf[o - Rest + 1]
                           ELSE cell[cp.src][o]

\* The pages copied hold what they must; the others are blank, as free blocks are.
PagesCopied ==
    cp.pc = "page" => \A o \in Off :
        cell[cp.dst][o] = IF o < cp.page * SecPerPage THEN Wanted(o) ELSE Blank
FreeIsBlank ==
    \A b \in Block : tag[b] = Free /\ ~ (cp.pc = "zero" /\ b = cp.src)
        => \A o \in Off : cell[b][o] = Blank

\* The file system's view.  Before FTL_Format has made the disk, and while it does, every
\* sector reads blank; a disk that is up has its first MinBlocks logical blocks, so that
\* FTL_Init never formats it again.  A copy is made of the block of the turn, and the
\* turns of a write that are over have stored their sectors.
BeforeUse == ~ Mounted => \A b \in Block, o \in Off : cell[b][o] = Blank
Usable == Mounted => MinBlocks <= valid /\ Numbering(MinBlocks)
CallData ==
    /\ call.op \notin {"write", "idle"} => call.buf = <<>>
    /\ call.op = "write" => call.n > 0
SourceFound == cp.pc \in {"find", "page"} => cp.src = PBN
WrittenSoFar ==
    call.op = "write" =>
        \A s \in Sector : s >= call.at /\ s < call.at + call.i
            => Disk[s] = call.buf[s - call.at + 1]


-----------------------------------------------------------------------------
(* Smallest and greatest elements, and the choice of blocks.                 *)

Less == {ss \in Nat \X Nat : ss[1] < ss[2]}

LEMMA LowestOf ==
    ASSUME NEW S, S \subseteq Nat, S # {}
    PROVE  \E x \in S : \A y \in S : x <= y
<1>1. IsWellFoundedOn(Less, Nat)
  BY NatLessThanWellFounded, Zenon DEF OpToRel, Less
<1>2. PICK x \in S : \A y \in S : <<y, x>> \notin Less
  BY <1>1, WFMin
<1>3. ASSUME NEW y \in S
      PROVE  x <= y
  <2>1. x \in Nat /\ y \in Nat /\ <<y, x>> \notin Less
    BY <1>2
  <2> QED
    BY <2>1 DEF Less
<1> QED
  BY <1>3

LEMMA HighestOf ==
    ASSUME NEW n \in Nat, NEW S, S \subseteq 0 .. n, S # {}
    PROVE  \E x \in S : \A y \in S : y <= x
<1> DEFINE T == {n - x : x \in S}
<1>1. T \subseteq Nat
  BY DEF T
<1>2. T # {}
  OBVIOUS
<1>3. PICK t \in T : \A u \in T : t <= u
  BY <1>1, <1>2, LowestOf
<1>4. PICK x \in S : t = n - x
  OBVIOUS
<1>5. \A y \in S : n - y \in T
  OBVIOUS
<1>6. \A y \in S : y <= x
  BY <1>3, <1>4, <1>5
<1> QED
  BY <1>6

LEMMA BlockNumbers ==
    /\ Block \subseteq Nat /\ Block = 0 .. (NBlocks - 1) /\ 0 \in Block
    /\ NBlocks \in Nat \ {0} /\ NBlocks - 1 \in Block
    /\ NoBlk \notin Block /\ Free \notin Block /\ Bad \notin Block /\ HalfBad \notin Block
    /\ Free # Bad /\ Free # HalfBad /\ Bad # HalfBad
BY GeometryAssumption DEF Block, NoBlk, Free, Bad, HalfBad

LEMMA MaxBlock ==
    ASSUME NEW S, S \subseteq Block, S # {}
    PROVE  MaxOf(S) \in S /\ \A y \in S : y <= MaxOf(S)
<1>1. \E x \in S : \A y \in S : y <= x
  BY HighestOf, BlockNumbers
<1> QED
  BY <1>1 DEF MaxOf

LEMMA MinBlock ==
    ASSUME NEW S, S \subseteq Block, S # {}
    PROVE  MinOf(S) \in S /\ \A y \in S : MinOf(S) <= y
<1>1. \E x \in S : \A y \in S : x <= y
  BY LowestOf, BlockNumbers
<1> QED
  BY <1>1 DEF MinOf

\* The table that FTL_CreateLUT builds gives no block a number it does not carry,
\* and finds a block for every number that one carries.
LEMMA TableOf ==
    ASSUME NEW tg
    PROVE  /\ CreateLUT(tg) \in [Block -> Block \cup {NoBlk}]
           /\ \A l \in Block :
                 IF CreateLUT(tg)[l] = NoBlk THEN \A b \in Block : tg[b] # l
                 ELSE CreateLUT(tg)[l] \in Block /\ tg[CreateLUT(tg)[l]] = l
<1> DEFINE owners(l) == {b \in Block : tg[b] = l}
<1>1. ASSUME NEW l \in Block
      PROVE  CreateLUT(tg)[l] = IF owners(l) = {} THEN NoBlk ELSE MaxOf(owners(l))
  BY DEF CreateLUT
<1>2. ASSUME NEW l \in Block, owners(l) # {}
      PROVE  MaxOf(owners(l)) \in owners(l)
  BY <1>2, MaxBlock
<1>3. CreateLUT(tg) = [l \in Block |-> CreateLUT(tg)[l]]
  BY DEF CreateLUT
<1>4. ASSUME NEW l \in Block
      PROVE  IF CreateLUT(tg)[l] = NoBlk THEN \A b \in Block : tg[b] # l
             ELSE CreateLUT(tg)[l] \in Block /\ tg[CreateLUT(tg)[l]] = l
  <2>1. CASE owners(l) = {}
    BY <1>1, <2>1
  <2>2. CASE owners(l) # {}
    <3>1. MaxOf(owners(l)) \in Block /\ tg[MaxOf(owners(l))] = l
      BY <1>2, <2>2
    <3> QED
      BY <1>1, <2>2, <3>1, BlockNumbers
  <2> QED
    BY <2>1, <2>2
<1> QED
  BY <1>3, <1>4

\* FTL_FindSamePlaneUnusedBlock returns a block whose first page is free, if any.
LEMMA SpareIsUnused ==
    ASSUME NEW src
    PROVE  /\ FindSamePlane(src) \in Block \cup {NoBlk}
           /\ FindSamePlane(src) # NoBlk =>
                  FindSamePlane(src) \in Block /\ tag[FindSamePlane(src)] \in {Free, HalfBad}
           /\ NextCur(FindSamePlane(src)) \in Block
<1> DEFINE here == Unused(curblock, src)
           all  == Unused(NBlocks - 1, src)
           free == {b \in Block : tag[b] \in {Free, HalfBad}}
<1>1. here \subseteq free /\ all \subseteq free /\ free \subseteq Block
  BY DEF Unused
<1>2. FindSamePlane(src) = IF here # {} THEN MaxOf(here)
                           ELSE IF all # {} THEN MaxOf(all) ELSE NoBlk
  BY DEF FindSamePlane
<1> HIDE DEF here, all
<1>3. here # {} => MaxOf(here) \in here
  BY <1>1, MaxBlock
<1>4. all # {} => MaxOf(all) \in all
  BY <1>1, MaxBlock
<1> QED
  BY <1>1, <1>2, <1>3, <1>4, BlockNumbers DEF NextCur

LEMMA SpareIsFree ==
    ASSUME NEW src, NoHalf
    PROVE  /\ FindSamePlane(src) \in Block \cup {NoBlk}
           /\ FindSamePlane(src) # NoBlk =>
                  FindSamePlane(src) \in Block /\ tag[FindSamePlane(src)] = Free
           /\ NextCur(FindSamePlane(src)) \in Block
BY SpareIsUnused DEF NoHalf

-----------------------------------------------------------------------------
(* Sectors, pages and blocks.                                                *)

LEMMA Division ==
    ASSUME NEW x \in Nat, NEW n \in Nat \ {0}
    PROVE  /\ x \div n \in Nat /\ x % n \in 0 .. (n - 1)
           /\ x = n * (x \div n) + (x % n)
OBVIOUS

LEMMA Product ==
    ASSUME NEW a \in Nat, NEW b \in Nat
    PROVE  a * b \in Nat
OBVIOUS

LEMMA ProductGrows ==
    ASSUME NEW a \in Nat, NEW b \in Nat, NEW c \in Nat, a <= b
    PROVE  a * c <= b * c /\ a * c \in Nat /\ b * c \in Nat
<1>1. PICK d \in Nat : b = a + d
  <2>1. b - a \in Nat /\ b = a + (b - a)
    OBVIOUS
  <2> QED
    BY <2>1
<1>2. b * c = a * c + d * c
  BY <1>1
<1> QED
  BY <1>2, Product

LEMMA BlockSize ==
    /\ NPages \in Nat \ {0} /\ SecPerPage \in Nat \ {0} /\ SecPerBlk \in Nat \ {0}
    /\ \A p \in Page : p * SecPerPage + SecPerPage <= SecPerBlk
    /\ \A p \in 0 .. NPages : p * SecPerPage \in Nat /\ p * SecPerPage <= SecPerBlk
<1>1. NPages \in Nat \ {0} /\ SecPerPage \in Nat \ {0}
  BY GeometryAssumption
<1>2. ASSUME NEW p \in 0 .. NPages
      PROVE  p * SecPerPage \in Nat /\ p * SecPerPage <= SecPerBlk
  BY <1>1, ProductGrows DEF SecPerBlk
<1>3. ASSUME NEW p \in Page
      PROVE  p * SecPerPage + SecPerPage <= SecPerBlk
  <2>1. p \in Nat /\ p + 1 \in 0 .. NPages
    BY <1>1 DEF Page
  <2>2. (p + 1) * SecPerPage = p * SecPerPage + SecPerPage
    BY <1>1, <2>1
  <2> QED
    BY <1>2, <2>1, <2>2
<1>4. SecPerBlk \in Nat \ {0}
  <2>1. 0 \in Page
    BY <1>1 DEF Page
  <2> QED
    BY <1>1, <1>3, <2>1, Product DEF SecPerBlk
<1> QED
  BY <1>1, <1>2, <1>3, <1>4

LEMMA PageOfSector ==
    ASSUME NEW o \in Off
    PROVE  /\ o \div SecPerPage \in Page
           /\ o % SecPerPage \in 0 .. (SecPerPage - 1)
           /\ (o \div SecPerPage) * SecPerPage + (o % SecPerPage) = o
           /\ SecPerPage - (o % SecPerPage) <= SecPerBlk - o
<1> DEFINE q == o \div SecPerPage
           r == o % SecPerPage
<1>0. o \in Nat /\ o < SecPerBlk /\ SecPerPage \in Nat \ {0}
  BY BlockSize DEF Off
<1>1. q \in Nat /\ r \in 0 .. (SecPerPage - 1) /\ o = SecPerPage * q + r
  BY <1>0, Division
<1> HIDE DEF q, r
<1>2. SecPerPage * q = q * SecPerPage /\ q * SecPerPage \in Nat
  BY <1>0, <1>1, Product
<1>3. q \in Page
  <2> SUFFICES ASSUME NPages <= q
               PROVE  FALSE
    BY <1>1, BlockSize DEF Page
  <2>1. NPages * SecPerPage <= q * SecPerPage
    BY <1>1, BlockSize, ProductGrows
  <2> QED
    BY <1>0, <1>1, <1>2, <2>1, BlockSize DEF SecPerBlk
<1>4. q * SecPerPage + SecPerPage <= SecPerBlk
  BY <1>3, BlockSize
<1>5. q * SecPerPage + r = o /\ SecPerPage - r <= SecPerBlk - o
  BY <1>0, <1>1, <1>2, <1>4, BlockSize
<1> QED
  BY <1>1, <1>3, <1>5 DEF q, r

-----------------------------------------------------------------------------
(* The parts of the type invariant.                                          *)

Tags == Block \cup {Free, Bad, HalfBad}
FlashType ==
    /\ cell \in [Block -> [Off -> Content]]
    /\ tag \in [Block -> Tags]
    /\ wear \in [Block -> [Off -> {"ok", "flip", "stuck"}]]
RamType ==
    /\ lut \in [Block -> Block \cup {NoBlk}]
    /\ valid \in 0 .. NBlocks
    /\ curblock \in Block
CallType ==
    /\ call \in CallRec
    /\ call.op \in {"write", "read"} => call.i <= call.n
    /\ call.op = "write" => Len(call.buf) = call.n
CopyType == cp \in CopyRec
EnvType ==
    /\ halved \in BOOLEAN /\ unmarked \in BOOLEAN /\ size \in 0 .. NBlocks
    /\ halved \/ NoHalf

LEMMA TypeParts ==
    FlashType /\ RamType /\ CallType /\ CopyType /\ EnvType /\ InBlock => TypeOK
<1> SUFFICES ASSUME FlashType, RamType, CallType, CopyType, EnvType, InBlock
             PROVE  TypeOK
  OBVIOUS
<1>1. ASSUME cp.pc = "page", Len(cp.buf) > 0
      PROVE  (IF cp.page > cp.first THEN cp.page ELSE cp.first) * SecPerPage
                 + cp.col + Len(cp.buf) <= SecPerBlk
  <2>1. cp.buf # <<>>
    BY <1>1
  <2> QED
    BY <1>1, <2>1 DEF InBlock
<1>2. /\ cell \in [Block -> [Off -> Content]]
      /\ tag \in [Block -> Block \cup {Free, Bad, HalfBad}]
      /\ wear \in [Block -> [Off -> {"ok", "flip", "stuck"}]]
  BY DEF FlashType, Tags
<1>3. /\ lut \in [Block -> Block \cup {NoBlk}]
      /\ valid \in 0 .. NBlocks
      /\ curblock \in Block
  BY DEF RamType
<1>4. call \in CallRec /\ (call.op \in {"write", "read"} => call.i <= call.n)
      /\ cp \in CopyRec
  BY DEF CallType, CopyType
<1>5. halved \in BOOLEAN /\ unmarked \in BOOLEAN /\ size \in 0 .. NBlocks
  BY DEF EnvType
<1> QED
  BY <1>1, <1>2, <1>3, <1>4, <1>5 DEF TypeOK

LEMMA CallFields ==
    ASSUME CallType
    PROVE  /\ call.at \in Nat /\ call.i \in Nat /\ call.n \in Nat
           /\ call.i <= NBlocks + MaxCount /\ call.n <= NBlocks + MaxCount
           /\ call.res \in 0 .. 3 /\ call.buf \in Seq(Val)
           /\ call.op \in {"off", "erase", "mark", "idle", "dead", "write", "read"}
BY BlockNumbers, BoundsAssumption DEF CallType, CallRec

LEMMA CopyFields ==
    ASSUME CopyType
    PROVE  /\ cp.src \in Block /\ cp.dst \in Block /\ cp.page \in 0 .. NPages
           /\ cp.first \in Page /\ cp.col \in 0 .. (SecPerPage - 1)
           /\ cp.buf \in Seq(Content)
           /\ cp.pc \in {"none", "find", "page", "bad", "scrub", "wipe", "zero",
                         "condemn"}
BY DEF CopyType, CopyRec

\* The sector that a turn of the loop begins with.
LEMMA Place ==
    ASSUME CallType, RamType
    PROVE  /\ Pos \in Nat /\ Pos \div SecPerBlk \in Nat
           /\ BlkOff \in Off
           /\ PBN \in Block \cup {NoBlk}
           /\ PBN # NoBlk => \E l \in Block : PBN = lut[l]
<1>1. Pos \in Nat
  BY CallFields DEF Pos
<1>2. Pos \div SecPerBlk \in Nat /\ Pos % SecPerBlk \in 0 .. (SecPerBlk - 1)
  BY <1>1, Division, BlockSize
<1> QED
  BY <1>1, <1>2 DEF BlkOff, Off, PBN, LBNToPBN, RamType

\* The parts of the data that go into a page or a block.
LEMMA Parts ==
    ASSUME CallType, RamType, call.op \in {"write", "read"}, call.i < call.n
    PROVE  /\ Left \in Nat \ {0}
           /\ ToPageEnd \in Nat \ {0} /\ ToBlkEnd \in Nat \ {0} /\ ToPageEnd <= ToBlkEnd
           /\ ToBlkEnd = SecPerBlk - BlkOff
           /\ Least(Left, ToPageEnd) \in Nat \ {0} /\ Least(Left, ToBlkEnd) \in Nat \ {0}
           /\ Least(Left, ToPageEnd) <= Left /\ Least(Left, ToBlkEnd) <= Left
           /\ Least(Left, ToPageEnd) <= ToPageEnd /\ Least(Left, ToBlkEnd) <= ToBlkEnd
<1>1. Left \in Nat \ {0}
  BY CallFields DEF Left
<1>2. /\ BlkOff \in Nat /\ BlkOff < SecPerBlk
      /\ BlkOff % SecPerPage \in 0 .. (SecPerPage - 1)
      /\ SecPerPage - (BlkOff % SecPerPage) <= SecPerBlk - BlkOff
  BY Place, PageOfSector, BlockSize DEF Off
<1>3. /\ ToPageEnd \in Nat \ {0} /\ ToBlkEnd \in Nat \ {0} /\ ToPageEnd <= ToBlkEnd
      /\ ToBlkEnd = SecPerBlk - BlkOff
  BY <1>2, BlockSize DEF ToPageEnd, ToBlkEnd
<1> QED
  BY <1>1, <1>3 DEF Least

LEMMA PartIsData ==
    ASSUME CallType, call.op = "write", NEW k \in Nat, k <= Left
    PROVE  /\ Part(k) \in Seq(Val) /\ Len(Part(k)) = k
           /\ \A j \in 1 .. k : Part(k)[j] = call.buf[call.i + j]
           /\ \A j \in 1 .. k : Part(k)[j] \in Val
<1>1. /\ call.buf \in Seq(Val) /\ Len(call.buf) = call.n
      /\ call.i \in Nat /\ call.n \in Nat /\ call.i + k <= call.n
  BY CallFields DEF CallType, Left
<1> DEFINE f == call.buf
           m == call.i + 1
           n == call.i + k
<1>2. /\ m \in Int /\ n \in Int /\ n - m + 1 = k /\ n <= Len(f) /\ 1 <= m
      /\ f \in Seq(Val)
  BY <1>1
<1>3. Part(k) = SubSeq(f, m, n)
  BY DEF Part
<1> HIDE DEF f, m, n
<1>4. ASSUME NEW j \in m .. n
      PROVE  f[j] \in Val
  <2>1. j \in 1 .. Len(f)
    BY <1>2, LenProperties
  <2> QED
    BY <1>2, <2>1, ElementOfSeq
<1>5. /\ Part(k) \in Seq(Val)
      /\ Len(Part(k)) = IF m <= n THEN n - m + 1 ELSE 0
      /\ \A j \in 1 .. (n - m + 1) : Part(k)[j] = f[m + j - 1]
  BY <1>2, <1>3, <1>4, SubSeqProperties
<1>6. Len(Part(k)) = k
  BY <1>2, <1>5
<1>7. ASSUME NEW j \in 1 .. k
      PROVE  Part(k)[j] = call.buf[call.i + j] /\ Part(k)[j] \in Val
  <2>1. Part(k)[j] = f[m + j - 1]
    BY <1>2, <1>5
  <2>2. m + j - 1 \in m .. n
    BY <1>2
  <2>3. m + j - 1 = call.i + j
    BY <1>1 DEF m
  <2> QED
    BY <1>4, <2>1, <2>2, <2>3 DEF f
<1> QED
  BY <1>5, <1>6, <1>7

-----------------------------------------------------------------------------
(* The type of the flash.                                                    *)

LEMMA ProgramContent == \A old, new \in Content : Program(old, new) \in Content
BY DEF Program, Content

LEMMA ProgrammedType ==
    ASSUME FlashType, NEW b \in Block, NEW p, NEW img, \A o \in Off : img[o] \in Content
    PROVE  /\ Programmed(b, p, img) \in [Block -> [Off -> Content]]
           /\ \A c \in Block \ {b} : Programmed(b, p, img)[c] = cell[c]
           /\ \A o \in Off : Programmed(b, p, img)[b][o] =
                  IF InPage(o, p) THEN Program(cell[b][o], img[o]) ELSE cell[b][o]
<1> DEFINE row == [o \in Off |->
                      IF InPage(o, p) THEN Program(cell[b][o], img[o]) ELSE cell[b][o]]
<1>1. \A o \in Off : cell[b][o] \in Content
  BY DEF FlashType
<1>2. row \in [Off -> Content]
  BY <1>1, ProgramContent
<1>3. Programmed(b, p, img) = [cell EXCEPT ![b] = row]
  BY DEF Programmed
<1>4. \A o \in Off : row[o] =
          IF InPage(o, p) THEN Program(cell[b][o], img[o]) ELSE cell[b][o]
  OBVIOUS
<1> HIDE DEF row
<1> QED
  BY <1>2, <1>3, <1>4 DEF FlashType

LEMMA ErasedType ==
    ASSUME FlashType, NEW b \in Block, Erased(b)
    PROVE  FlashType'
<1>1. [o \in Off |-> Blank] \in [Off -> Content]
  BY DEF Content
<1>2. cell' \in [Block -> [Off -> Content]]
  BY <1>1 DEF Erased, Blanked, FlashType
<1>3. tag' \in [Block -> Tags]
  BY DEF Erased, Blanked, FlashType, Tags
<1>4. [o \in Off |-> IF wear[b][o] = "flip" THEN "ok" ELSE wear[b][o]]
          \in [Off -> {"ok", "flip", "stuck"}]
  BY DEF FlashType
<1>5. wear' \in [Block -> [Off -> {"ok", "flip", "stuck"}]]
  BY <1>4 DEF Erased, Blanked, FlashType
<1> QED
  BY <1>2, <1>3, <1>5 DEF FlashType

LEMMA RetagType ==
    ASSUME FlashType, NEW b \in Block, NEW t \in Tags,
           tag' = [tag EXCEPT ![b] = t], UNCHANGED <<cell, wear>>
    PROVE  FlashType'
BY DEF FlashType

LEMMA ImageType ==
    ASSUME FlashType, CopyType
    PROVE  /\ WrLen \in 0 .. Len(cp.buf)
           /\ \A o \in Off : PageImage[o] \in Content
<1>1. WrLen \in 0 .. Len(cp.buf)
  BY CopyFields, LenProperties, BlockSize DEF WrLen, Least
<1>2. ASSUME NEW o \in Off
      PROVE  PageImage[o] \in Content
  <2>1. PageImage[o] = IF Overlaid(o) THEN cp.buf[Overlay(o) + 1] ELSE cell[cp.src][o]
    BY DEF PageImage
  <2>2. cell[cp.src][o] \in Content
    BY CopyFields DEF FlashType
  <2>3. CASE Overlaid(o)
    <3>1. Overlay(o) + 1 \in 1 .. Len(cp.buf)
      BY <1>1, <2>3, LenProperties, CopyFields DEF Overlaid
    <3>2. cp.buf[Overlay(o) + 1] \in Content
      BY <3>1, CopyFields, ElementOfSeq
    <3> QED
      BY <2>1, <2>3, <3>2
  <2> QED
    BY <2>1, <2>2, <2>3
<1> QED
  BY <1>1, <1>2

LEMMA CopiedType ==
    ASSUME FlashType, CopyType, CopiedPage
    PROVE  FlashType'
<1>1. cp.src \in Block /\ cp.dst \in Block
  BY CopyFields
<1>2. cell' \in [Block -> [Off -> Content]]
  BY <1>1, ImageType, ProgrammedType DEF CopiedPage
<1>3. tag' \in [Block -> Tags]
  BY <1>1 DEF CopiedPage, FlashType, Tags
<1> DEFINE row == [o \in Off |->
                    IF /\ InPage(o, cp.page) /\ ~ Overlaid(o)
                       /\ wear[cp.src][o] # "ok" /\ wear[cp.dst][o] = "ok"
                    THEN "flip" ELSE wear[cp.dst][o]]
<1>4. row \in [Off -> {"ok", "flip", "stuck"}]
  BY <1>1 DEF FlashType
<1>5. wear' = [wear EXCEPT ![cp.dst] = row]
  BY DEF CopiedPage
<1> HIDE DEF row
<1>6. wear' \in [Block -> [Off -> {"ok", "flip", "stuck"}]]
  BY <1>1, <1>4, <1>5 DEF FlashType
<1> QED
  BY <1>2, <1>3, <1>6 DEF FlashType

LEMMA DirectType ==
    ASSUME FlashType, RamType, CallType, Writing, PBN # NoBlk, WriteDirect
    PROVE  cell' \in [Block -> [Off -> Content]]
<1> DEFINE img == [o \in Off |-> IF o - BlkOff \in 0 .. (Len(PagePart) - 1)
                               THEN PagePart[o - BlkOff + 1] ELSE Blank]
<1>1. PagePart \in Seq(Val)
  BY Parts, PartIsData DEF PagePart, Writing
<1>2. ASSUME NEW o \in Off
      PROVE  img[o] \in Content
  <2>1. CASE o - BlkOff \in 0 .. (Len(PagePart) - 1)
    <3>1. o - BlkOff + 1 \in 1 .. Len(PagePart)
      BY <1>1, <2>1, LenProperties
    <3>2. PagePart[o - BlkOff + 1] \in Val
      BY <1>1, <3>1, ElementOfSeq
    <3> QED
      BY <2>1, <3>2 DEF Content
  <2>2. CASE o - BlkOff \notin 0 .. (Len(PagePart) - 1)
    BY <2>2 DEF Content
  <2> QED
    BY <2>1, <2>2
<1>3. PBN \in Block
  BY Place
<1>4. cell' = Programmed(PBN, BlkOff \div SecPerPage, img)
  BY DEF WriteDirect
<1> HIDE DEF img
<1> QED
  BY <1>2, <1>3, <1>4, ProgrammedType

\* What a bad-block mark does to the tags, whether or not its writes take effect.
LEMMA MarkedTag ==
    ASSUME FlashType, NEW b \in Block, BadBlockMark(b) \/ MarkFails(b)
    PROVE  /\ \/ tag' = [tag EXCEPT ![b] = Bad]
              \/ UNCHANGED tag
              \/ tag[b] = Free /\ tag' = [tag EXCEPT ![b] = HalfBad] /\ halved'
           /\ UNCHANGED <<cell, wear>> => FlashType'
<1>1. \/ tag' = [tag EXCEPT ![b] = Bad]
      \/ UNCHANGED tag
      \/ tag[b] = Free /\ tag' = [tag EXCEPT ![b] = HalfBad] /\ halved'
  BY DEF BadBlockMark, MarkFails
<1>2. Bad \in Tags /\ HalfBad \in Tags
  BY DEF Tags
<1>3. tag' \in [Block -> Tags]
  <2>1. tag \in [Block -> Tags]
    BY DEF FlashType
  <2>2. CASE tag' = [tag EXCEPT ![b] = Bad]
    BY <1>2, <2>1, <2>2
  <2>3. CASE tag' = [tag EXCEPT ![b] = HalfBad]
    BY <1>2, <2>1, <2>3
  <2> QED
    BY <1>1, <2>1, <2>2, <2>3
<1> QED
  BY <1>1, <1>3 DEF FlashType

\* A number is written over free spare bytes, or over another number.
LEMMA NumberWritten ==
    ASSUME FlashType, CallType, FormatCounts, FormatMark
    PROVE  /\ call.i \in Block /\ call.n \in Block /\ ~ IsBad(call.i) /\ NumberingOn
           /\ UNCHANGED <<cell, wear>>
           /\ \/ UNCHANGED tag /\ Fault
              \/ /\ UNCHANGED <<halved, unmarked, size, spent>>
                 /\ \E l \in Block : /\ l <= call.n /\ (tag[call.i] = Free => l = call.n)
                                     /\ tag' = [tag EXCEPT ![call.i] = l]
<1>1. /\ call.i \in Block /\ call.n \in Block /\ ~ IsBad(call.i) /\ NumberingOn
      /\ UNCHANGED <<cell, wear>>
  BY CallFields, BlockNumbers DEF FormatMark, NumberingOn, FormatCounts
<1>2. tag[call.i] \in Block \cup {Free}
  BY <1>1 DEF FlashType, Tags, IsBad
<1>3. CASE UNCHANGED tag /\ Fault
  BY <1>1, <1>3
<1>4. ASSUME NEW l \in IF tag[call.i] = Free THEN {call.n} ELSE 0 .. Least(tag[call.i], call.n)
      PROVE  l \in Block /\ l <= call.n /\ (tag[call.i] = Free => l = call.n)
  BY <1>1, <1>2, <1>4, BlockNumbers DEF Least
<1> QED
  BY <1>1, <1>3, <1>4 DEF FormatMark, env

LEMMA FlashStep ==
    ASSUME FlashType, RamType, CallType, CopyType, FormatCounts, [Next]_vars
    PROVE  FlashType'
<1> USE DEF flash, ram, env
<1>1. CASE UNCHANGED flash
  BY <1>1 DEF FlashType
<1>2. CASE Erasing /\ ~UNCHANGED flash
  <2>1. call.i \in Block
    BY <1>2, CallFields, BlockNumbers DEF Erasing, FormatErase, FormatEraseLate, FormatErased
  <2>2. CASE Erased(call.i)
    BY <2>1, <2>2, ErasedType
  <2>3. CASE (BadBlockMark(call.i) \/ MarkFails(call.i)) /\ UNCHANGED <<cell, wear>>
    BY <2>1, <2>3, MarkedTag
  <2>4. CASE FormatEraseLate
    <3>1. [o \in Off |-> Blank] \in [Off -> Content]
      BY DEF Content
    <3>2. [o \in Off |-> IF wear[call.i][o] = "flip" THEN "ok" ELSE wear[call.i][o]]
              \in [Off -> {"ok", "flip", "stuck"}]
      BY <2>1 DEF FlashType
    <3>3. cell' \in [Block -> [Off -> Content]]
      BY <2>1, <2>4, <3>1 DEF FormatEraseLate, Blanked, FlashType
    <3>4. wear' \in [Block -> [Off -> {"ok", "flip", "stuck"}]]
      BY <2>1, <2>4, <3>2 DEF FormatEraseLate, Blanked, FlashType
    <3>5. tag' \in [Block -> Tags]
      BY <2>1, <2>4 DEF FormatEraseLate, FlashType, Tags
    <3> QED
      BY <3>3, <3>4, <3>5 DEF FlashType
  <2> QED
    BY <1>2, <2>2, <2>3, <2>4 DEF Erasing, FormatErase, FormatErased
<1>3. CASE Marking /\ ~UNCHANGED flash
  <2>1. CASE FormatMark
    BY <1>3, <2>1, NumberWritten, RetagType DEF Tags
  <2> QED
    BY <1>3, <2>1 DEF Marking, FormatSkip, FormatEnd
<1>4. CASE CopyPage \/ CopyPageFails
  BY <1>1, <1>4, CopiedType DEF CopyPage, CopyPageFails
<1>5. CASE CopyBad
  BY <1>5, MarkedTag, CopyFields DEF CopyBad
<1>6. CASE CopyEnd \/ ScrubBlank \/ ScrubWipe \/ ScrubEnd
  BY <1>1, <1>6, ErasedType, CopyFields DEF CopyEnd, ScrubBlank, ScrubWipe, ScrubEnd
<1>7. CASE ScrubZero
  <2>1. \A o \in Off : [x \in Off |-> Zero][o] \in Content
    BY DEF Content
  <2> QED
    BY <1>7, <2>1, ProgrammedType, CopyFields DEF ScrubZero, FlashType
<1>8. CASE ScrubCondemn
  BY <1>8, MarkedTag, CopyFields DEF ScrubCondemn
<1>9. CASE WriteInPlace
  BY <1>9, DirectType DEF WriteInPlace, FlashType
<1>10. CASE WriteInPlaceFails
  BY <1>10, DirectType DEF WriteInPlaceFails, FlashType
<1>11. CASE \E b \in Block, o \in Off, kind \in {"flip", "stuck"} : SectorWears(b, o, kind)
  BY <1>11 DEF SectorWears, FlashType
<1>12. CASE Requests \/ PowerCut \/ CopyFind \/ WriteNoBlock \/ WriteByCopy
            \/ WriteCompareFails \/ ReadNoBlock \/ ReadOk \/ ReadFails \/ ReadMoves
            \/ ReturnOk
  BY <1>1, <1>12
  DEF Requests, FTL_Init, ReadSectors, WriteSectors, PowerCut, CopyFind, WriteNoBlock,
      WriteByCopy, WriteCompareFails, ReadNoBlock, ReadOk, ReadFails, ReadMoves, ReturnOk
<1>13. CASE UNCHANGED vars
  BY <1>1, <1>13 DEF vars
<1> QED
  BY <1>1, <1>2, <1>3, <1>4, <1>5, <1>6, <1>7, <1>8, <1>9, <1>10, <1>11, <1>12, <1>13
  DEF Next, Code, Erasing, Marking, Environment

-----------------------------------------------------------------------------
(* The types of RAM, of the call and of the copy.                            *)

LEMMA RebuildType ==
    ASSUME RamType, NEW tg, Rebuild(tg)
    PROVE  lut' \in [Block -> Block \cup {NoBlk}] /\ valid' \in 0 .. NBlocks
<1> DEFINE holes == {l \in Block : CreateLUT(tg)[l] = NoBlk}
<1>1. valid' = IF holes = {} THEN valid ELSE MinOf(holes)
  BY DEF Rebuild, ValidBlocks
<1>2. holes # {} => MinOf(holes) \in Block
  BY MinBlock
<1> QED
  BY <1>1, <1>2, TableOf, BlockNumbers DEF Rebuild, RamType

\* The table after the copy: one entry at most is changed.
LEMMA RedirectedIs ==
    ASSUME RamType, CopyType
    PROVE  \/ Redirected = lut /\ \A l \in Block : lut[l] # cp.src
           \/ \E l \in Block : lut[l] = cp.src /\ Redirected = [lut EXCEPT ![l] = cp.dst]
<1> DEFINE mapped == {l \in Block : lut[l] = cp.src}
<1>1. Redirected = IF mapped = {} THEN lut ELSE [lut EXCEPT ![MinOf(mapped)] = cp.dst]
  BY DEF Redirected
<1>2. mapped # {} => MinOf(mapped) \in mapped
  BY MinBlock
<1> QED
  BY <1>1, <1>2

LEMMA RamStep ==
    ASSUME RamType, CopyType, [Next]_vars
    PROVE  RamType'
<1> USE DEF flash, ram, env
<1>1. CASE UNCHANGED ram
  BY <1>1 DEF RamType
<1>2. CASE FTL_Init \/ (Marking /\ ~UNCHANGED ram) \/ CopyBad \/ ScrubCondemn
  <2>1. UNCHANGED curblock /\ \E tg : Rebuild(tg)
    BY <1>2 DEF FTL_Init, FormatMark, Marking, FormatSkip, FormatEnd, NumberingOn,
            CopyBad, ScrubCondemn
  <2> QED
    BY <2>1, RebuildType DEF RamType
<1>3. CASE CopyFind
  BY <1>3, SpareIsUnused DEF CopyFind, RamType
<1>4. CASE CopyEnd
  BY <1>4, RedirectedIs, CopyFields DEF CopyEnd, RamType
<1>5. CASE PowerCut
  BY <1>5, BlockNumbers DEF PowerCut, RamType
<1>6. CASE Erasing \/ CopyPage \/ CopyPageFails \/ WriteNoBlock \/ WriteInPlace
           \/ WriteInPlaceFails \/ WriteByCopy \/ WriteCompareFails \/ ReadNoBlock
           \/ ReadOk \/ ReadFails \/ ReadMoves \/ ScrubBlank \/ ScrubWipe \/ ScrubZero
           \/ ScrubEnd \/ ReturnOk
  BY <1>1, <1>6
  DEF FormatErase, Erasing, FormatEraseLate, FormatErased, CopyPage, CopyPageFails,
      WriteNoBlock, WriteInPlace, WriteInPlaceFails, WriteByCopy, WriteCompareFails,
      ReadNoBlock, ReadOk, ReadFails, ReadMoves, ScrubBlank, ScrubWipe, ScrubZero,
      ScrubEnd, ReturnOk
<1>7. CASE \/ \E s \in Sector, n \in 1 .. MaxCount :
                 \/ ReadSectors(s, n)
                 \/ \E buf \in [1 .. n -> Val] : WriteSectors(s, buf)
           \/ \E b \in Block, o \in Off, kind \in {"flip", "stuck"} : SectorWears(b, o, kind)
  BY <1>1, <1>7 DEF ReadSectors, WriteSectors, SectorWears
<1>8. CASE UNCHANGED vars
  BY <1>1, <1>8 DEF vars
<1> QED
  BY <1>1, <1>2, <1>3, <1>4, <1>5, <1>6, <1>7, <1>8 DEF Next, Code, Erasing, Marking,
            Environment, Requests

LEMMA NewCall ==
    ASSUME NEW op \in {"off", "erase", "mark", "idle", "dead", "write", "read"},
           NEW at \in Nat, NEW n \in Nat, n <= MaxCount, NEW buf \in Seq(Val),
           op = "write" => Len(buf) = n, call' = Call(op, at, n, buf)
    PROVE  /\ CallType'
           /\ call'.op = op /\ call'.i = 0 /\ call'.n = n
BY BlockNumbers, BoundsAssumption DEF CallType, CallRec, Call

LEMMA CallGoesOn ==
    ASSUME CallType, call.op \in {"write", "read"}, NEW k \in Nat, k <= Left,
           call' = Done(k)
    PROVE  /\ CallType'
           /\ call'.op = call.op /\ call'.i = call.i + k /\ call'.n = call.n
<1>1. call' \in CallRec /\ UNCHANGED <<call.op, call.n, call.buf>> /\ call'.i = call.i + k
  <2>1. call.i + k \in 0 .. (NBlocks + MaxCount) /\ call.i + k <= call.n
    BY CallFields, BlockNumbers, BoundsAssumption DEF Left
  <2> QED
    BY <2>1 DEF Done, CallType, CallRec
<1> QED
  BY <1>1, CallFields DEF CallType, Left

LEMMA CallAnswers ==
    ASSUME CallType, NEW res \in 0 .. 3, call' = Answer(res)
    PROVE  CallType' /\ call'.op = "idle"
<1>1. call' \in CallRec /\ call'.op = "idle"
  BY DEF Answer, CallType, CallRec
<1> QED
  BY <1>1 DEF CallType

LEMMA EmptyBuffer == <<>> \in Seq(Val) /\ <<>> \in Seq(Content) /\ Len(<<>>) = 0
OBVIOUS

\* A call that is over, or FTL_Init at its start: no sectors, no data.
LEMMA EmptyCall ==
    ASSUME NEW op \in {"off", "erase", "mark", "idle", "dead"},
           call' = Call(op, 0, 0, <<>>)
    PROVE  CallType' /\ FormatCounts'
<1>1. 0 \in Nat /\ 0 <= MaxCount /\ <<>> \in Seq(Val)
  BY BoundsAssumption, EmptyBuffer
<1>2. CallType' /\ call'.op = op /\ call'.i = 0 /\ call'.n = 0
  BY <1>1, NewCall
<1> QED
  BY <1>2, BlockNumbers DEF FormatCounts

LEMMA CallStep ==
    ASSUME CallType, RamType, FormatCounts, InBlock, CopyType, InCall, [Next]_vars
    PROVE  CallType' /\ FormatCounts'
<1> USE DEF flash, ram, env
<1>1. CASE UNCHANGED call
  BY <1>1 DEF CallType, FormatCounts
<1>2. CASE FTL_Init
  <2>1. PICK op \in {"erase", "idle"} : call' = Call(op, 0, 0, <<>>)
    BY <1>2 DEF FTL_Init
  <2> QED
    BY <2>1, EmptyCall
<1>3. CASE FormatErase \/ FormatEraseLate
  <2>1. /\ call.op = "erase" /\ call.i < NBlocks
        /\ \/ call' = [call EXCEPT !.i = @ + 1]
           \/ call' = [call EXCEPT !.i = @ + 1, !.at = @ + 1]
    BY <1>3 DEF FormatErase, FormatEraseLate
  <2>2. call.i + 1 \in 0 .. (NBlocks + MaxCount) /\ call.at + 1 \in Nat
    BY <2>1, CallFields, BlockNumbers, BoundsAssumption
  <2>3. call' \in CallRec /\ call'.op = "erase" /\ call'.i = call.i + 1 /\ call'.n = call.n
    BY <2>1, <2>2 DEF CallType, CallRec
  <2> QED
    BY <2>1, <2>3, CallFields, BlockNumbers DEF CallType, FormatCounts
<1>17. CASE FormatErased
  <2>1. PICK op \in {"dead", "mark"} : call' = [call EXCEPT !.i = 0, !.op = op]
    BY <1>17 DEF FormatErased
  <2>2. 0 \in 0 .. (NBlocks + MaxCount)
    BY BlockNumbers, BoundsAssumption
  <2>3. call' \in CallRec /\ call'.op = op /\ call'.i = 0 /\ call'.n = call.n
    BY <2>1, <2>2 DEF CallType, CallRec
  <2>4. call.n = 0
    BY <1>17 DEF FormatErased, FormatCounts
  <2> QED
    BY <2>3, <2>4, BlockNumbers DEF CallType, FormatCounts
<1>4. CASE FormatMark \/ FormatSkip
  <2>1. /\ call.op = "mark" /\ call.i < NBlocks
        /\ \/ call' = [call EXCEPT !.i = @ + 1, !.n = @ + 1]
           \/ call' = [call EXCEPT !.i = @ + 1]
    BY <1>4 DEF FormatMark, FormatSkip, NumberingOn
  <2>2. /\ call.i + 1 \in 0 .. (NBlocks + MaxCount)
        /\ call.n + 1 \in 0 .. (NBlocks + MaxCount) /\ call.n <= call.i
    BY <2>1, CallFields, BlockNumbers, BoundsAssumption DEF FormatCounts
  <2>3. /\ call' \in CallRec /\ call'.op = "mark"
        /\ call'.i = call.i + 1 /\ call'.n \in {call.n, call.n + 1}
    BY <2>1, <2>2 DEF CallType, CallRec
  <2> QED
    BY <2>1, <2>2, <2>3, CallFields, BlockNumbers DEF CallType, FormatCounts
<1>18. CASE FormatEnd
  <2>1. PICK op \in {"dead", "idle"} : call' = Call(op, 0, 0, <<>>)
    BY <1>18 DEF FormatEnd
  <2> QED
    BY <2>1, EmptyCall
<1>5. CASE PowerCut
  <2>1. call' = Call("off", 0, 0, <<>>)
    BY <1>5 DEF PowerCut, PoweredOff
  <2> QED
    BY <2>1, EmptyCall
<1>6. CASE \E s \in Sector, n \in 1 .. MaxCount :
              \/ ReadSectors(s, n)
              \/ \E buf \in [1 .. n -> Val] : WriteSectors(s, buf)
  <2>1. PICK s \in Sector, n \in 1 .. MaxCount :
              \/ ReadSectors(s, n)
              \/ \E buf \in [1 .. n -> Val] : WriteSectors(s, buf)
    BY <1>6
  <2>2. s \in Nat /\ n \in Nat /\ n <= MaxCount
    BY BoundsAssumption DEF Sector
  <2>3. CASE ReadSectors(s, n)
    <3>1. call' = Call("read", s, n, <<>>)
      BY <2>3 DEF ReadSectors
    <3>2. CallType' /\ call'.op = "read"
      BY <2>2, <3>1, NewCall, EmptyBuffer
    <3> QED
      BY <3>2 DEF FormatCounts
  <2>4. ASSUME NEW buf \in [1 .. n -> Val], WriteSectors(s, buf)
        PROVE  CallType' /\ FormatCounts'
    <3>1. buf \in Seq(Val) /\ Len(buf) = n
      BY SeqDef, LenProperties
    <3>2. call' = Call("write", s, n, buf)
      BY <2>4, <3>1 DEF WriteSectors
    <3>3. CallType' /\ call'.op = "write"
      BY <2>2, <3>1, <3>2, NewCall
    <3> QED
      BY <3>3 DEF FormatCounts
  <2> QED
    BY <2>1, <2>3, <2>4
<1>7. CASE \E res \in 0 .. 3 : call' = Answer(res)
  BY <1>7, CallAnswers DEF FormatCounts
<1>8. CASE \E k \in Nat : call.op \in {"write", "read"} /\ k <= Left /\ call' = Done(k)
  BY <1>8, CallGoesOn DEF FormatCounts
<1>9. CASE CopyFind \/ WriteNoBlock \/ WriteCompareFails \/ ReadNoBlock \/ ReadFails
           \/ ReturnOk
  BY <1>1, <1>7, <1>9
  DEF CopyFind, WriteNoBlock, WriteCompareFails, ReadNoBlock, ReadFails, ReturnOk
<1>10. CASE ReadOk \/ ScrubEnd \/ ScrubCondemn
  <2>1. call.op \in {"write", "read"} /\ call.i < call.n /\ call' = Done(ReadLen)
    BY <1>10 DEF ReadOk, Reading, ScrubEnd, ScrubCondemn, InCall
  <2> QED
    BY <1>8, <2>1, Parts DEF ReadLen
<1>11. CASE WriteInPlace
  <2>1. call.op = "write" /\ call.i < call.n /\ call' = Done(Len(PagePart))
    BY <1>11 DEF WriteInPlace, Writing
  <2>2. Len(PagePart) \in Nat /\ Len(PagePart) <= Left
    BY <2>1, Parts, PartIsData DEF PagePart
  <2> QED
    BY <1>8, <2>1, <2>2
<1>12. CASE CopyEnd
  <2>1. call.op \in {"write", "read"} /\ call.i < call.n
    BY <1>12 DEF CopyEnd, InCall
  <2>2. UNCHANGED call \/ call' = Done(Least(Left, ToBlkEnd))
    BY <1>12 DEF CopyEnd
  <2> QED
    BY <1>1, <1>8, <2>1, <2>2, Parts
<1>13. CASE CopyPage \/ CopyPageFails \/ CopyBad \/ WriteInPlaceFails \/ WriteByCopy
            \/ ReadMoves \/ ScrubBlank \/ ScrubWipe \/ ScrubZero
  BY <1>1, <1>13
  DEF CopyPage, CopyPageFails, CopyBad, WriteInPlaceFails, WriteByCopy, ReadMoves,
      ScrubBlank, ScrubWipe, ScrubZero
<1>14. CASE \E b \in Block, o \in Off, kind \in {"flip", "stuck"} : SectorWears(b, o, kind)
  BY <1>1, <1>14 DEF SectorWears
<1>15. CASE UNCHANGED vars
  BY <1>1, <1>15 DEF vars
<1> QED
  BY <1>2, <1>3, <1>4, <1>5, <1>6, <1>9, <1>10, <1>11, <1>12, <1>13, <1>14, <1>15, <1>17,
     <1>18
  DEF Next, Code, Erasing, Marking, Environment, Requests

-----------------------------------------------------------------------------
(* The locals of a copy, and the room left in its block.                      *)

\* The data a copy begins with fits into the rest of its block.
LEMMA StartType ==
    ASSUME CallType, RamType, call.op \in {"write", "read"}, call.i < call.n,
           PBN # NoBlk, NEW buf \in Seq(Content), Len(buf) <= ToBlkEnd, StartCopy(buf)
    PROVE  CopyType' /\ InBlock' /\ cp'.pc = "find" /\ cp'.src = PBN
<1> DEFINE f == BlkOff \div SecPerPage
           c == BlkOff % SecPerPage
<1>1. PBN \in Block /\ BlkOff \in Off
  BY Place
<1>2. f \in Page /\ c \in 0 .. (SecPerPage - 1) /\ f * SecPerPage + c = BlkOff
  BY <1>1, PageOfSector
<1>3. ToBlkEnd = SecPerBlk - BlkOff
  BY DEF ToBlkEnd
<1>4. cp' = [pc |-> "find", src |-> PBN, dst |-> 0, page |-> 0, first |-> f,
             col |-> c, buf |-> buf]
  BY DEF StartCopy, NoCopy
<1> HIDE DEF f, c
<1>5. CopyType'
  BY <1>1, <1>2, <1>4, BlockNumbers, BlockSize DEF CopyType, CopyRec
<1>6. f * SecPerPage + c + Len(buf) <= SecPerBlk
  BY <1>1, <1>2, <1>3, LenProperties, BlockSize DEF Off
<1>7. InBlock'
  BY <1>4, <1>6 DEF InBlock
<1> QED
  BY <1>4, <1>5, <1>7

\* After a page: the data laid over it is gone from the buffer.
LEMMA ConsumedIs ==
    ASSUME CopyType
    PROVE  /\ Consumed(cp) \in CopyRec
           /\ Len(Consumed(cp).buf) = Len(cp.buf) - WrLen
           /\ Consumed(cp).col = IF WrLen = 0 THEN cp.col ELSE 0
           /\ Consumed(cp).src = cp.src /\ Consumed(cp).dst = cp.dst
           /\ Consumed(cp).first = cp.first /\ Consumed(cp).page = cp.page
           /\ \A j \in 1 .. (Len(cp.buf) - WrLen) : Consumed(cp).buf[j] = cp.buf[WrLen + j]
<1>1. WrLen \in 0 .. Len(cp.buf) /\ cp.buf \in Seq(Content) /\ Len(cp.buf) \in Nat
  BY CopyFields, LenProperties, BlockSize DEF WrLen, Least
<1> DEFINE f == cp.buf
           m == WrLen + 1
           n == Len(cp.buf)
           rest == SubSeq(f, m, n)
<1>2. ASSUME NEW j \in m .. n
      PROVE  f[j] \in Content
  <2>1. j \in 1 .. Len(f)
    BY <1>1
  <2> QED
    BY <1>1, <2>1, ElementOfSeq
<1>3. /\ rest \in Seq(Content) /\ Len(rest) = IF m <= n THEN n - m + 1 ELSE 0
      /\ \A j \in 1 .. (n - m + 1) : rest[j] = f[m + j - 1]
  <2>1. f \in Seq(Content) /\ m \in Int /\ n \in Int
    BY <1>1
  <2> HIDE DEF f, m, n
  <2> QED
    BY <1>2, <2>1, SubSeqProperties
<1>4. Len(rest) = Len(cp.buf) - WrLen
  BY <1>1, <1>3
<1>4a. ASSUME NEW j \in 1 .. (Len(cp.buf) - WrLen)
       PROVE  rest[j] = cp.buf[WrLen + j]
  <2>1. m + j - 1 = WrLen + j /\ n - m + 1 = Len(cp.buf) - WrLen
    BY <1>1
  <2>2. rest[j] = f[m + j - 1]
    BY <1>3, <2>1
  <2> QED
    BY <2>1, <2>2
<1>5. Consumed(cp) = IF WrLen = 0 THEN cp ELSE [cp EXCEPT !.col = 0, !.buf = rest]
  BY DEF Consumed
<1>6. rest \in Seq(Content)
  BY <1>3
<1> HIDE DEF f, m, n, rest
<1>7. 0 \in 0 .. (SecPerPage - 1)
  BY BlockSize
<1>8. CASE WrLen = 0
  <2>1. /\ Consumed(cp) = cp /\ Len(cp.buf) = Len(cp.buf) - WrLen
        /\ \A j \in 1 .. Len(cp.buf) : WrLen + j = j
    BY <1>1, <1>5, <1>8
  <2> QED
    BY <1>8, <2>1 DEF CopyType
<1>9. CASE WrLen # 0
  <2>1. Consumed(cp) = [cp EXCEPT !.col = 0, !.buf = rest]
    BY <1>5, <1>9
  <2>2. /\ Consumed(cp) \in CopyRec /\ Consumed(cp).buf = rest /\ Consumed(cp).col = 0
        /\ Consumed(cp).src = cp.src /\ Consumed(cp).dst = cp.dst
        /\ Consumed(cp).first = cp.first /\ Consumed(cp).page = cp.page
    BY <1>6, <1>7, <2>1 DEF CopyType, CopyRec
  <2> QED
    BY <1>4, <1>4a, <1>9, <2>2
<1> QED
  BY <1>8, <1>9

\* The room that is needed does not grow.
LEMMA ConsumedFits ==
    ASSUME CopyType, InBlock, cp.pc = "page", cp.page < NPages,
           NEW pc \in {"page", "bad"}, NEW k \in {cp.page, cp.page + 1},
           pc = "page" => k = cp.page + 1,
           cp' = [Consumed(cp) EXCEPT !.pc = pc, !.page = k]
    PROVE  CopyType' /\ InBlock'
<1> DEFINE L == Len(cp.buf)
           w == WrLen
<1>1. /\ Consumed(cp) \in CopyRec
      /\ Len(Consumed(cp).buf) = L - w
      /\ Consumed(cp).col = IF w = 0 THEN cp.col ELSE 0
      /\ Consumed(cp).first = cp.first
  BY ConsumedIs
<1>2. k \in 0 .. NPages /\ cp.page \in Nat /\ NPages \in Nat
  BY CopyFields, BlockSize
<1>3. /\ cp' \in CopyRec /\ cp'.pc = pc /\ cp'.page = k
      /\ cp'.buf = Consumed(cp).buf /\ cp'.col = Consumed(cp).col /\ cp'.first = cp.first
  BY <1>1, <1>2 DEF CopyRec
<1> DEFINE A == cp.first * SecPerPage
           B == cp.page * SecPerPage
<1>4. /\ L \in Nat /\ w \in 0 .. L
      /\ w = IF cp.page >= cp.first THEN Least(L, SecPerPage - cp.col) ELSE 0
      /\ cp.col \in 0 .. (SecPerPage - 1) /\ SecPerPage \in Nat /\ cp.first \in Nat
      /\ A \in Nat /\ B \in Nat /\ SecPerBlk \in Nat
  <2>1. L \in Nat /\ cp.col \in 0 .. (SecPerPage - 1) /\ cp.first \in Nat
    BY CopyFields, LenProperties DEF Page
  <2>2. A \in Nat /\ B \in Nat
    <3>1. SecPerPage \in Nat
      BY BlockSize
    <3> QED
      BY <1>2, <2>1, <3>1, Product
  <2>3. w = IF cp.page >= cp.first THEN Least(L, SecPerPage - cp.col) ELSE 0
    BY DEF WrLen
  <2>4. SecPerPage \in Nat /\ SecPerBlk \in Nat
    BY BlockSize
  <2> HIDE DEF A, B, L, w
  <2>5. w \in 0 .. L
    <3>1. SecPerPage - cp.col \in Nat
      BY <2>1, <2>4
    <3>2. \A x, y \in Nat : Least(x, y) \in 0 .. x
      BY DEF Least
    <3>3. Least(L, SecPerPage - cp.col) \in 0 .. L /\ 0 \in 0 .. L
      BY <2>1, <3>1, <3>2
    <3> QED
      BY <2>3, <3>3
  <2> QED
    BY <2>1, <2>2, <2>3, <2>4, <2>5
<1>5. /\ (cp.page + 1) * SecPerPage = B + SecPerPage
      /\ cp.page = cp.first => A = B
  BY <1>2, <1>4
<1>6. L > 0 => /\ A + cp.col + L <= SecPerBlk
               /\ cp.page > cp.first => B + cp.col + L <= SecPerBlk
  BY LenProperties DEF InBlock
<1>7. cp'.buf # <<>> => L - w > 0
  <2>1. cp'.buf \in Seq(Content)
    BY <1>3 DEF CopyRec
  <2>2. cp'.buf # <<>> => Len(cp'.buf) \in Nat /\ Len(cp'.buf) # 0
    BY <2>1, EmptySeq, LenProperties
  <2>3. Len(cp'.buf) = L - w
    BY <1>1, <1>3
  <2> HIDE DEF L, w
  <2> QED
    BY <1>4, <2>2, <2>3
<1>8. cp'.col = IF w = 0 THEN cp.col ELSE 0
  BY <1>1, <1>3
<1>9. k = cp.page + 1 => k * SecPerPage = B + SecPerPage
  BY <1>5
<1>10. Len(cp'.buf) = L - w
  BY <1>1, <1>3
<1> HIDE DEF L, w, A, B
<1>11. ASSUME L - w > 0
       PROVE  A + cp'.col + (L - w) <= SecPerBlk
  <2>1. L > 0 /\ cp'.col \in 0 .. cp.col
    BY <1>4, <1>8, <1>11
  <2> QED
    BY <1>4, <1>6, <1>11, <2>1
<1>12. ASSUME L - w > 0, pc = "page", k > cp.first
       PROVE  k * SecPerPage + cp'.col + (L - w) <= SecPerBlk
  <2>1. cp.page >= cp.first /\ k = cp.page + 1 /\ L > 0
    BY <1>2, <1>4, <1>12
  <2>2. w = SecPerPage - cp.col /\ w # 0
    BY <1>4, <1>12, <2>1 DEF Least
  <2>3. B + cp.col + L <= SecPerBlk
    BY <1>2, <1>4, <1>5, <1>6, <2>1
  <2>4. k * SecPerPage = B + SecPerPage /\ cp'.col = 0
    BY <1>8, <1>9, <2>1, <2>2
  <2> QED
    BY <1>4, <2>2, <2>3, <2>4
<1>13. InBlock'
  <2> SUFFICES ASSUME cp'.buf # <<>>
               PROVE  /\ cp'.first * SecPerPage + cp'.col + Len(cp'.buf) <= SecPerBlk
                      /\ cp'.pc = "page" /\ cp'.page > cp'.first
                           => cp'.page * SecPerPage + cp'.col + Len(cp'.buf) <= SecPerBlk
    BY DEF InBlock
  <2>1. cp'.first * SecPerPage = A
    BY <1>3 DEF A
  <2> QED
    BY <1>3, <1>7, <1>10, <1>11, <1>12, <2>1
<1> QED
  BY <1>3, <1>13 DEF CopyType

LEMMA NoCopyType ==
    ASSUME cp' = NoCopy
    PROVE  CopyType' /\ InBlock' /\ InCall'
<1>1. NoCopy \in CopyRec
  BY BlockNumbers, BlockSize, EmptyBuffer DEF NoCopy, CopyRec, Page
<1> QED
  BY <1>1 DEF NoCopy, CopyType, InBlock, InCall, Scrubbing

\* A step that only says where the copy is now.
LEMMA MoveType ==
    ASSUME CopyType, InCall, UNCHANGED call,
           NEW pc \in {"scrub", "wipe", "zero", "condemn"}, NEW k \in 0 .. NPages,
           cp' = [cp EXCEPT !.pc = pc, !.page = k],
           cp.pc # "none", call.op # "write"
    PROVE  CopyType' /\ InBlock' /\ InCall'
<1>1. cp' \in CopyRec /\ cp'.pc = pc
  BY DEF CopyType, CopyRec
<1> QED
  BY <1>1 DEF CopyType, InBlock, InCall, Scrubbing

LEMMA CopyStep ==
    ASSUME CallType, RamType, CopyType, InBlock, InCall, FlashType, [Next]_vars
    PROVE  CopyType' /\ InBlock' /\ InCall'
<1> USE DEF flash, ram, env
<1>1. CASE cp.pc = "none" /\ UNCHANGED cp
  BY <1>1 DEF CopyType, InBlock, InCall, Scrubbing
<1>2. CASE UNCHANGED <<cp, call>>
  BY <1>2 DEF CopyType, InBlock, InCall, Scrubbing
<1>3. CASE cp' = NoCopy
  BY <1>3, NoCopyType
<1>4. CASE CopyFind
  <2>1. CASE \E dst \in Block :
                 UNCHANGED call /\ cp' = [cp EXCEPT !.pc = "page", !.dst = dst, !.page = 0]
    <3>1. PICK dst \in Block :
                 UNCHANGED call /\ cp' = [cp EXCEPT !.pc = "page", !.dst = dst, !.page = 0]
      BY <2>1
    <3>2. 0 \in 0 .. NPages /\ cp.first \in Nat
      BY BlockSize, CopyFields DEF Page
    <3>3. /\ cp' \in CopyRec /\ cp'.pc = "page" /\ cp'.page = 0 /\ cp'.buf = cp.buf
          /\ cp'.first = cp.first /\ cp'.col = cp.col
      BY <3>1, <3>2 DEF CopyType, CopyRec
    <3> QED
      BY <1>4, <3>1, <3>2, <3>3 DEF CopyFind, CopyType, InBlock, InCall, Scrubbing
  <2>2. CASE cp' = [cp EXCEPT !.pc = "scrub"] /\ UNCHANGED call /\ call.op # "write"
    <3>1. cp' \in CopyRec /\ cp'.pc = "scrub"
      BY <2>2 DEF CopyType, CopyRec
    <3> QED
      BY <1>4, <2>2, <3>1 DEF CopyFind, CopyType, InBlock, InCall, Scrubbing
  <2> QED
    BY <1>3, <1>4, <2>1, <2>2, SpareIsUnused DEF CopyFind
<1>5. CASE CopyPage
  <2>1. Consumed(cp).page = cp.page /\ Consumed(cp) \in CopyRec
    BY ConsumedIs
  <2>2. cp' = [Consumed(cp) EXCEPT !.pc = "page", !.page = cp.page + 1]
    <3>1. Consumed(cp).pc = "page"
      BY <1>5 DEF CopyPage, Consumed
    <3> DEFINE c == Consumed(cp)
    <3>2. cp' = [c EXCEPT !.page = cp.page + 1] /\ c.pc = "page" /\ c \in CopyRec
      BY <1>5, <2>1, <3>1 DEF CopyPage
    <3> HIDE DEF c
    <3>3. cp' = [c EXCEPT !.pc = "page", !.page = cp.page + 1]
      BY <3>2 DEF CopyRec
    <3> QED
      BY <3>3 DEF c
  <2>3. CopyType' /\ InBlock'
    BY <1>5, <2>2, ConsumedFits DEF CopyPage
  <2>4. cp'.pc = "page"
    BY <2>1, <2>2 DEF CopyRec
  <2> QED
    BY <1>5, <2>3, <2>4 DEF CopyPage, InCall, Scrubbing
<1>6. CASE CopyPageFails
  <2>1. Consumed(cp).page = cp.page /\ Consumed(cp) \in CopyRec
    BY ConsumedIs
  <2>2. cp' = [Consumed(cp) EXCEPT !.pc = "bad", !.page = cp.page]
    <3> DEFINE c == Consumed(cp)
    <3>1. cp' = [c EXCEPT !.pc = "bad"] /\ c.page = cp.page /\ c \in CopyRec
      BY <1>6, <2>1 DEF CopyPageFails
    <3> HIDE DEF c
    <3>2. cp' = [c EXCEPT !.pc = "bad", !.page = cp.page]
      BY <3>1 DEF CopyRec
    <3> QED
      BY <3>2 DEF c
  <2>3. CopyType' /\ InBlock'
    BY <1>6, <2>2, ConsumedFits DEF CopyPageFails
  <2>4. cp'.pc = "bad"
    BY <2>1, <2>2 DEF CopyRec
  <2> QED
    BY <1>6, <2>3, <2>4 DEF CopyPageFails, InCall, Scrubbing
<1>7. CASE CopyBad
  <2>1. cp' = [cp EXCEPT !.pc = "find"] /\ cp.pc = "bad" /\ UNCHANGED call
    BY <1>7 DEF CopyBad
  <2>2. /\ cp' \in CopyRec /\ cp'.pc = "find" /\ cp'.buf = cp.buf
        /\ cp'.first = cp.first /\ cp'.col = cp.col
    BY <2>1 DEF CopyType, CopyRec
  <2> QED
    BY <2>1, <2>2 DEF CopyType, InBlock, InCall, Scrubbing
<1>8. CASE CopyEnd
  <2>1. CASE cp' = [cp EXCEPT !.pc = "scrub"] /\ UNCHANGED call /\ call.op # "write"
    <3>1. cp' \in CopyRec /\ cp'.pc = "scrub"
      BY <2>1 DEF CopyType, CopyRec
    <3> QED
      BY <1>8, <2>1, <3>1 DEF CopyEnd, CopyType, InBlock, InCall, Scrubbing
  <2> QED
    BY <1>3, <1>8, <2>1 DEF CopyEnd
<1>9. CASE WriteInPlaceFails \/ WriteByCopy
  <2>1. /\ call.op = "write" /\ call.i < call.n /\ PBN # NoBlk /\ StartCopy(BlockPart)
        /\ UNCHANGED call
    BY <1>9 DEF WriteInPlaceFails, WriteByCopy, Writing
  <2>2. BlockPart \in Seq(Val) /\ Len(BlockPart) = Least(Left, ToBlkEnd)
        /\ \A j \in 1 .. Len(BlockPart) : BlockPart[j] \in Val
    BY <2>1, Parts, PartIsData DEF BlockPart
  <2>3. BlockPart \in Seq(Content)
    <3>1. Val \subseteq Content
      BY DEF Content
    <3> DEFINE s == BlockPart
    <3>2. s \in Seq(Val)
      BY <2>2
    <3> HIDE DEF s
    <3>3. s \in Seq(Content)
      BY <3>1, <3>2
    <3> QED
      BY <3>3 DEF s
  <2>4. Len(BlockPart) <= ToBlkEnd
    BY <2>1, <2>2, Parts
  <2>5. CopyType' /\ InBlock' /\ cp'.pc = "find"
    BY <2>1, <2>3, <2>4, StartType
  <2> QED
    BY <2>1, <2>5 DEF InCall, Scrubbing
<1>10. CASE ReadMoves
  <2> DEFINE s == [k \in 1 .. ReadLen |-> cell[PBN][BlkOff + k - 1]]
  <2>1. /\ call.op = "read" /\ call.i < call.n /\ PBN # NoBlk /\ StartCopy(s)
        /\ UNCHANGED call
    BY <1>10 DEF ReadMoves, Reading
  <2>2. ReadLen \in Nat /\ ReadLen <= ToBlkEnd /\ BlkOff + ReadLen <= SecPerBlk
    <3>1. ReadLen \in Nat \ {0} /\ ReadLen <= ToPageEnd /\ ToPageEnd <= ToBlkEnd
          /\ ToPageEnd \in Nat \ {0} /\ ToBlkEnd \in Nat \ {0} /\ ToBlkEnd = SecPerBlk - BlkOff
      BY <2>1, Parts DEF ReadLen
    <3>2. BlkOff \in Nat /\ SecPerBlk \in Nat
      BY Place, BlockSize DEF Off
    <3> HIDE DEF s
    <3> QED
      BY <3>1, <3>2
  <2>3. \A k \in 1 .. ReadLen : cell[PBN][BlkOff + k - 1] \in Content
    <3>1. \A k \in 1 .. ReadLen : BlkOff + k - 1 \in Off
      BY <2>2, Place, BlockSize DEF Off
    <3> QED
      BY <2>1, <3>1, Place DEF FlashType
  <2>4. s \in Seq(Content) /\ Len(s) = ReadLen
    <3>1. s \in [1 .. ReadLen -> Content]
      BY <2>3
    <3> HIDE DEF s
    <3> QED
      BY <2>2, <3>1, SeqDef, LenProperties
  <2> HIDE DEF s
  <2>5. CopyType' /\ InBlock' /\ cp'.pc = "find"
    BY <2>1, <2>2, <2>4, StartType
  <2> QED
    BY <2>1, <2>5 DEF InCall, Scrubbing
<1>11. CASE ScrubBlank
  <2>1. \E pc \in {"wipe", "condemn"} : cp' = [cp EXCEPT !.pc = pc]
    BY <1>11 DEF ScrubBlank
  <2>2. \E pc \in {"wipe", "condemn"} : cp' = [cp EXCEPT !.pc = pc, !.page = cp.page]
    BY <2>1 DEF CopyType, CopyRec
  <2> QED
    BY <1>11, <2>2, MoveType, CopyFields DEF ScrubBlank, InCall, Scrubbing
<1>12. CASE ScrubWipe
  <2>1. 0 \in 0 .. NPages
    BY BlockSize
  <2> QED
    BY <1>12, <2>1, MoveType DEF ScrubWipe, InCall, Scrubbing
<1>13. CASE ScrubZero
  <2>1. cp.page + 1 \in 0 .. NPages
    BY <1>13, CopyFields, BlockSize DEF ScrubZero
  <2>2. cp' = [cp EXCEPT !.pc = "zero", !.page = cp.page + 1]
    BY <1>13 DEF ScrubZero, CopyType, CopyRec
  <2> QED
    BY <1>13, <2>1, <2>2, MoveType DEF ScrubZero, InCall, Scrubbing
<1>14. CASE ScrubEnd \/ ScrubCondemn \/ PowerCut
  BY <1>3, <1>14 DEF ScrubEnd, ScrubCondemn, PowerCut
<1>15. CASE FTL_Init \/ Erasing \/ Marking
  BY <1>1, <1>15 DEF FTL_Init, FormatErase, Erasing, FormatEraseLate, FormatErased,
            FormatMark, Marking, FormatSkip, FormatEnd, NumberingOn, InCall
<1>16. CASE WriteNoBlock \/ WriteInPlace \/ WriteCompareFails \/ ReadNoBlock \/ ReadOk
            \/ ReadFails \/ ReturnOk
  BY <1>1, <1>16
  DEF WriteNoBlock, WriteInPlace, WriteCompareFails, ReadNoBlock, ReadOk, ReadFails,
      ReturnOk, Writing, Reading
<1>17. CASE \/ \E s \in Sector, n \in 1 .. MaxCount :
                  \/ ReadSectors(s, n)
                  \/ \E buf \in [1 .. n -> Val] : WriteSectors(s, buf)
            \/ \E b \in Block, o \in Off, kind \in {"flip", "stuck"} : SectorWears(b, o, kind)
  BY <1>1, <1>2, <1>17 DEF ReadSectors, WriteSectors, SectorWears, InCall
<1>18. CASE UNCHANGED vars
  BY <1>2, <1>18 DEF vars
<1> QED
  BY <1>4, <1>5, <1>6, <1>7, <1>8, <1>9, <1>10, <1>11, <1>12, <1>13, <1>14, <1>15, <1>16,
     <1>17, <1>18
  DEF Next, Code, Erasing, Marking, Environment, Requests

-----------------------------------------------------------------------------
(* The marks that did not reach both pages, and the size of the disk.         *)

LEMMA EnvAfter ==
    ASSUME EnvType, RamType', [Next]_vars
    PROVE  /\ halved' \in BOOLEAN /\ unmarked' \in BOOLEAN /\ size' \in 0 .. NBlocks
           /\ halved => halved'
<1> USE DEF flash, ram, env
<1>1. CASE UNCHANGED <<halved, unmarked, size>>
  BY <1>1 DEF EnvType
<1>2. CASE UNCHANGED <<halved, size>> /\ unmarked' = FALSE
  BY <1>2 DEF EnvType
<1>3. ASSUME NEW b, BadBlockMark(b) \/ MarkFails(b)
      PROVE  /\ halved' \in BOOLEAN /\ unmarked' \in BOOLEAN /\ size' \in 0 .. NBlocks
             /\ halved => halved'
  <2>1. size' \in 0 .. NBlocks
    BY <1>3 DEF BadBlockMark, MarkFails, EnvType
  <2>2. unmarked' = FALSE \/ unmarked' = TRUE
    BY <1>3 DEF BadBlockMark, MarkFails
  <2>3. halved' = halved \/ halved' = TRUE
    BY <1>3 DEF BadBlockMark, MarkFails
  <2>4. halved' \in BOOLEAN /\ (halved => halved')
    BY <2>3 DEF EnvType
  <2> QED
    BY <2>1, <2>2, <2>4
<1>4. CASE FTL_Init \/ FormatEnd
  <2>1. size' \in {valid', size, 0}
    BY <1>4 DEF FTL_Init, FormatEnd
  <2>2. size' \in 0 .. NBlocks
    BY <2>1, BlockNumbers DEF RamType, EnvType
  <2> QED
    BY <1>4, <2>2 DEF FTL_Init, FormatEnd, EnvType
<1>5. CASE FormatEraseLate
  <2>1. UNCHANGED size /\ unmarked' = TRUE
    BY <1>5 DEF FormatEraseLate
  <2>2. halved' = halved \/ halved' = TRUE
    BY <1>5 DEF FormatEraseLate
  <2>3. halved' \in BOOLEAN /\ (halved => halved')
    BY <2>2 DEF EnvType
  <2> QED
    BY <2>1, <2>3 DEF EnvType
<1>6. CASE FormatErase \/ CopyBad \/ ScrubCondemn
  <2>1. \/ UNCHANGED <<halved, unmarked, size>>
        \/ BadBlockMark(call.i) \/ MarkFails(call.i)
        \/ BadBlockMark(cp.dst) \/ MarkFails(cp.dst)
        \/ BadBlockMark(cp.src) \/ MarkFails(cp.src)
    BY <1>6 DEF FormatErase, CopyBad, ScrubCondemn
  <2> QED
    BY <1>1, <1>3, <2>1
<1>7. CASE FormatErased \/ FormatMark \/ FormatSkip \/ CopyFind \/ CopyPage \/ CopyPageFails
           \/ CopyEnd \/ WriteNoBlock \/ WriteInPlace \/ WriteInPlaceFails \/ WriteByCopy
           \/ WriteCompareFails \/ ReadNoBlock \/ ReadOk \/ ReadFails \/ ReadMoves
           \/ ScrubBlank \/ ScrubWipe \/ ScrubZero \/ ScrubEnd \/ ReturnOk \/ PowerCut
  BY <1>1, <1>7
  DEF FormatErased, FormatMark, FormatSkip, CopyFind, CopyPage, CopyPageFails, CopyEnd,
      WriteNoBlock, WriteInPlace, WriteInPlaceFails, WriteByCopy, WriteCompareFails,
      ReadNoBlock, ReadOk, ReadFails, ReadMoves, ScrubBlank, ScrubWipe, ScrubZero, ScrubEnd,
      ReturnOk, PowerCut, Fault
<1>8. CASE \/ \E s \in Sector, n \in 1 .. MaxCount :
                 \/ ReadSectors(s, n)
                 \/ \E buf \in [1 .. n -> Val] : WriteSectors(s, buf)
           \/ \E x \in Block, o \in Off, kind \in {"flip", "stuck"} : SectorWears(x, o, kind)
  BY <1>1, <1>2, <1>8 DEF ReadSectors, WriteSectors, SectorWears
<1>9. CASE UNCHANGED vars
  BY <1>1, <1>9 DEF vars
<1> QED
  BY <1>4, <1>5, <1>6, <1>7, <1>8, <1>9 DEF Next, Code, Environment, Requests

\* No tag is made up but by FTL_Format and a half mark.
LEMMA TagsAfter ==
    ASSUME FlashType, CallType, CopyType, [Next]_vars, ~ FormatMark, NEW b \in Block
    PROVE  \/ tag'[b] \in {Free, Bad}
           \/ tag'[b] = HalfBad /\ halved'
           \/ \E c \in Block : tag'[b] = tag[c]
<1> USE DEF flash, ram, env
<1>0. tag \in [Block -> Tags] /\ cp.src \in Block /\ cp.dst \in Block
  BY CopyFields DEF FlashType
<1>1. CASE UNCHANGED tag
  BY <1>1
<1>2. CASE \E c \in Block, t \in {Free, Bad} : tag' = [tag EXCEPT ![c] = t]
  BY <1>0, <1>2
<1>3. CASE tag' = [tag EXCEPT ![cp.dst] = tag[cp.src]]
  BY <1>0, <1>3
<1>12. CASE halved' /\ \E c \in Block : tag' = [tag EXCEPT ![c] = HalfBad]
  BY <1>0, <1>12
<1>4. CASE FormatErase \/ FormatEraseLate \/ FormatErased
  <2>1. FormatErase \/ FormatEraseLate => call.i \in Block
    BY CallFields, BlockNumbers DEF FormatErase, FormatEraseLate
  <2>2. CASE FormatErased
    BY <1>1, <2>2 DEF FormatErased
  <2>3. CASE FormatEraseLate
    BY <1>2, <1>12, <2>1, <2>3 DEF FormatEraseLate
  <2>4. CASE FormatErase
    BY <1>1, <1>2, <1>12, <2>1, <2>4, MarkedTag DEF FormatErase, Erased
  <2> QED
    BY <1>4, <2>2, <2>3, <2>4
<1>5. CASE CopyPage \/ CopyPageFails
  BY <1>0, <1>1, <1>2, <1>3, <1>5 DEF CopyPage, CopyPageFails, CopiedPage
<1>10. CASE CopyEnd \/ ScrubBlank \/ ScrubWipe \/ ScrubEnd
  BY <1>0, <1>1, <1>2, <1>10 DEF CopyEnd, ScrubBlank, ScrubWipe, ScrubEnd, Erased, Fault
<1>11. CASE CopyBad \/ ScrubCondemn
  BY <1>0, <1>1, <1>2, <1>11, <1>12, MarkedTag DEF CopyBad, ScrubCondemn
<1>6. CASE FormatSkip \/ FormatEnd \/ CopyFind \/ ScrubZero \/ WriteNoBlock \/ WriteInPlace
           \/ WriteInPlaceFails \/ WriteByCopy \/ WriteCompareFails \/ ReadNoBlock \/ ReadOk
           \/ ReadFails \/ ReadMoves \/ ReturnOk \/ PowerCut \/ FTL_Init
  BY <1>1, <1>6
  DEF FormatSkip, FormatEnd, CopyFind, ScrubZero, WriteNoBlock, WriteInPlace,
      WriteInPlaceFails, WriteByCopy, WriteCompareFails, ReadNoBlock, ReadOk, ReadFails,
      ReadMoves, ReturnOk, PowerCut, FTL_Init
<1>7. CASE \/ \E s \in Sector, n \in 1 .. MaxCount :
                 \/ ReadSectors(s, n)
                 \/ \E buf \in [1 .. n -> Val] : WriteSectors(s, buf)
           \/ \E x \in Block, o \in Off, kind \in {"flip", "stuck"} : SectorWears(x, o, kind)
  BY <1>1, <1>7 DEF ReadSectors, WriteSectors, SectorWears
<1>8. CASE UNCHANGED vars
  BY <1>1, <1>8 DEF vars
<1> QED
  BY <1>4, <1>5, <1>6, <1>7, <1>8, <1>10, <1>11 DEF Next, Code, Environment, Requests

LEMMA EnvStep ==
    ASSUME EnvType, FlashType, FlashType', RamType', CallType, CopyType, FormatCounts,
           [Next]_vars
    PROVE  EnvType'
<1>1. /\ halved' \in BOOLEAN /\ unmarked' \in BOOLEAN /\ size' \in 0 .. NBlocks
      /\ halved => halved'
  BY EnvAfter
<1>2. ASSUME ~ halved', NEW b \in Block
      PROVE  tag'[b] # HalfBad
  <2>1. NoHalf
    BY <1>1, <1>2 DEF EnvType
  <2>2. CASE FormatMark
    <3>1. \/ UNCHANGED tag
          \/ call.i \in Block /\ \E l \in Block : tag' = [tag EXCEPT ![call.i] = l]
      BY <2>2, NumberWritten
    <3> QED
      BY <2>1, <3>1, BlockNumbers DEF NoHalf, FlashType
  <2>3. CASE ~ FormatMark
    BY <1>2, <2>1, <2>3, TagsAfter, BlockNumbers DEF NoHalf
  <2> QED
    BY <2>2, <2>3
<1> QED
  BY <1>1, <1>2 DEF EnvType, NoHalf

-----------------------------------------------------------------------------
(* The type invariant.                                                       *)

FtlShape ==
    /\ FlashType /\ RamType /\ CallType /\ CopyType /\ EnvType
    /\ FormatCounts /\ InBlock /\ InCall

\* Nothing is programmed, and the power is off.
LEMMA FtlStart == Init => FtlShape
<1> SUFFICES ASSUME Init
             PROVE  FtlShape
  OBVIOUS
<1>1. FlashType
  BY DEF Init, FlashType, Tags, Content
<1>2. RamType
  BY BlockNumbers DEF Init, RamType
<1>3. call = [op |-> "off", at |-> 0, n |-> 0, buf |-> <<>>, i |-> 0, res |-> 0]
  BY DEF Init, PoweredOff, Call
<1>4. CallType /\ FormatCounts
  BY <1>3, EmptyBuffer, BlockNumbers, BoundsAssumption DEF CallType, CallRec, FormatCounts
<1>5. cp \in CopyRec /\ cp.pc = "none"
  BY BlockNumbers, BlockSize, EmptyBuffer DEF Init, NoCopy, CopyRec, Page
<1>6. CopyType /\ InBlock /\ InCall
  BY <1>5 DEF CopyType, InBlock, InCall, Scrubbing
<1>7. EnvType
  <2>1. halved = FALSE /\ unmarked = FALSE /\ size = 0
    BY DEF Init
  <2>2. NoHalf
    BY BlockNumbers DEF Init, NoHalf
  <2>3. 0 \in 0 .. NBlocks
    BY BlockNumbers
  <2> QED
    BY <2>1, <2>2, <2>3 DEF EnvType
<1> QED
  BY <1>1, <1>2, <1>4, <1>6, <1>7 DEF FtlShape

LEMMA FtlShapeStep == FtlShape /\ [Next]_vars => FtlShape'
BY FlashStep, RamStep, CallStep, CopyStep, EnvStep DEF FtlShape

LEMMA FtlShapeAlways == Spec => []FtlShape
BY FtlStart, FtlShapeStep, PTL DEF Spec

\* ftl.c and nand.c: the tables of the chip and of RAM keep their shape, the loops of
\* FTL_Format, FTL_WriteSectors and FTL_ReadSectors stop at their ends, and a copy is
\* never laid over sectors outside its block, whatever fails and whenever power is cut.
THEOREM FtlTypeCorrect == Spec => []TypeOK
<1>1. FtlShape => TypeOK
  BY TypeParts DEF FtlShape
<1> QED
  BY <1>1, FtlShapeAlways, PTL

-----------------------------------------------------------------------------
(* The table and the flash.                                                  *)

MapInv == ~ halved /\ MapAgrees /\ CopyUnderWay /\ GivenUp

\* FTL_CreateLUT makes the table agree with the flash.
LEMMA TableAgrees ==
    ASSUME Rebuild(tag')
    PROVE  MapAgrees'
BY TableOf DEF Rebuild, MapAgrees

\* Nothing that the table, the flash and the copy agree about has changed.
LEMMA SameMap ==
    ASSUME MapInv, ~ halved', UNCHANGED <<tag, lut, cp>>, Mounted \/ ~ Mounted'
    PROVE  MapInv'
BY DEF MapInv, MapAgrees, CopyUnderWay, GivenUp, Scrubbing

\* No copy is under way, and the table agrees.
LEMMA NoCopyMap ==
    ASSUME ~ halved', MapAgrees', cp' = NoCopy \/ (cp.pc = "none" /\ UNCHANGED cp)
    PROVE  MapInv'
BY DEF MapInv, CopyUnderWay, GivenUp, Scrubbing, NoCopy

LEMMA MapStartCopy ==
    ASSUME FtlShape, MapInv, ~ halved', NEW buf, StartCopy(buf), PBN # NoBlk, Mounted,
           UNCHANGED <<tag, lut, call>>
    PROVE  MapInv'
<1>1. PICK l \in Block : PBN = lut[l]
  BY Place DEF FtlShape
<1>2. tag[PBN] = l
  BY <1>1 DEF MapInv, MapAgrees
<1>3. cp'.pc = "find" /\ cp'.src = PBN
  BY DEF StartCopy, NoCopy
<1> QED
  BY <1>2, <1>3 DEF MapInv, MapAgrees, Mounted, CopyUnderWay, GivenUp, Scrubbing

LEMMA MapCopyFind ==
    ASSUME FtlShape, MapInv, ~ halved', SpareFound, CopyFind
    PROVE  MapInv'
<1> DEFINE dst == FindSamePlane(cp.src)
<1>1. UNCHANGED <<tag, lut>> /\ cp.pc = "find" /\ call.op \in {"write", "read"}
  BY DEF CopyFind, FtlShape, InCall, flash
<1>2. MapAgrees'
  <2>1. \A l \in Block : lut[l] # NoBlk => tag[lut[l]] = l
    BY <1>1 DEF MapInv, MapAgrees, Mounted
  <2> QED
    BY <1>1, <2>1 DEF MapAgrees
<1>3. CASE dst # NoBlk
  <2>1. cp' = [cp EXCEPT !.pc = "page", !.dst = dst, !.page = 0]
    BY <1>3 DEF CopyFind
  <2>2. cp'.pc = "page" /\ cp'.dst = dst /\ cp'.page = 0 /\ cp'.src = cp.src
    BY <2>1 DEF FtlShape, CopyType, CopyRec
  <2>3. tag[dst] = Free /\ tag[cp.src] \in Block
    BY <1>1, <1>3, SpareIsFree DEF MapInv, CopyUnderWay, FtlShape, EnvType
  <2> HIDE DEF dst
  <2>4. dst # cp.src
    BY <2>3, BlockNumbers
  <2> QED
    BY <1>1, <1>2, <2>2, <2>3, <2>4 DEF MapInv, CopyUnderWay, GivenUp, Scrubbing
<1>4. CASE dst = NoBlk
  <2>1. call.op = "write"
    BY <1>1, <1>4 DEF SpareFound
  <2>2. cp' = NoCopy
    BY <1>4, <2>1 DEF CopyFind
  <2> QED
    BY <1>2, <2>2, NoCopyMap
<1> QED
  BY <1>3, <1>4

\* What a page copy does to the tags.
LEMMA CopiedTags ==
    ASSUME FtlShape, MapInv, CopiedPage, cp.pc = "page"
    PROVE  /\ tag'[cp.dst] = tag[cp.src]
           /\ \A b \in Block \ {cp.dst} : tag'[b] = tag[b]
           /\ cp.dst # cp.src /\ tag[cp.src] \in Block
           /\ \A l \in Block : lut[l] # NoBlk /\ tag[lut[l]] = l => tag'[lut[l]] = l
<1>1. cp.dst \in Block /\ cp.src \in Block
  BY CopyFields DEF FtlShape
<1>2. /\ cp.dst # cp.src /\ tag[cp.src] \in Block
      /\ tag[cp.dst] = IF cp.page = 0 THEN Free ELSE tag[cp.src]
  BY DEF MapInv, CopyUnderWay
<1>3. tag' = IF cp.page = 0 THEN [tag EXCEPT ![cp.dst] = tag[cp.src]] ELSE tag
  <2>1. cp.page \in Nat
    BY CopyFields DEF FtlShape
  <2>2. cp.page = 0 => tag[cp.dst] # HalfBad
    BY <1>2, BlockNumbers
  <2>3. CASE cp.page = 0
    BY <2>2, <2>3 DEF CopiedPage
  <2>4. CASE cp.page > 0
    BY <2>1, <2>4 DEF CopiedPage
  <2> QED
    BY <2>1, <2>3, <2>4
<1>4. tag \in [Block -> Tags]
  BY DEF FtlShape, FlashType
<1>5. tag'[cp.dst] = tag[cp.src] /\ \A b \in Block \ {cp.dst} : tag'[b] = tag[b]
  BY <1>1, <1>2, <1>3, <1>4
<1>6. ASSUME NEW l \in Block, lut[l] # NoBlk, tag[lut[l]] = l
      PROVE  tag'[lut[l]] = l
  <2>1. lut[l] \in Block
    BY <1>6 DEF FtlShape, RamType
  <2>2. CASE lut[l] # cp.dst
    BY <1>5, <1>6, <2>1, <2>2
  <2>3. CASE lut[l] = cp.dst
    <3>1. tag[cp.dst] = tag[cp.src]
      BY <1>2, <1>6, <2>3, BlockNumbers
    <3> QED
      BY <1>5, <1>6, <2>3, <3>1
  <2> QED
    BY <2>2, <2>3
<1> QED
  BY <1>2, <1>5, <1>6

LEMMA MapCopyPage ==
    ASSUME FtlShape, MapInv, ~ halved', CopyPage \/ CopyPageFails
    PROVE  MapInv'
<1>1. UNCHANGED <<lut, call>> /\ cp.pc = "page" /\ (CopiedPage \/ UNCHANGED tag)
  BY DEF CopyPage, CopyPageFails, ram, env, flash
<1>2. cp'.src = cp.src /\ cp'.dst = cp.dst
      /\ \/ cp'.pc = "page" /\ cp'.page = cp.page + 1 /\ CopiedPage
         \/ cp'.pc = "bad"
  <2> DEFINE c == Consumed(cp)
  <2>1. c \in CopyRec /\ c.src = cp.src /\ c.dst = cp.dst /\ c.page = cp.page
    BY ConsumedIs DEF FtlShape
  <2>2. c.pc = "page"
    BY <1>1 DEF Consumed, FtlShape, CopyType, CopyRec
  <2>3. \/ cp' = [c EXCEPT !.page = c.page + 1] /\ CopiedPage
        \/ cp' = [c EXCEPT !.pc = "bad"]
    BY DEF CopyPage, CopyPageFails
  <2> HIDE DEF c
  <2> QED
    BY <2>1, <2>2, <2>3 DEF CopyRec
<1>3. cp.page \in Nat /\ cp.dst \in Block /\ cp.src \in Block
  BY CopyFields DEF FtlShape
<1>4. CASE CopiedPage
  <2>1. MapAgrees'
    BY <1>1, <1>4, CopiedTags DEF MapInv, MapAgrees, Mounted
  <2>2. CopyUnderWay'
    <3>1. /\ tag'[cp.dst] = tag[cp.src] /\ tag'[cp.src] = tag[cp.src]
          /\ cp.dst # cp.src /\ tag[cp.src] \in Block
      BY <1>1, <1>3, <1>4, CopiedTags
    <3> QED
      BY <1>2, <1>3, <3>1 DEF CopyUnderWay, Scrubbing
  <2> QED
    BY <1>2, <2>1, <2>2 DEF MapInv, GivenUp, Scrubbing
<1>5. CASE UNCHANGED tag /\ cp'.pc = "bad"
  BY <1>1, <1>2, <1>5 DEF MapInv, MapAgrees, Mounted, CopyUnderWay, GivenUp, Scrubbing
<1> QED
  BY <1>1, <1>2, <1>4, <1>5

LEMMA MapCopyBad ==
    ASSUME FtlShape, MapInv, ~ halved', CopyBad
    PROVE  MapInv'
<1>1. MapAgrees'
  BY TableAgrees DEF CopyBad
<1>2. /\ cp' = [cp EXCEPT !.pc = "find"] /\ cp.pc = "bad" /\ UNCHANGED call
      /\ BadBlockMark(cp.dst) \/ MarkFails(cp.dst)
  BY DEF CopyBad
<1>3. cp'.pc = "find" /\ cp'.src = cp.src
  BY <1>2 DEF FtlShape, CopyType, CopyRec
<1>4. cp.dst # cp.src /\ tag[cp.src] \in Block /\ cp.dst \in Block /\ cp.src \in Block
  BY <1>2, CopyFields DEF MapInv, CopyUnderWay, FtlShape
<1>6. tag' = [tag EXCEPT ![cp.dst] = Bad] \/ UNCHANGED tag
  BY <1>2, <1>4, MarkedTag DEF FtlShape
<1>5. tag'[cp.src] = tag[cp.src]
  BY <1>4, <1>6 DEF FtlShape, FlashType
<1> QED
  BY <1>1, <1>3, <1>4, <1>5 DEF MapInv, CopyUnderWay, GivenUp, Scrubbing

\* The end of a copy: the destination carries the number too, and takes the place of
\* the source in the table, which no other entry gives.
LEMMA MapCopyEnd ==
    ASSUME FtlShape, MapInv, ~ halved', CopyEnd
    PROVE  MapInv'
<1>1. /\ cp.src \in Block /\ cp.dst \in Block /\ cp.pc = "page" /\ cp.page # 0
      /\ call.op \in {"write", "read"} /\ lut \in [Block -> Block \cup {NoBlk}]
      /\ tag \in [Block -> Tags]
  BY CopyFields, BlockSize
  DEF CopyEnd, FtlShape, InCall, RamType, FlashType
<1>2. cp.dst # cp.src /\ tag[cp.src] \in Block /\ tag[cp.dst] = tag[cp.src]
  BY <1>1 DEF MapInv, CopyUnderWay
<1>3. \A l \in Block : lut[l] # NoBlk => tag[lut[l]] = l
  BY <1>1 DEF MapInv, MapAgrees, Mounted
<1>4. tag' = [tag EXCEPT ![cp.src] = Free] \/ tag' = tag
  BY DEF CopyEnd, Erased, Blanked, flash
<1>5. /\ \A b \in Block \ {cp.src} : tag'[b] = tag[b]
      /\ tag'[cp.src] \in {Free, tag[cp.src]}
  BY <1>1, <1>4
<1>6. \/ lut' = lut /\ \A l \in Block : lut[l] # cp.src
      \/ \E l \in Block : lut[l] = cp.src /\ lut' = [lut EXCEPT ![l] = cp.dst]
  BY RedirectedIs DEF CopyEnd, FtlShape
<1>7. /\ \A l \in Block : lut'[l] # NoBlk => tag'[lut'[l]] = l
      /\ \A l \in Block : lut'[l] # cp.src
  <2>1. CASE lut' = lut /\ \A l \in Block : lut[l] # cp.src
    BY <1>1, <1>3, <1>5, <2>1
  <2>2. ASSUME NEW k \in Block, lut[k] = cp.src, lut' = [lut EXCEPT ![k] = cp.dst]
        PROVE  /\ \A l \in Block : lut'[l] # NoBlk => tag'[lut'[l]] = l
               /\ \A l \in Block : lut'[l] # cp.src
    <3>1. tag[cp.src] = k
      BY <1>1, <1>3, <2>2, BlockNumbers
    <3>2. lut'[k] = cp.dst /\ \A l \in Block \ {k} : lut'[l] = lut[l]
      BY <1>1, <2>2
    <3>3. \A l \in Block \ {k} : lut[l] # cp.src
      BY <1>1, <1>3, <3>1, BlockNumbers
    <3>4. tag'[cp.dst] = k
      BY <1>1, <1>2, <1>5, <3>1
    <3> QED
      BY <1>1, <1>2, <1>3, <1>5, <3>2, <3>3, <3>4
  <2> QED
    BY <1>6, <2>1, <2>2
<1>8. cp' = NoCopy \/ cp' = [cp EXCEPT !.pc = "scrub"]
  BY DEF CopyEnd
<1>9. CASE cp' = NoCopy
  BY <1>7, <1>9, NoCopyMap DEF MapAgrees
<1>10. CASE cp' = [cp EXCEPT !.pc = "scrub"]
  <2>1. cp'.pc = "scrub" /\ cp'.src = cp.src /\ cp'.dst = cp.dst
    BY <1>10 DEF FtlShape, CopyType, CopyRec
  <2>2. tag'[cp.dst] = tag[cp.src] /\ tag'[cp.src] \in {Free, tag[cp.src]}
    BY <1>1, <1>2, <1>5
  <2> QED
    BY <1>2, <1>7, <2>1, <2>2 DEF MapInv, MapAgrees, CopyUnderWay, GivenUp, Scrubbing
<1> QED
  BY <1>8, <1>9, <1>10

\* A block that is given up is erased, and the table does not give it.
LEMMA MapScrub ==
    ASSUME FtlShape, MapInv, ~ halved', ScrubBlank \/ ScrubWipe \/ ScrubZero \/ ScrubEnd
    PROVE  MapInv'
<1>1. /\ cp.src \in Block /\ cp.dst \in Block /\ Scrubbing /\ UNCHANGED lut
      /\ call.op = "read" /\ tag \in [Block -> Tags]
      /\ lut \in [Block -> Block \cup {NoBlk}]
  BY CopyFields
  DEF ScrubBlank, ScrubWipe, ScrubZero, ScrubEnd, Scrubbing, FtlShape, InCall,
      FlashType, RamType, ram, env
<1>2. /\ cp.dst # cp.src /\ tag[cp.dst] \in Block /\ tag[cp.src] \in {Free, tag[cp.dst]}
      /\ \A l \in Block : lut[l] # cp.src
  BY <1>1 DEF MapInv, CopyUnderWay, GivenUp
<1>3. \A l \in Block : lut[l] # NoBlk => tag[lut[l]] = l
  BY <1>1 DEF MapInv, MapAgrees, Mounted
<1>4. tag' = [tag EXCEPT ![cp.src] = Free] \/ tag' = tag
  BY DEF ScrubBlank, ScrubWipe, ScrubZero, ScrubEnd, Erased, Blanked, flash
<1>5. /\ \A b \in Block \ {cp.src} : tag'[b] = tag[b]
      /\ tag'[cp.src] \in {Free, tag[cp.src]}
  BY <1>1, <1>4
<1>6. MapAgrees'
  BY <1>1, <1>2, <1>3, <1>5 DEF MapAgrees
<1>7. \/ cp' = NoCopy
      \/ cp'.src = cp.src /\ cp'.dst = cp.dst /\ cp'.pc \in {"wipe", "zero", "condemn"}
  BY DEF ScrubBlank, ScrubWipe, ScrubZero, ScrubEnd, FtlShape, CopyType, CopyRec
<1>8. CASE cp' = NoCopy
  BY <1>6, <1>8, NoCopyMap
<1>9. CASE cp'.src = cp.src /\ cp'.dst = cp.dst /\ cp'.pc \in {"wipe", "zero", "condemn"}
  <2>1. tag'[cp.dst] = tag[cp.dst] /\ tag'[cp.src] \in {Free, tag[cp.dst]}
    BY <1>1, <1>2, <1>5
  <2> QED
    BY <1>1, <1>2, <1>6, <1>9, <2>1 DEF MapInv, CopyUnderWay, GivenUp, Scrubbing
<1> QED
  BY <1>7, <1>8, <1>9

LEMMA MapStep ==
    ASSUME FtlShape, MapInv, ~ halved', SpareFound, [Next]_vars
    PROVE  MapInv'
<1> USE DEF flash, ram, env
<1>1. CASE FTL_Init
  <2>1. cp.pc = "none" /\ UNCHANGED <<cp, tag>> /\ Rebuild(tag)
    BY <1>1 DEF FTL_Init, FtlShape, InCall
  <2>2. Rebuild(tag')
    BY <2>1
  <2> QED
    BY <2>1, <2>2, TableAgrees, NoCopyMap
<1>2. CASE Erasing
  <2>1. cp.pc = "none" /\ UNCHANGED cp /\ ~ Mounted'
    BY <1>2 DEF FormatErase, Erasing, FormatEraseLate, FormatErased, FtlShape, InCall,
            CallType, CallRec, Mounted
  <2> QED
    BY <2>1, NoCopyMap DEF MapAgrees
<1>3. CASE Marking
  <2>1. cp.pc = "none" /\ UNCHANGED cp
    BY <1>3 DEF FormatMark, Marking, FormatSkip, FormatEnd, NumberingOn, FtlShape,
            InCall
  <2>2. CASE Rebuild(tag) /\ UNCHANGED tag
    <3>1. Rebuild(tag')
      BY <2>2
    <3> QED
      BY <2>1, <3>1, TableAgrees, NoCopyMap
  <2>3. CASE ~ (Rebuild(tag) /\ UNCHANGED tag)
    <3>1. FormatMark \/ FormatSkip
      BY <1>3, <2>3 DEF Marking, FormatEnd
    <3>3. /\ call.op = "mark"
          /\ \/ call' = [call EXCEPT !.i = @ + 1, !.n = @ + 1]
             \/ call' = [call EXCEPT !.i = @ + 1]
      BY <3>1 DEF FormatMark, FormatSkip, NumberingOn
    <3>2. ~ Mounted'
      BY <3>3 DEF FtlShape, CallType, CallRec, Mounted
    <3> QED
      BY <2>1, <3>2, NoCopyMap DEF MapAgrees
  <2> QED
    BY <2>2, <2>3
<1>4. CASE CopyFind \/ CopyPage \/ CopyPageFails \/ CopyBad \/ CopyEnd
  BY <1>4, MapCopyFind, MapCopyPage, MapCopyBad, MapCopyEnd
<1>5. CASE ScrubBlank \/ ScrubWipe \/ ScrubZero \/ ScrubEnd
  BY <1>5, MapScrub
<1>6. CASE ScrubCondemn
  BY <1>6, TableAgrees, NoCopyMap DEF ScrubCondemn
<1>7. CASE WriteInPlaceFails \/ WriteByCopy \/ ReadMoves
  BY <1>7, MapStartCopy
  DEF WriteInPlaceFails, WriteByCopy, ReadMoves, Writing, Reading, Mounted
<1>8. CASE WriteNoBlock \/ WriteInPlace \/ WriteCompareFails \/ ReadNoBlock \/ ReadOk
           \/ ReadFails \/ ReturnOk
  <2>1. Mounted /\ UNCHANGED <<tag, lut, cp>>
    BY <1>8
    DEF WriteNoBlock, WriteInPlace, WriteCompareFails, ReadNoBlock, ReadOk, ReadFails,
        ReturnOk, Writing, Reading, Mounted
  <2> QED
    BY <2>1, SameMap
<1>9. CASE \/ \E s \in Sector, n \in 1 .. MaxCount :
                 \/ ReadSectors(s, n)
                 \/ \E buf \in [1 .. n -> Val] : WriteSectors(s, buf)
           \/ \E b \in Block, o \in Off, kind \in {"flip", "stuck"} : SectorWears(b, o, kind)
  <2>1. Mounted /\ UNCHANGED <<tag, lut, cp>>
    BY <1>9 DEF ReadSectors, WriteSectors, SectorWears, Mounted
  <2> QED
    BY <2>1, SameMap
<1>10. CASE PowerCut
  <2>1. cp' = NoCopy /\ ~ Mounted'
    BY <1>10 DEF PowerCut, PoweredOff, Call, Mounted
  <2> QED
    BY <2>1, NoCopyMap DEF MapAgrees
<1>11. CASE UNCHANGED vars
  BY <1>11, SameMap DEF vars, Mounted
<1> QED
  BY <1>1, <1>2, <1>3, <1>4, <1>5, <1>6, <1>7, <1>8, <1>9, <1>10, <1>11
  DEF Next, Code, Erasing, Marking, Environment, Requests

\* A mark that once reached the second page only is never forgotten.
MapSafe == halved \/ MapInv
LEMMA HalvedStays ==
    ASSUME FtlShape, [Next]_vars, halved
    PROVE  halved'
BY FtlShapeStep, EnvAfter DEF FtlShape

LEMMA MapSafeStep == FtlShape /\ MapSafe /\ SpareFound /\ [Next]_vars => MapSafe'
BY MapStep, HalvedStays DEF MapSafe

LEMMA MapStart == Init => MapInv /\ MapSafe
<1> SUFFICES ASSUME Init
             PROVE  MapInv
  BY DEF MapSafe
<1>3. ~ halved
  BY DEF Init
<1>1. ~ Mounted
  BY DEF Init, PoweredOff, Call, Mounted
<1>2. cp.pc = "none"
  BY DEF Init, NoCopy
<1> QED
  BY <1>1, <1>2, <1>3 DEF MapInv, MapAgrees, CopyUnderWay, GivenUp, Scrubbing

\* ftl.c: a block that the table in RAM gives for a logical block carries its number, at
\* every step of FTL_Format, FTL_WriteSectors, FTL_ReadSectors and
\* FTL_CopyAndWriteToBlock, with failed pages, failed erases and power cuts, as long as
\* the copy of a block that a read found worn gets a spare block, and until a bad-block
\* mark reaches the second page of a free block only.
THEOREM MapAlwaysAgrees == Spec /\ []SpareFound => []MapAgrees
<1>1. MapSafe => MapAgrees
  BY DEF MapSafe, MapInv, MapAgrees
<1> QED
  BY <1>1, FtlShapeAlways, MapStart, MapSafeStep, PTL DEF Spec

\* No step but those of FTL_Format takes the last block that carries a number.
LEMMA NumbersStep ==
    ASSUME FtlShape, MapInv, ~ halved', SpareFound, [Next]_vars
    PROVE  call.op \in {"erase", "mark"} \/ Numbered \subseteq Numbered'
<1> SUFFICES ASSUME call.op \notin {"erase", "mark"},
                    NEW b \in Block, tag[b] \in Block
             PROVE  \E c \in Block : tag'[c] = tag[b]
  <2>1. Numbered = {tag[x] : x \in {y \in Block : tag[y] \in Block}}
    BY BlockNumbers DEF Numbered, Good, IsBad, FtlShape, FlashType, Tags
  <2>2. Numbered' = {tag'[x] : x \in {y \in Block : tag'[y] \in Block}}
    <3>1. tag' \in [Block -> Tags]
      BY FtlShapeStep DEF FtlShape, FlashType
    <3> QED
      BY <3>1, BlockNumbers DEF Numbered, Good, IsBad, Tags
  <2> QED
    BY <2>1, <2>2
<1> USE DEF flash, ram, env
<1>0. tag \in [Block -> Tags] /\ cp.src \in Block /\ cp.dst \in Block
  BY CopyFields DEF FtlShape, FlashType
<1>1. CASE UNCHANGED tag
  BY <1>1
<1>2. CASE (CopyPage \/ CopyPageFails) /\ CopiedPage
  <2>1. cp.pc = "page" /\ tag[cp.dst] \in {Free, tag[cp.src]}
    BY <1>2 DEF CopyPage, CopyPageFails, MapInv, CopyUnderWay
  <2>2. /\ tag'[cp.dst] = tag[cp.src]
        /\ \A c \in Block \ {cp.dst} : tag'[c] = tag[c]
    BY <1>2, <2>1, CopiedTags
  <2> QED
    BY <1>0, <2>1, <2>2, BlockNumbers
<1>3. CASE CopyBad
  <2>1. /\ cp.src # cp.dst /\ tag[cp.dst] \in {Free, tag[cp.src]}
        /\ BadBlockMark(cp.dst) \/ MarkFails(cp.dst)
    BY <1>3 DEF CopyBad, MapInv, CopyUnderWay
  <2>2. tag' = [tag EXCEPT ![cp.dst] = Bad] \/ UNCHANGED tag
    BY <1>0, <2>1, MarkedTag DEF FtlShape
  <2> QED
    BY <1>0, <1>1, <2>1, <2>2, BlockNumbers
<1>4. CASE CopyEnd /\ Erased(cp.src)
  <2>1. cp.page # 0 /\ cp.pc = "page"
    BY <1>4, BlockSize DEF CopyEnd
  <2>2. /\ tag' = [tag EXCEPT ![cp.src] = Free] /\ cp.src # cp.dst
        /\ tag[cp.dst] = tag[cp.src]
    BY <1>4, <2>1 DEF Erased, Blanked, MapInv, CopyUnderWay
  <2> QED
    BY <1>0, <2>2
<1>5. CASE (ScrubBlank \/ ScrubWipe \/ ScrubEnd \/ ScrubCondemn) /\ ~UNCHANGED tag
  <2>1. Scrubbing
    BY <1>5 DEF ScrubBlank, ScrubWipe, ScrubEnd, ScrubCondemn, Scrubbing
  <2>2. /\ cp.src # cp.dst /\ tag[cp.src] \in {Free, tag[cp.dst]}
    BY <2>1 DEF MapInv, CopyUnderWay
  <2>3. \E t \in {Free, Bad} : tag' = [tag EXCEPT ![cp.src] = t]
    <3>1. CASE ScrubCondemn
      BY <1>0, <1>5, <3>1, MarkedTag DEF ScrubCondemn, FtlShape
    <3> QED
      BY <1>5, <3>1 DEF ScrubBlank, ScrubWipe, ScrubEnd, Erased
  <2> QED
    BY <1>0, <2>2, <2>3, BlockNumbers
<1>6. CASE CopyEnd /\ UNCHANGED flash
  BY <1>1, <1>6
<1>7. CASE CopyFind \/ ScrubZero \/ WriteNoBlock \/ WriteInPlace \/ WriteInPlaceFails
           \/ WriteByCopy \/ WriteCompareFails \/ ReadNoBlock \/ ReadOk \/ ReadFails
           \/ ReadMoves \/ ReturnOk \/ PowerCut \/ FTL_Init
  BY <1>1, <1>7
  DEF CopyFind, ScrubZero, WriteNoBlock, WriteInPlace, WriteInPlaceFails, WriteByCopy,
      WriteCompareFails, ReadNoBlock, ReadOk, ReadFails, ReadMoves, ReturnOk, PowerCut,
      FTL_Init
<1>8. CASE \/ \E s \in Sector, n \in 1 .. MaxCount :
                 \/ ReadSectors(s, n)
                 \/ \E buf \in [1 .. n -> Val] : WriteSectors(s, buf)
           \/ \E x \in Block, o \in Off, kind \in {"flip", "stuck"} : SectorWears(x, o, kind)
  BY <1>1, <1>8 DEF ReadSectors, WriteSectors, SectorWears
<1>9. CASE UNCHANGED vars
  BY <1>1, <1>9 DEF vars
<1>10. ~ Erasing /\ ~ Marking
  BY DEF FormatErase, Erasing, FormatEraseLate, FormatErased, FormatMark, Marking,
         FormatSkip, FormatEnd, NumberingOn
<1>11. CASE CopyEnd /\ ~ UNCHANGED flash
  BY <1>4, <1>11 DEF CopyEnd
<1>12. CASE (ScrubBlank \/ ScrubWipe \/ ScrubEnd \/ ScrubCondemn) /\ UNCHANGED tag
  BY <1>1, <1>12
<1>13. CASE (CopyPage \/ CopyPageFails) /\ ~ CopiedPage
  BY <1>1, <1>13 DEF CopyPage, CopyPageFails
<1> QED
  BY <1>2, <1>3, <1>5, <1>6, <1>7, <1>8, <1>9, <1>10, <1>11, <1>12, <1>13
  DEF Next, Code, Erasing, Marking, Environment, Requests

\* ftl.c: once FTL_Format has numbered a block, every later step leaves a block that
\* carries the number; only another FTL_Format may give it up.  Here too the copy that a
\* read makes of a worn block must get a spare block: without one FTL_ReadSectors erases
\* the block it could not copy.  And here too no bad-block mark may have reached the
\* second page of a free block only.
THEOREM NumbersAlwaysKept == Spec /\ []SpareFound => NumbersKept
<1>1. FtlShape /\ MapSafe /\ SpareFound /\ [Next]_vars
          => [halved' \/ call.op \in {"erase", "mark"} \/ Numbered \subseteq Numbered']_vars
  BY NumbersStep, HalvedStays DEF MapSafe
<1> QED
  BY <1>1, FtlShapeAlways, MapStart, MapSafeStep, PTL DEF Spec, NumbersKept

-----------------------------------------------------------------------------
(* A chip that does not wear.                                                *)

LEMMA SpentStep == SpentType /\ [Next]_vars => SpentType'
<1> SUFFICES ASSUME SpentType, [Next]_vars
             PROVE  SpentType'
  OBVIOUS
<1>1. \/ UNCHANGED spent
      \/ spent' = [spent EXCEPT !.faults = @ + 1]
      \/ spent' = [spent EXCEPT !.cuts = @ + 1]
      \/ spent' = [spent EXCEPT !.wears = @ + 1]
  BY DEF Next, Code, Erasing, Marking, Environment, Requests, Fault, Fails, FTL_Init,
         FormatErase, FormatEraseLate, FormatErased, FormatMark, FormatSkip, FormatEnd,
         NumberingOn, CopyFind, CopyPage, CopyPageFails, CopyBad, CopyEnd,
         WriteNoBlock, WriteInPlace, WriteInPlaceFails, WriteByCopy, WriteCompareFails,
         ReadNoBlock, ReadOk, ReadFails, ReadMoves, ScrubBlank, ScrubWipe, ScrubZero,
         ScrubEnd, ScrubCondemn, ReturnOk, ReadSectors, WriteSectors, PowerCut,
         SectorWears, vars, env
<1> QED
  BY <1>1 DEF SpentType

LEMMA WearKept ==
    ASSUME FtlShape, NoWear, SpentType, MaxWears = 0, [Next]_vars
    PROVE  \A b \in Block, o \in Off : wear'[b][o] = "ok"
<1> SUFFICES ASSUME NEW b \in Block, NEW o \in Off
             PROVE  wear'[b][o] = "ok"
  OBVIOUS
<1> USE DEF flash, ram, env
<1>0. /\ wear \in [Block -> [Off -> {"ok", "flip", "stuck"}]] /\ wear[b][o] = "ok"
      /\ cp.src \in Block /\ cp.dst \in Block
  BY CopyFields DEF NoWear, FtlShape, FlashType
<1>1. CASE UNCHANGED wear
  BY <1>0, <1>1
<1>2. CASE \E c \in Block : Blanked(c)
  BY <1>0, <1>2 DEF Blanked, NoWear
<1>3. CASE CopiedPage
  <2> DEFINE row == [x \in Off |->
                       IF /\ InPage(x, cp.page) /\ ~ Overlaid(x)
                          /\ wear[cp.src][x] # "ok" /\ wear[cp.dst][x] = "ok"
                       THEN "flip" ELSE wear[cp.dst][x]]
  <2>1. wear' = [wear EXCEPT ![cp.dst] = row]
    BY <1>3 DEF CopiedPage
  <2>2. wear[cp.src][o] = "ok" /\ wear[cp.dst][o] = "ok"
    BY <1>0 DEF NoWear
  <2>3. row[o] = "ok"
    BY <2>2
  <2> HIDE DEF row
  <2> QED
    BY <1>0, <2>1, <2>3
<1>4. CASE Erasing
  <2>1. FormatErase \/ FormatEraseLate => call.i \in Block
    BY CallFields, BlockNumbers DEF FormatErase, FormatEraseLate, FtlShape
  <2>2. CASE FormatErase
    BY <1>1, <1>2, <2>1, <2>2 DEF FormatErase, Erased
  <2>3. CASE FormatEraseLate
    BY <1>2, <2>1, <2>3 DEF FormatEraseLate
  <2>4. CASE FormatErased
    BY <1>1, <2>4 DEF FormatErased
  <2> QED
    BY <1>4, <2>2, <2>3, <2>4 DEF Erasing
<1>5. CASE CopyPage \/ CopyPageFails \/ CopyEnd \/ ScrubBlank \/ ScrubWipe \/ ScrubEnd
  BY <1>0, <1>1, <1>2, <1>3, <1>5
  DEF CopyPage, CopyPageFails, CopyEnd, ScrubBlank, ScrubWipe, ScrubEnd, Erased
<1>6. CASE FTL_Init \/ Marking \/ CopyFind \/ CopyBad \/ WriteNoBlock \/ WriteInPlace
           \/ WriteInPlaceFails \/ WriteByCopy \/ WriteCompareFails \/ ReadNoBlock
           \/ ReadOk \/ ReadFails \/ ReadMoves \/ ScrubZero \/ ScrubCondemn \/ ReturnOk
           \/ PowerCut
  BY <1>1, <1>6
  DEF FTL_Init, FormatMark, Marking, FormatSkip, FormatEnd, NumberingOn, CopyFind,
      CopyBad, WriteNoBlock, WriteInPlace, WriteInPlaceFails, WriteByCopy,
      WriteCompareFails, ReadNoBlock, ReadOk, ReadFails, ReadMoves, ScrubZero,
      ScrubCondemn, ReturnOk, PowerCut
<1>7. CASE \E s \in Sector, n \in 1 .. MaxCount :
              \/ ReadSectors(s, n)
              \/ \E buf \in [1 .. n -> Val] : WriteSectors(s, buf)
  BY <1>1, <1>7 DEF ReadSectors, WriteSectors
<1>8. ~ \E c \in Block, x \in Off, kind \in {"flip", "stuck"} : SectorWears(c, x, kind)
  BY DEF SectorWears, SpentType
<1>9. CASE UNCHANGED vars
  BY <1>1, <1>9 DEF vars
<1> QED
  BY <1>4, <1>5, <1>6, <1>7, <1>8, <1>9 DEF Next, Code, Erasing, Marking, Environment,
            Requests

LEMMA ReadsNoCopy ==
    ASSUME FtlShape, NoWear, [Next]_vars
    PROVE  call'.op = "read" => cp'.pc = "none"
<1> USE DEF flash, ram, env
<1>1. ~ ReadMoves
  <2> SUFFICES ASSUME Reading, PBN # NoBlk
               PROVE  ReadClean
    BY DEF ReadMoves
  <2>1. /\ BlkOff \in Off /\ PBN \in Block
        /\ ReadLen \in Nat /\ ReadLen <= ToPageEnd /\ ToPageEnd \in Nat
        /\ ToPageEnd <= SecPerBlk - BlkOff
    BY Place, Parts DEF Reading, ReadLen, FtlShape
  <2>2. \A o \in BlkOff .. (BlkOff + ReadLen - 1) : o \in Off
    BY <2>1, BlockSize DEF Off
  <2> QED
    BY <2>1, <2>2 DEF ReadClean, NoWear
<1>2. CASE cp' = NoCopy \/ (cp.pc = "none" /\ UNCHANGED cp)
  BY <1>2 DEF NoCopy
<1>3. CASE call.op # "read" /\ UNCHANGED call
  BY <1>3
<1>4. CASE CopyFind \/ CopyPage \/ CopyPageFails \/ CopyBad \/ CopyEnd \/ ScrubBlank
           \/ ScrubWipe \/ ScrubZero
  <2>1. cp.pc # "none" /\ call.op # "read"
    BY <1>4
    DEF CopyFind, CopyPage, CopyPageFails, CopyBad, CopyEnd, ScrubBlank, ScrubWipe,
        ScrubZero, NoWear
  <2> QED
    BY <1>2, <1>3, <1>4, <2>1
    DEF CopyFind, CopyPage, CopyPageFails, CopyBad, CopyEnd, ScrubBlank, ScrubWipe,
        ScrubZero
<1>5. CASE WriteInPlaceFails \/ WriteByCopy
  BY <1>3, <1>5 DEF WriteInPlaceFails, WriteByCopy, Writing
<1>6. CASE ScrubEnd \/ ScrubCondemn \/ PowerCut
  BY <1>2, <1>6 DEF ScrubEnd, ScrubCondemn, PowerCut
<1>7. CASE FTL_Init \/ Erasing \/ Marking
  BY <1>2, <1>7 DEF FTL_Init, FormatErase, Erasing, FormatEraseLate, FormatErased,
            FormatMark, Marking, FormatSkip, FormatEnd, NumberingOn, FtlShape, InCall
<1>8. CASE WriteNoBlock \/ WriteInPlace \/ WriteCompareFails \/ ReadNoBlock \/ ReadOk
           \/ ReadFails \/ ReturnOk
  BY <1>2, <1>8
  DEF WriteNoBlock, WriteInPlace, WriteCompareFails, ReadNoBlock, ReadOk, ReadFails,
      ReturnOk, Writing, Reading
<1>9. CASE \/ \E s \in Sector, n \in 1 .. MaxCount :
                 \/ ReadSectors(s, n)
                 \/ \E buf \in [1 .. n -> Val] : WriteSectors(s, buf)
           \/ \E b \in Block, o \in Off, kind \in {"flip", "stuck"} : SectorWears(b, o, kind)
  BY <1>2, <1>9 DEF ReadSectors, WriteSectors, SectorWears, FtlShape, InCall
<1>10. CASE UNCHANGED vars
  BY <1>10 DEF vars, NoWear
<1> QED
  BY <1>1, <1>4, <1>5, <1>6, <1>7, <1>8, <1>9, <1>10
  DEF Next, Code, Erasing, Marking, Environment, Requests

LEMMA NoWearAlways ==
    ASSUME MaxWears = 0
    PROVE  Spec => [](SpentType /\ NoWear)
<1>1. Init => SpentType /\ NoWear
  <2> SUFFICES ASSUME Init
               PROVE  SpentType /\ NoWear
    OBVIOUS
  <2>1. SpentType
    BY DEF Init, SpentType
  <2>2. \A b \in Block, o \in Off : wear[b][o] = "ok"
    BY DEF Init
  <2>3. call.op = "off"
    BY DEF Init, PoweredOff, Call
  <2> QED
    BY <2>1, <2>2, <2>3 DEF NoWear
<1>2. FtlShape /\ SpentType /\ NoWear /\ [Next]_vars => (SpentType /\ NoWear)'
  BY SpentStep, WearKept, ReadsNoCopy DEF NoWear
<1> QED
  BY <1>1, <1>2, FtlShapeAlways, PTL DEF Spec

LEMMA NoWearSpare == FtlShape /\ NoWear => SpareFound
BY DEF NoWear, SpareFound

\* ftl.c, on a chip whose sectors do not wear: the table and the flash agree and no
\* number is lost, through every failed page, failed erase and power cut, until a
\* bad-block mark reaches the second page of a free block only.
THEOREM MapAgreesUnworn ==
    ASSUME MaxWears = 0
    PROVE  Spec => []MapAgrees /\ NumbersKept
BY NoWearAlways, NoWearSpare, FtlShapeAlways, MapAlwaysAgrees, NumbersAlwaysKept, PTL

-----------------------------------------------------------------------------
(* The numbers that FTL_Format gives.                                        *)

LEMMA FormatEraseNumbers ==
    ASSUME FtlShape, FormatNumbers, ~ Fails, Erasing
    PROVE  FormatNumbers'
<1> USE DEF flash, ram, env
<1>1. /\ call.op = "erase" /\ call.i \in Nat /\ call.i <= NBlocks /\ call \in CallRec
  BY CallFields DEF Erasing, FormatErase, FormatEraseLate, FormatErased, FtlShape,
                    FormatCounts, CallType
<1>2. \A b \in Block : b < call.i => tag[b] \notin Block
  BY <1>1 DEF FormatNumbers
<1>3. CASE FormatErase
  <2>1. /\ call.i < NBlocks
        /\ \/ call' = [call EXCEPT !.i = @ + 1]
           \/ call' = [call EXCEPT !.i = @ + 1, !.at = @ + 1]
    BY <1>3 DEF FormatErase
  <2>2. call'.op = "erase" /\ call'.i = call.i + 1
    BY <1>1, <2>1 DEF CallRec
  <2>3. call.i \in Block /\ tag \in [Block -> Tags]
    BY <1>1, <2>1, BlockNumbers DEF FtlShape, FlashType
  <2>4. \/ tag[call.i] \in {Bad, HalfBad} /\ tag' = tag
        \/ tag' = [tag EXCEPT ![call.i] = Free]
    BY <1>3 DEF FormatErase, IsBad, Erased
  <2>5. tag'[call.i] \notin Block /\ \A b \in Block \ {call.i} : tag'[b] = tag[b]
    BY <2>3, <2>4, BlockNumbers
  <2>6. \A b \in Block : b < call.i + 1 => b < call.i \/ b = call.i
    BY <1>1, BlockNumbers
  <2> QED
    BY <1>2, <2>2, <2>5, <2>6 DEF FormatNumbers
<1>4. CASE FormatErased
  <2>1. call.i = NBlocks /\ \E op \in {"dead", "mark"} : call' = [call EXCEPT !.i = 0, !.op = op]
    BY <1>4 DEF FormatErased
  <2>2. call'.op \in {"dead", "mark"} /\ call'.i = 0 /\ UNCHANGED tag
    BY <1>1, <1>4, <2>1 DEF FormatErased, CallRec
  <2>3. \A b \in Block : b < call.i /\ ~ (b < 0)
    BY <1>1, <2>1, BlockNumbers
  <2> QED
    BY <1>2, <2>2, <2>3 DEF FormatNumbers
<1> QED
  BY <1>3, <1>4 DEF Erasing, FormatEraseLate

\* A turn of the second loop: the next number, or a bad block passed over.
LEMMA MarkTurn ==
    ASSUME FtlShape, ~ Fails, Marking
    PROVE  /\ call.op = "mark" /\ cp.pc = "none" /\ UNCHANGED <<cp, cell, wear>>
           /\ call.i \in Nat /\ call.n \in Nat /\ call.n <= call.i /\ call.i <= NBlocks
           /\ tag \in [Block -> Tags]
           /\ \/ /\ Rebuild(tag) /\ UNCHANGED tag /\ call'.op \in {"dead", "idle"}
                 /\ call.i < NBlocks => call.n = Goodblock(call.at)
              \/ /\ call.i \in Block /\ call.n \in Block /\ ~ IsBad(call.i)
                 /\ \E l \in Block : /\ l <= call.n /\ (tag[call.i] = Free => l = call.n)
                                     /\ tag' = [tag EXCEPT ![call.i] = l]
                 /\ call'.op = "mark" /\ call'.i = call.i + 1 /\ call'.n = call.n + 1
              \/ /\ call.i \in Block /\ IsBad(call.i) /\ UNCHANGED tag
                 /\ call'.op = "mark" /\ call'.i = call.i + 1 /\ call'.n = call.n
<1> USE DEF flash, ram, env
<1>1. /\ cp.pc = "none" /\ UNCHANGED <<cp, cell, wear>> /\ call.op = "mark"
      /\ call.i \in Nat /\ call.n \in Nat /\ call.n <= call.i /\ call.i <= NBlocks
      /\ call \in CallRec /\ tag \in [Block -> Tags]
  BY CallFields DEF Marking, FormatMark, FormatSkip, FormatEnd, NumberingOn, FtlShape,
                    InCall, FormatCounts, CallType, FlashType
<1>2. CASE FormatEnd
  <2>1. call'.op \in {"dead", "idle"} /\ Rebuild(tag) /\ UNCHANGED tag
    BY <1>2 DEF FormatEnd, Call
  <2>2. call.i < NBlocks => call.n = Goodblock(call.at)
    BY <1>1, <1>2 DEF FormatEnd, NumberingOn
  <2> QED
    BY <1>1, <2>1, <2>2
<1>3. CASE FormatMark
  <2>1. /\ call.i \in Block /\ call.n \in Block /\ ~ IsBad(call.i)
        /\ \E l \in Block : /\ l <= call.n /\ (tag[call.i] = Free => l = call.n)
                            /\ tag' = [tag EXCEPT ![call.i] = l]
    BY <1>3, NumberWritten DEF Fault, FtlShape
  <2>2. call' = [call EXCEPT !.i = @ + 1, !.n = @ + 1]
    BY <1>3 DEF FormatMark
  <2>3. call'.op = "mark" /\ call'.i = call.i + 1 /\ call'.n = call.n + 1
    BY <1>1, <2>2 DEF CallRec
  <2> QED
    BY <1>1, <2>1, <2>3
<1>4. CASE FormatSkip
  <2>1. /\ call.i < NBlocks /\ IsBad(call.i) /\ UNCHANGED tag
        /\ call' = [call EXCEPT !.i = @ + 1]
    BY <1>4 DEF FormatSkip, NumberingOn
  <2>2. call'.op = "mark" /\ call'.i = call.i + 1 /\ call'.n = call.n
    BY <1>1, <2>1 DEF CallRec
  <2>3. call.i \in Block
    BY <1>1, <2>1, BlockNumbers
  <2> QED
    BY <1>1, <2>1, <2>2, <2>3
<1> QED
  BY <1>2, <1>3, <1>4 DEF Marking

LEMMA FormatMarkNumbers ==
    ASSUME FtlShape, FormatNumbers, ~ Fails, Marking
    PROVE  FormatNumbers'
<1>1. /\ call.op = "mark" /\ call.i \in Nat /\ call.n \in Nat /\ tag \in [Block -> Tags]
  BY MarkTurn
<1>2. \A b \in Block : IF b < call.i THEN tag[b] < call.n ELSE tag[b] \notin Block
  BY <1>1 DEF FormatNumbers
<1>3. /\ \A b \in Block : b < call.i + 1 <=> b < call.i \/ b = call.i
      /\ \A b \in Block : tag[b] \in Int
  BY <1>1, BlockNumbers DEF Tags, Free, Bad, HalfBad
<1>4. CASE call'.op \in {"dead", "idle"}
  BY <1>4 DEF FormatNumbers
<1>5. ASSUME call.i \in Block, NEW l \in Block, l <= call.n,
             tag' = [tag EXCEPT ![call.i] = l], call'.op = "mark",
             call'.i = call.i + 1, call'.n = call.n + 1
      PROVE  FormatNumbers'
  <2> SUFFICES ASSUME NEW b \in Block
               PROVE  IF b < call.i + 1 THEN tag'[b] < call.n + 1 ELSE tag'[b] \notin Block
    BY <1>5 DEF FormatNumbers
  <2>1. tag'[call.i] = l /\ (b # call.i => tag'[b] = tag[b])
    BY <1>1, <1>5
  <2>2. CASE b = call.i
    <3>1. l \in Int /\ l < call.n + 1 /\ b < call.i + 1
      BY <1>1, <1>5, <2>2, BlockNumbers
    <3> QED
      BY <2>1, <2>2, <3>1
  <2>3. CASE b # call.i
    <3>1. tag'[b] = tag[b] /\ tag[b] \in Int /\ (b < call.i + 1 <=> b < call.i)
      BY <1>3, <2>1, <2>3
    <3>2. IF b < call.i THEN tag[b] < call.n ELSE tag[b] \notin Block
      BY <1>2
    <3> QED
      BY <1>1, <3>1, <3>2
  <2> QED
    BY <2>2, <2>3
<1>6. ASSUME call.i \in Block, IsBad(call.i), UNCHANGED tag,
             call'.op = "mark", call'.i = call.i + 1, call'.n = call.n
      PROVE  FormatNumbers'
  <2>1. tag[call.i] < call.n
    BY <1>1, <1>6 DEF IsBad, Bad, HalfBad
  <2> QED
    BY <1>2, <1>3, <1>6, <2>1 DEF FormatNumbers
<1> QED
  BY <1>4, <1>5, <1>6, MarkTurn

\* FTL_Init, the two loops of FTL_Format, and the calls on a mounted disk.
LEMMA Stages ==
    ASSUME FtlShape, [Next]_vars
    PROVE  \/ FTL_Init \/ Erasing \/ Marking \/ PowerCut \/ UNCHANGED vars
           \/ Mounted /\ Mounted' /\ UNCHANGED size /\ (UNCHANGED valid \/ Rebuild(tag'))
<1> USE DEF flash, ram, env
<1>1. CASE CopyFind \/ CopyPage \/ CopyPageFails \/ CopyBad \/ CopyEnd \/ ScrubBlank
           \/ ScrubWipe \/ ScrubZero \/ ScrubEnd \/ ScrubCondemn \/ WriteNoBlock
           \/ WriteInPlace \/ WriteInPlaceFails \/ WriteByCopy \/ WriteCompareFails
           \/ ReadNoBlock \/ ReadOk \/ ReadFails \/ ReadMoves \/ ReturnOk
  <2>1. call.op \in {"write", "read"} /\ call \in CallRec
    BY <1>1
    DEF CopyFind, CopyPage, CopyPageFails, CopyBad, CopyEnd, ScrubBlank, ScrubWipe,
        ScrubZero, ScrubEnd, ScrubCondemn, WriteNoBlock, WriteInPlace, WriteInPlaceFails,
        WriteByCopy, WriteCompareFails, ReadNoBlock, ReadOk, ReadFails, ReadMoves,
        ReturnOk, Writing, Reading, FtlShape, InCall, CallType
  <2>2. call' = call \/ (\E k : call' = Done(k)) \/ \E r : call' = Answer(r)
    BY <1>1
    DEF CopyFind, CopyPage, CopyPageFails, CopyBad, CopyEnd, ScrubBlank, ScrubWipe,
        ScrubZero, ScrubEnd, ScrubCondemn, WriteNoBlock, WriteInPlace, WriteInPlaceFails,
        WriteByCopy, WriteCompareFails, ReadNoBlock, ReadOk, ReadFails, ReadMoves, ReturnOk
  <2>3. call'.op \in {"write", "read", "idle"}
    BY <2>1, <2>2 DEF Done, Answer, CallRec
  <2>4. UNCHANGED valid \/ Rebuild(tag')
    BY <1>1
    DEF CopyFind, CopyPage, CopyPageFails, CopyBad, CopyEnd, ScrubBlank, ScrubWipe,
        ScrubZero, ScrubEnd, ScrubCondemn, WriteNoBlock, WriteInPlace, WriteInPlaceFails,
        WriteByCopy, WriteCompareFails, ReadNoBlock, ReadOk, ReadFails, ReadMoves, ReturnOk
  <2>5. UNCHANGED size
    BY <1>1
    DEF CopyFind, CopyPage, CopyPageFails, CopyBad, CopyEnd, ScrubBlank, ScrubWipe,
        ScrubZero, ScrubEnd, ScrubCondemn, WriteNoBlock, WriteInPlace, WriteInPlaceFails,
        WriteByCopy, WriteCompareFails, ReadNoBlock, ReadOk, ReadFails, ReadMoves,
        ReturnOk, Fault, BadBlockMark, MarkFails
  <2> QED
    BY <2>1, <2>3, <2>4, <2>5 DEF Mounted
<1>2. CASE \/ \E s \in Sector, n \in 1 .. MaxCount :
                 \/ ReadSectors(s, n)
                 \/ \E buf \in [1 .. n -> Val] : WriteSectors(s, buf)
           \/ \E b \in Block, o \in Off, kind \in {"flip", "stuck"} : SectorWears(b, o, kind)
  BY <1>2 DEF ReadSectors, WriteSectors, SectorWears, Call, Mounted
<1> QED
  BY <1>1, <1>2 DEF Next, Code, Erasing, Marking, Environment, Requests

LEMMA FormatNumbersStep ==
    ASSUME FtlShape, FormatNumbers, ~ Fails, [Next]_vars
    PROVE  FormatNumbers'
<1>1. CASE Erasing \/ Marking
  BY <1>1, FormatEraseNumbers, FormatMarkNumbers
<1>2. CASE FTL_Init
  <2>1. call'.op \in {"erase", "idle"} /\ call'.i = 0
    BY <1>2 DEF FTL_Init, Call
  <2>2. \A b \in Block : ~ (b < 0)
    BY BlockNumbers
  <2> QED
    BY <2>1, <2>2 DEF FormatNumbers
<1>3. CASE PowerCut
  BY <1>3 DEF PowerCut, PoweredOff, Call, FormatNumbers
<1>4. CASE Mounted'
  BY <1>4 DEF FormatNumbers, Mounted
<1>5. CASE UNCHANGED vars
  BY <1>5 DEF vars, FormatNumbers
<1> QED
  BY <1>1, <1>2, <1>3, <1>4, <1>5, Stages

LEMMA FormatNumbersStart == Init => FormatNumbers
BY DEF Init, PoweredOff, Call, FormatNumbers

-----------------------------------------------------------------------------
(* A chip on which nothing fails, with the power on.                         *)

Owners == OneOwner /\ AllMapped /\ NoBadCopy
Sound == MaxFaults = 0 /\ MaxCuts = 0

LEMMA NothingFails ==
    ASSUME SpentType, Sound
    PROVE  ~ Fails /\ ~ PowerCut
BY DEF SpentType, Sound, Fails, Unbounded, PowerCut

\* Then every bad-block mark is made.
LEMMA NothingHalved ==
    ASSUME ~ Fails, ~ halved, [Next]_vars
    PROVE  ~ halved'
<1> USE DEF flash, ram, env
<1>1. CASE FormatErase \/ CopyBad \/ ScrubCondemn
  <2>1. UNCHANGED halved \/ BadBlockMark(call.i) \/ BadBlockMark(cp.dst) \/ BadBlockMark(cp.src)
    BY <1>1 DEF FormatErase, CopyBad, ScrubCondemn
  <2> QED
    BY <2>1 DEF BadBlockMark
<1>2. CASE FTL_Init \/ FormatErased \/ FormatMark \/ FormatSkip \/ FormatEnd \/ CopyFind
           \/ CopyPage \/ CopyPageFails \/ CopyEnd \/ WriteNoBlock \/ WriteInPlace
           \/ WriteInPlaceFails \/ WriteByCopy \/ WriteCompareFails \/ ReadNoBlock \/ ReadOk
           \/ ReadFails \/ ReadMoves \/ ScrubBlank \/ ScrubWipe \/ ScrubZero \/ ScrubEnd
           \/ ReturnOk \/ PowerCut
  <2>1. UNCHANGED halved
    BY <1>2
    DEF FTL_Init, FormatErased, FormatMark, FormatSkip, FormatEnd, CopyFind, CopyPage,
        CopyPageFails, CopyEnd, WriteNoBlock, WriteInPlace, WriteInPlaceFails, WriteByCopy,
        WriteCompareFails, ReadNoBlock, ReadOk, ReadFails, ReadMoves, ScrubBlank,
        ScrubWipe, ScrubZero, ScrubEnd, ReturnOk, PowerCut, Fault
  <2> QED
    BY <2>1
<1>3. CASE \/ \E s \in Sector, n \in 1 .. MaxCount :
                 \/ ReadSectors(s, n)
                 \/ \E buf \in [1 .. n -> Val] : WriteSectors(s, buf)
           \/ \E x \in Block, o \in Off, kind \in {"flip", "stuck"} : SectorWears(x, o, kind)
  <2>1. UNCHANGED halved
    BY <1>3 DEF ReadSectors, WriteSectors, SectorWears
  <2> QED
    BY <2>1
<1>4. CASE UNCHANGED vars
  BY <1>4 DEF vars
<1>5. ~ FormatEraseLate
  BY DEF FormatEraseLate
<1> QED
  BY <1>1, <1>2, <1>3, <1>4, <1>5 DEF Next, Code, Environment, Requests

LEMMA MapSoundStep ==
    FtlShape /\ MapInv /\ SpentType /\ Sound /\ SpareFound /\ [Next]_vars => MapInv'
BY MapStep, NothingFails, NothingHalved DEF MapInv

\* Between two copies the numbers are all different.
NoneTwice == \A b, c \in Block : tag[b] \in Block /\ tag[b] = tag[c] => b = c

\* FTL_CreateLUT finds every block that carries a number.
LEMMA AllFound ==
    ASSUME NoneTwice', Rebuild(tag')
    PROVE  \A b \in Block : tag'[b] \in Block => lut'[tag'[b]] = b
BY TableOf DEF Rebuild, NoneTwice

LEMMA NoSecond ==
    ASSUME OneOwner, ~ (cp.pc = "page" /\ cp.page > 0)
    PROVE  NoneTwice
BY DEF OneOwner, NoneTwice, Source, Target

\* The tags and the table are the same, and no page of a copy is done.
LEMMA SameOwners ==
    ASSUME Owners, UNCHANGED <<tag, lut>>, Mounted, call'.op \in {"idle", "write", "read"},
           ~ (cp.pc = "page" /\ cp.page > 0), ~ (cp'.pc = "page" /\ cp'.page > 0),
           cp'.pc # "bad"
    PROVE  Owners'
BY DEF Owners, OneOwner, AllMapped, NoBadCopy, Source, Target, Mounted

LEMMA OwnersFormatErase ==
    ASSUME FtlShape, Owners, ~ Fails, Erasing
    PROVE  Owners'
<1>1. /\ cp.pc = "none" /\ UNCHANGED cp /\ call.op = "erase" /\ call.i \in Nat
      /\ call \in CallRec /\ tag \in [Block -> Tags]
  BY CallFields DEF Erasing, FormatErase, FormatEraseLate, FormatErased, FtlShape, InCall,
                    CallType, FlashType
<1>2. NoneTwice
  BY <1>1, NoSecond DEF Owners
<1>6. FormatErase \/ FormatErased
  BY DEF Erasing, FormatEraseLate
<1>3. ~ Mounted'
  <2>1. \/ call' = [call EXCEPT !.i = @ + 1]
        \/ call' = [call EXCEPT !.i = @ + 1, !.at = @ + 1]
        \/ \E op \in {"dead", "mark"} : call' = [call EXCEPT !.i = 0, !.op = op]
    BY <1>6 DEF FormatErase, FormatErased
  <2> QED
    BY <1>1, <2>1 DEF CallRec, Mounted
<1>4. tag' = tag \/ (call.i \in Block /\ tag' = [tag EXCEPT ![call.i] = Free])
  BY <1>1, <1>6, BlockNumbers DEF FormatErase, FormatErased, Erased, flash
<1>5. OneOwner'
  BY <1>1, <1>2, <1>4, BlockNumbers DEF OneOwner, NoneTwice
<1> QED
  BY <1>1, <1>3, <1>5 DEF Owners, AllMapped, NoBadCopy

LEMMA OwnersFormatMark ==
    ASSUME FtlShape, FormatNumbers, Owners, ~ Fails, Marking
    PROVE  Owners'
<1>1. /\ cp.pc = "none" /\ UNCHANGED cp /\ call.op = "mark" /\ call.i \in Nat
      /\ call.n \in Nat /\ tag \in [Block -> Tags]
  BY MarkTurn
<1>2. /\ NoneTwice
      /\ \A b \in Block : tag[b] # call.n \/ call.n \notin Block
      /\ call.i \in Block => tag[call.i] \notin Block
  <2>1. \A b \in Block : IF b < call.i THEN tag[b] < call.n ELSE tag[b] \notin Block
    BY <1>1 DEF FormatNumbers
  <2> QED
    BY <1>1, <2>1, NoSecond DEF Owners
<1>3. CASE Rebuild(tag) /\ UNCHANGED tag
  <2>1. NoneTwice' /\ Rebuild(tag')
    BY <1>2, <1>3 DEF NoneTwice
  <2>2. \A b \in Block : tag'[b] \in Block => lut'[tag'[b]] = b
    BY <2>1, AllFound
  <2> QED
    BY <1>1, <2>1, <2>2 DEF Owners, OneOwner, NoneTwice, AllMapped, NoBadCopy
<1>4. ASSUME call.i \in Block, call.n \in Block, ~ IsBad(call.i), NEW l \in Block,
             tag[call.i] = Free => l = call.n, tag' = [tag EXCEPT ![call.i] = l]
      PROVE  OneOwner'
  <2>1. tag[call.i] = Free
    BY <1>1, <1>2, <1>4 DEF IsBad, Tags
  <2> QED
    BY <1>1, <1>2, <1>4, <2>1 DEF OneOwner, NoneTwice
<1>5. ASSUME UNCHANGED tag
      PROVE  OneOwner'
  BY <1>2, <1>5 DEF OneOwner, NoneTwice
<1>6. ASSUME call'.op = "mark", OneOwner'
      PROVE  Owners'
  BY <1>1, <1>6 DEF Owners, AllMapped, Mounted, NoBadCopy
<1> QED
  BY <1>3, <1>4, <1>5, <1>6, MarkTurn

LEMMA OwnersInit ==
    ASSUME FtlShape, Owners, FTL_Init
    PROVE  Owners'
<1>1. cp.pc = "none" /\ UNCHANGED <<cp, tag>> /\ Rebuild(tag')
      /\ call'.op \in {"erase", "idle"} /\ call'.i = 0
  BY DEF FTL_Init, FtlShape, InCall, Call, flash
<1>2. NoneTwice
  BY <1>1, NoSecond DEF Owners
<1>3. NoneTwice'
  BY <1>1, <1>2 DEF NoneTwice
<1>4. \A b \in Block : tag'[b] \in Block => lut'[tag'[b]] = b
  BY <1>1, <1>3, AllFound
<1> QED
  BY <1>1, <1>3, <1>4
  DEF Owners, OneOwner, NoneTwice, AllMapped, NoBadCopy

\* After the first page of a copy two blocks carry the number, and only they.
LEMMA OwnersCopyPage ==
    ASSUME FtlShape, MapInv, Owners, CopyPage
    PROVE  Owners'
<1>1. /\ UNCHANGED <<lut, call>> /\ cp.pc = "page" /\ CopiedPage
      /\ call.op \in {"write", "read"} /\ cp.page \in Nat
      /\ cp.src \in Block /\ cp.dst \in Block
  BY CopyFields DEF CopyPage, ram, env, FtlShape, InCall
<1>2. cp'.src = cp.src /\ cp'.dst = cp.dst /\ cp'.pc = "page" /\ cp'.page = cp.page + 1
  <2> DEFINE c == Consumed(cp)
  <2>1. c \in CopyRec /\ c.src = cp.src /\ c.dst = cp.dst /\ c.page = cp.page
    BY ConsumedIs DEF FtlShape
  <2>2. c.pc = "page"
    BY <1>1 DEF Consumed, FtlShape, CopyType, CopyRec
  <2>3. cp' = [c EXCEPT !.page = c.page + 1]
    BY DEF CopyPage
  <2> HIDE DEF c
  <2> QED
    BY <2>1, <2>2, <2>3 DEF CopyRec
<1>3. /\ tag'[cp.dst] = tag[cp.src]
      /\ \A b \in Block \ {cp.dst} : tag'[b] = tag[b]
      /\ cp.dst # cp.src /\ tag[cp.src] \in Block
  BY <1>1, CopiedTags
<1>4. \A b \in Block : (Source(b))' <=> b = cp.src
  BY <1>1, <1>2 DEF Source
<1>5. \A b \in Block : (Target(b))' <=> b = cp.dst
  BY <1>1, <1>2 DEF Target
<1>6. ASSUME NEW b \in Block \ {cp.dst}, tag[b] = tag[cp.src]
      PROVE  b = cp.src
  BY <1>1, <1>3, <1>6 DEF Owners, OneOwner, Source, Target
<1>7. OneOwner'
  <2> SUFFICES ASSUME NEW b \in Block, NEW c \in Block, tag'[b] \in Block,
                      tag'[b] = tag'[c], b # c
               PROVE  (b = cp.src /\ c = cp.dst) \/ (c = cp.src /\ b = cp.dst)
    BY <1>4, <1>5 DEF OneOwner
  <2>1. CASE b = cp.dst
    BY <1>3, <1>6, <2>1
  <2>2. CASE c = cp.dst
    BY <1>3, <1>6, <2>2
  <2>3. CASE b # cp.dst /\ c # cp.dst
    BY <1>3, <2>3 DEF Owners, OneOwner, Target
  <2> QED
    BY <2>1, <2>2, <2>3
<1>8. AllMapped'
  <2>1. \A b \in Block \ {cp.dst} : tag[b] \in Block => lut[tag[b]] = b
    BY <1>1 DEF Owners, AllMapped, Mounted, Target
  <2> QED
    BY <1>1, <1>3, <1>5, <2>1 DEF AllMapped
<1> QED
  BY <1>1, <1>2, <1>7, <1>8 DEF Owners, NoBadCopy

\* The source gives up its number, and the table follows.
LEMMA OwnersCopyEnd ==
    ASSUME FtlShape, MapInv, Owners, ~ Fails, CopyEnd
    PROVE  Owners'
<1>1. /\ cp.src \in Block /\ cp.dst \in Block /\ cp.pc = "page" /\ cp.page > 0
      /\ call.op \in {"write", "read"} /\ lut \in [Block -> Block \cup {NoBlk}]
      /\ tag \in [Block -> Tags] /\ call \in CallRec /\ cp \in CopyRec
  BY CopyFields, BlockSize
  DEF CopyEnd, FtlShape, InCall, RamType, FlashType, CallType, CopyType
<1>2. cp.dst # cp.src /\ tag[cp.src] \in Block /\ tag[cp.dst] = tag[cp.src]
  BY <1>1, BlockSize DEF MapInv, CopyUnderWay
<1>3. tag' = [tag EXCEPT ![cp.src] = Free]
  BY DEF CopyEnd, Erased, Fault
<1>4. tag'[cp.src] \notin Block /\ \A b \in Block \ {cp.src} : tag'[b] = tag[b]
  BY <1>1, <1>3, BlockNumbers
<1>5. /\ call'.op \in {"write", "read"} /\ cp'.pc \in {"none", "scrub"}
  BY <1>1 DEF CopyEnd, Done, NoCopy, CallRec, CopyRec
<1>6. ASSUME NEW b \in Block, NEW c \in Block, tag'[b] \in Block, tag'[b] = tag'[c]
      PROVE  b = c
  <2>1. b # cp.src /\ c # cp.src /\ tag[b] = tag[c] /\ tag[b] \in Block
    BY <1>4, <1>6
  <2> QED
    BY <2>1 DEF Owners, OneOwner, Source
<1>7. /\ \A b \in Block \ {cp.dst} : tag[b] \in Block => lut[tag[b]] = b
  BY <1>1 DEF Owners, AllMapped, Mounted, Target
<1>8. lut[tag[cp.src]] = cp.src
  BY <1>1, <1>2, <1>7
<1>9. \A l \in Block : lut[l] = cp.src => l = tag[cp.src]
  BY <1>1, BlockNumbers DEF MapInv, MapAgrees, Mounted
<1>10. lut' = [lut EXCEPT ![tag[cp.src]] = cp.dst]
  <2>1. lut' = Redirected
    BY DEF CopyEnd
  <2> QED
    BY <1>2, <1>8, <1>9, <2>1, RedirectedIs DEF FtlShape
<1>11. ASSUME NEW b \in Block, tag'[b] \in Block
       PROVE  lut'[tag'[b]] = b
  <2>1. b # cp.src /\ tag'[b] = tag[b]
    BY <1>4, <1>11
  <2>2. CASE b = cp.dst
    BY <1>1, <1>2, <1>10, <2>1, <2>2
  <2>3. CASE b # cp.dst
    <3>1. tag[b] # tag[cp.src]
      BY <1>2, <2>1, <2>3, <1>8, <1>7, <1>11
    <3>2. lut'[tag[b]] = lut[tag[b]]
      BY <1>1, <1>10, <1>11, <2>1, <3>1
    <3> QED
      BY <1>7, <1>11, <2>1, <2>3, <3>2
  <2> QED
    BY <2>2, <2>3
<1> QED
  BY <1>5, <1>6, <1>11 DEF Owners, OneOwner, AllMapped, NoBadCopy

\* A block that is given up carries no number any more.
LEMMA OwnersScrub ==
    ASSUME FtlShape, MapInv, Owners, ~ Fails,
           ScrubBlank \/ ScrubWipe \/ ScrubZero \/ ScrubEnd \/ ScrubCondemn
    PROVE  Owners'
<1>1. /\ cp.src \in Block /\ cp.dst \in Block /\ Scrubbing /\ call \in CallRec
      /\ call.op = "read" /\ tag \in [Block -> Tags] /\ cp \in CopyRec
  BY CopyFields
  DEF ScrubBlank, ScrubWipe, ScrubZero, ScrubEnd, ScrubCondemn, Scrubbing, FtlShape,
      InCall, FlashType, CallType, CopyType
<1>2. ~ (cp.pc = "page" /\ cp.page > 0)
  BY <1>1 DEF Scrubbing
<1>3. NoneTwice
  BY <1>2, NoSecond DEF Owners
<1>4. tag[cp.src] \notin Block
  <2>1. cp.dst # cp.src /\ tag[cp.dst] \in Block /\ tag[cp.src] \in {Free, tag[cp.dst]}
    BY <1>1 DEF MapInv, CopyUnderWay
  <2> QED
    BY <1>1, <1>3, <2>1, BlockNumbers DEF NoneTwice
<1>5. \E t \in {Free, Bad} : tag' = [tag EXCEPT ![cp.src] = t] \/ tag' = tag
  BY DEF ScrubBlank, ScrubWipe, ScrubZero, ScrubEnd, ScrubCondemn, Erased, BadBlockMark,
         flash
<1>6. tag'[cp.src] \notin Block /\ \A b \in Block \ {cp.src} : tag'[b] = tag[b]
  BY <1>1, <1>4, <1>5, BlockNumbers
<1>7. NoneTwice'
  BY <1>3, <1>6 DEF NoneTwice
<1>8. /\ call'.op = "read" /\ cp'.pc \in {"none", "wipe", "zero", "condemn"}
  <2>1. call' = call \/ call' = Done(ReadLen)
    BY DEF ScrubBlank, ScrubWipe, ScrubZero, ScrubEnd, ScrubCondemn
  <2>2. \/ cp' = NoCopy
        \/ \E pc \in {"wipe", "condemn"} : cp' = [cp EXCEPT !.pc = pc]
        \/ cp' = [cp EXCEPT !.pc = "zero", !.page = 0]
        \/ cp' = [cp EXCEPT !.page = @ + 1] /\ cp.pc = "zero"
    BY DEF ScrubBlank, ScrubWipe, ScrubZero, ScrubEnd, ScrubCondemn
  <2>3. call'.op = "read"
    BY <1>1, <2>1 DEF Done, CallRec
  <2>4. cp'.pc \in {"none", "wipe", "zero", "condemn"}
    <3>1. CASE cp' = NoCopy \/ \E pc \in {"wipe", "condemn"} : cp' = [cp EXCEPT !.pc = pc]
      BY <1>1, <3>1 DEF NoCopy, CopyRec
    <3>2. CASE cp' = [cp EXCEPT !.pc = "zero", !.page = 0]
      BY <1>1, <3>2 DEF CopyRec
    <3>3. CASE cp' = [cp EXCEPT !.page = @ + 1] /\ cp.pc = "zero"
      BY <1>1, <3>3 DEF CopyRec
    <3> QED
      BY <2>2, <3>1, <3>2, <3>3
  <2> QED
    BY <2>3, <2>4
<1>9. \A b \in Block : tag'[b] \in Block => lut'[tag'[b]] = b
  <2>1. CASE UNCHANGED lut
    <3>1. \A b \in Block : tag[b] \in Block => lut[tag[b]] = b
      BY <1>1, <1>2 DEF Owners, AllMapped, Mounted, Target
    <3> QED
      BY <1>6, <2>1, <3>1
  <2>2. CASE Rebuild(tag')
    BY <1>7, <2>2, AllFound
  <2> QED
    BY <2>1, <2>2 DEF ScrubBlank, ScrubWipe, ScrubZero, ScrubEnd, ScrubCondemn, ram,
            env
<1> QED
  BY <1>7, <1>8, <1>9
  DEF Owners, OneOwner, NoneTwice, AllMapped, NoBadCopy

LEMMA OwnersStep ==
    ASSUME FtlShape, MapInv, FormatNumbers, Owners, SpentType, Sound, SpareFound, [Next]_vars
    PROVE  Owners'
<1>0. ~ Fails /\ ~ PowerCut
  BY NothingFails
<1> USE DEF flash, ram, env
<1>1. CASE FTL_Init \/ Erasing \/ Marking
  BY <1>0, <1>1, OwnersInit, OwnersFormatErase, OwnersFormatMark
<1>2. CASE CopyPage \/ CopyEnd \/ ScrubBlank \/ ScrubWipe \/ ScrubZero \/ ScrubEnd
           \/ ScrubCondemn
  BY <1>0, <1>2, OwnersCopyPage, OwnersCopyEnd, OwnersScrub
<1>3. CASE CopyFind
  <2>1. /\ UNCHANGED <<tag, lut>> /\ cp.pc = "find" /\ call.op \in {"write", "read"}
        /\ call \in CallRec /\ cp \in CopyRec
    BY <1>3 DEF CopyFind, FtlShape, InCall, CallType, CopyType
  <2>2. call'.op \in {"idle", "write", "read"}
    <3>1. call' = call \/ call' = Answer(3)
      BY <1>3 DEF CopyFind
    <3> QED
      BY <2>1, <3>1 DEF Answer, CallRec
  <2>3. ~ (cp'.pc = "page" /\ cp'.page > 0) /\ cp'.pc # "bad"
    <3>1. \/ cp' = [cp EXCEPT !.pc = "page", !.dst = FindSamePlane(cp.src), !.page = 0]
          \/ cp' = NoCopy
          \/ cp' = [cp EXCEPT !.pc = "scrub"]
      BY <1>3 DEF CopyFind
    <3>2. CASE cp' = [cp EXCEPT !.pc = "page", !.dst = FindSamePlane(cp.src), !.page = 0]
      <4>1. cp'.pc = "page" /\ cp'.page = 0
        BY <2>1, <3>2 DEF CopyRec
      <4> QED
        BY <4>1
    <3>3. CASE cp' = NoCopy \/ cp' = [cp EXCEPT !.pc = "scrub"]
      <4>1. cp'.pc \in {"none", "scrub"}
        BY <2>1, <3>3 DEF NoCopy, CopyRec
      <4> QED
        BY <4>1
    <3> QED
      BY <3>1, <3>2, <3>3
  <2> QED
    BY <2>1, <2>2, <2>3, SameOwners DEF Mounted
<1>4. CASE WriteByCopy \/ ReadMoves
  <2>1. /\ UNCHANGED <<tag, lut, call>> /\ cp.pc = "none" /\ Mounted
        /\ call.op \in {"write", "read"}
    BY <1>4 DEF WriteByCopy, ReadMoves, Writing, Reading, Mounted
  <2>2. cp'.pc = "find"
    BY <1>4 DEF WriteByCopy, ReadMoves, StartCopy, NoCopy
  <2> QED
    BY <2>1, <2>2, SameOwners
<1>5. CASE WriteNoBlock \/ WriteInPlace \/ ReadNoBlock \/ ReadOk \/ ReturnOk
  <2>1. /\ UNCHANGED <<tag, lut, cp>> /\ cp.pc = "none" /\ Mounted
        /\ call.op \in {"write", "read"}
    BY <1>5
    DEF WriteNoBlock, WriteInPlace, ReadNoBlock, ReadOk, ReturnOk, Writing, Reading, Mounted
  <2>2. call'.op \in {"idle", "write", "read"}
    BY <1>5, <2>1
    DEF WriteNoBlock, WriteInPlace, ReadNoBlock, ReadOk, ReturnOk, Done, Answer, FtlShape,
        CallType, CallRec
  <2> QED
    BY <2>1, <2>2, SameOwners
<1>6. CASE \/ \E s \in Sector, n \in 1 .. MaxCount :
                 \/ ReadSectors(s, n)
                 \/ \E buf \in [1 .. n -> Val] : WriteSectors(s, buf)
           \/ \E b \in Block, o \in Off, kind \in {"flip", "stuck"} : SectorWears(b, o, kind)
  <2>1. UNCHANGED <<tag, lut, cp>> /\ call.op = "idle"
    BY <1>6 DEF ReadSectors, WriteSectors, SectorWears
  <2>2. call'.op \in {"idle", "write", "read"}
    BY <1>6 DEF ReadSectors, WriteSectors, SectorWears, Call
  <2>3. cp.pc = "none"
    BY <2>1 DEF FtlShape, InCall
  <2> QED
    BY <2>1, <2>2, <2>3, SameOwners DEF Mounted
<1>7. CASE UNCHANGED vars
  BY <1>7
  DEF vars, Owners, OneOwner, AllMapped, NoBadCopy, Source, Target, Mounted
<1>8. ~ CopyPageFails /\ ~ CopyBad /\ ~ WriteInPlaceFails /\ ~ WriteCompareFails
      /\ ~ ReadFails
  BY <1>0
  DEF CopyPageFails, CopyBad, WriteInPlaceFails, WriteCompareFails, ReadFails, Owners,
      NoBadCopy, Fault
<1> QED
  BY <1>0, <1>1, <1>2, <1>3, <1>4, <1>5, <1>6, <1>7, <1>8
  DEF Next, Code, Erasing, Marking, Environment, Requests

LEMMA OwnersStart == Init => Owners /\ SpentType
<1> SUFFICES ASSUME Init
             PROVE  Owners /\ SpentType
  OBVIOUS
<1>1. SpentType
  BY DEF Init, SpentType
<1>2. call.op = "off" /\ cp.pc = "none"
  BY DEF Init, PoweredOff, Call, NoCopy
<1>3. \A b \in Block : tag[b] \notin Block
  BY BlockNumbers DEF Init
<1> QED
  BY <1>1, <1>2, <1>3 DEF Owners, OneOwner, AllMapped, NoBadCopy, Mounted

\* ftl.c, when nothing fails and the power stays: between two calls every block is free,
\* bad, or the block that the table gives for the number it carries.  No block is lost to
\* a copy, so the spare blocks are not used up.
THEOREM NoBlockOrphaned ==
    ASSUME Sound
    PROVE  Spec /\ []SpareFound => []NoOrphan
<1>1. FtlShape /\ Owners => NoOrphan
  <2> SUFFICES ASSUME FtlShape, Owners, call.op = "idle"
               PROVE  \A b \in Block : tag[b] \in Block => lut[tag[b]] = b
    BY DEF NoOrphan
  <2>1. cp.pc = "none" /\ Mounted
    BY DEF FtlShape, InCall, Mounted
  <2> QED
    BY <2>1 DEF Owners, AllMapped, Target
<1>2. FtlShape /\ MapInv /\ FormatNumbers /\ Owners /\ SpentType /\ SpareFound
          /\ [Next]_vars
          => (MapInv /\ FormatNumbers /\ Owners /\ SpentType)'
  BY OwnersStep, SpentStep, MapSoundStep, FormatNumbersStep, NothingFails
<1> QED
  BY <1>1, <1>2, OwnersStart, FtlShapeAlways, MapStart, FormatNumbersStart, PTL DEF Spec

-----------------------------------------------------------------------------
(* The size of the disk.                                                     *)

\* 93% of the good blocks, rounded down.
LEMMA ShareOf ==
    ASSUME NEW g \in Nat
    PROVE  /\ Goodblock(g) \in Nat /\ Goodblock(g) <= g
           /\ g > 0 => Goodblock(g) < g
           /\ \A h \in Nat : h <= g => Goodblock(h) <= Goodblock(g)
<1>1. Percent \in Nat /\ Percent <= 99
  BY GeometryAssumption
<1>2. ASSUME NEW h \in Nat
      PROVE  h * Percent \in Nat /\ Percent * h = h * Percent
  BY <1>1, <1>2, Product
<1>3. g * Percent <= g * 99
  <2>1. Percent * g <= 99 * g
    BY <1>1, ProductGrows
  <2> QED
    BY <1>2, <2>1
<1> DEFINE x == g * Percent
<1>4. x \in Nat /\ x <= g * 99 /\ Goodblock(g) = x \div 100
  BY <1>2, <1>3 DEF Goodblock
<1>5. ASSUME NEW h \in Nat, h <= g
      PROVE  Goodblock(h) <= Goodblock(g)
  <2>1. h * Percent <= x /\ h * Percent \in Nat
    BY <1>1, <1>2, <1>5, ProductGrows
  <2> DEFINE y == h * Percent
  <2> HIDE DEF x, y
  <2>2. y \in Nat /\ x \in Nat /\ y <= x
    BY <1>4, <2>1 DEF y
  <2>3. y \div 100 <= x \div 100
    BY <2>2
  <2> QED
    BY <1>4, <2>3 DEF Goodblock, y
<1> HIDE DEF x
<1> QED
  BY <1>4, <1>5

\* FTL_Format never gives the last number.
LEMMA FormatLimitStep ==
    ASSUME FtlShape, FormatLimit, [Next]_vars
    PROVE  FormatLimit'
<1> USE DEF flash, ram, env
<1>0. call \in CallRec /\ call.at \in Nat /\ call.i \in Nat /\ call.n \in Nat /\ NBlocks \in Nat
  BY CallFields, BlockNumbers DEF FtlShape, CallType
<1>1. ASSUME FormatMark
      PROVE  FormatLimit'
  <2>1. /\ call.op = "mark" /\ call.n # Goodblock(call.at)
        /\ call' = [call EXCEPT !.i = @ + 1, !.n = @ + 1]
    BY <1>1 DEF FormatMark, NumberingOn
  <2>2. call.at \in 1 .. NBlocks /\ call.n <= Goodblock(call.at)
    BY <2>1 DEF FormatLimit
  <2> DEFINE g == Goodblock(call.at)
  <2>3. g \in Nat /\ g < call.at
    BY <1>0, <2>2, ShareOf
  <2>4. call'.op = "mark" /\ call'.at = call.at /\ call'.n = call.n + 1
    BY <1>0, <2>1 DEF CallRec
  <2>5. call.n <= g /\ call.n # g
    BY <2>1, <2>2
  <2> HIDE DEF g
  <2>6. call.n + 1 <= g /\ call.n < NBlocks - 1
    BY <1>0, <2>2, <2>3, <2>5
  <2>7. call'.n <= Goodblock(call'.at) /\ call'.at \in 1 .. NBlocks
    BY <2>2, <2>4, <2>6 DEF g
  <2>8. \A b \in Block : tag'[b] < NBlocks - 1
    <3>1. /\ call.i \in Block
          /\ \/ UNCHANGED tag
             \/ \E l \in Block : l <= call.n /\ tag' = [tag EXCEPT ![call.i] = l]
      BY <1>1, NumberWritten DEF FtlShape
    <3>2. \A b \in Block : tag[b] < NBlocks - 1
      BY DEF FormatLimit
    <3>3. \A l \in Block : l <= call.n => l < NBlocks - 1
      BY <1>0, <2>6, BlockNumbers
    <3>4. tag \in [Block -> Tags]
      BY DEF FtlShape, FlashType
    <3> QED
      BY <3>1, <3>2, <3>3, <3>4
  <2> QED
    BY <2>4, <2>7, <2>8 DEF FormatLimit
<1>2. ASSUME ~ FormatMark
      PROVE  \A b \in Block : tag'[b] < NBlocks - 1
  BY <1>2, TagsAfter, BlockNumbers DEF FormatLimit, FtlShape, Free, Bad, HalfBad
<1>3. CASE FTL_Init
  <2>1. \E op \in {"idle", "erase"} : call' = Call(op, 0, 0, <<>>)
    BY <1>3 DEF FTL_Init
  <2>2. call'.op # "mark" /\ call'.at = 0 /\ call'.i = 0
    BY <2>1 DEF Call
  <2>3. ~ FormatMark
    BY <1>3 DEF FTL_Init, FormatMark, NumberingOn
  <2> QED
    BY <1>2, <2>2, <2>3 DEF FormatLimit
<1>4. CASE FormatErase \/ FormatEraseLate
  <2>1. /\ call.op = "erase"
        /\ \/ call' = [call EXCEPT !.i = @ + 1]
           \/ call' = [call EXCEPT !.i = @ + 1, !.at = @ + 1]
    BY <1>4 DEF FormatErase, FormatEraseLate
  <2>2. call'.op = "erase" /\ call'.i = call.i + 1 /\ call'.at \in {call.at, call.at + 1}
    BY <1>0, <2>1 DEF CallRec
  <2>3. call.at <= call.i
    BY <2>1 DEF FormatLimit
  <2>4. ~ FormatMark
    BY <2>1 DEF FormatMark, NumberingOn
  <2> QED
    BY <1>0, <1>2, <2>2, <2>3, <2>4 DEF FormatLimit
<1>5. CASE FormatErased
  <2>1. /\ call.op = "erase" /\ call.i = NBlocks
        /\ call' = [call EXCEPT !.i = 0, !.op = IF call.at < MinBlocks THEN "dead" ELSE "mark"]
    BY <1>5 DEF FormatErased
  <2>2. /\ call'.op = IF call.at < MinBlocks THEN "dead" ELSE "mark"
        /\ call'.at = call.at /\ call'.n = call.n
    BY <1>0, <2>1 DEF CallRec
  <2>3. call.at <= NBlocks /\ call.n = 0
    BY <2>1 DEF FormatLimit, FtlShape, FormatCounts
  <2>4. MinBlocks \in Nat /\ MinBlocks # 0
    BY GeometryAssumption
  <2>5. Goodblock(call.at) \in Nat
    BY <1>0, ShareOf
  <2>6. ~ FormatMark
    BY <2>1 DEF FormatMark, NumberingOn
  <2>7. call'.op = "mark" => call'.at \in 1 .. NBlocks
    BY <1>0, <2>2, <2>3, <2>4
  <2>8. call'.n <= Goodblock(call'.at)
    BY <2>2, <2>3, <2>5
  <2> QED
    BY <1>2, <2>2, <2>6, <2>7, <2>8 DEF FormatLimit
<1>6. CASE FormatSkip
  <2>1. call.op = "mark" /\ call' = [call EXCEPT !.i = @ + 1] /\ UNCHANGED tag
    BY <1>6 DEF FormatSkip, NumberingOn
  <2>2. call'.op = "mark" /\ call'.at = call.at /\ call'.n = call.n
    BY <1>0, <2>1 DEF CallRec
  <2> QED
    BY <2>1, <2>2 DEF FormatLimit
<1>7. CASE FormatEnd
  <2>1. UNCHANGED tag /\ call'.op \in {"dead", "idle"}
    BY <1>7 DEF FormatEnd, Call
  <2> QED
    BY <2>1 DEF FormatLimit
<1>8. CASE PowerCut
  <2>1. UNCHANGED tag /\ call'.op = "off"
    BY <1>8 DEF PowerCut, PoweredOff, Call
  <2> QED
    BY <2>1 DEF FormatLimit
<1>9. CASE UNCHANGED vars
  BY <1>9 DEF vars, FormatLimit
<1>10. CASE Mounted /\ Mounted'
  <2>1. ~ FormatMark
    BY <1>10 DEF FormatMark, NumberingOn, Mounted
  <2> QED
    BY <1>2, <1>10, <2>1 DEF FormatLimit, Mounted
<1> QED
  BY <1>1, <1>3, <1>4, <1>5, <1>6, <1>7, <1>8, <1>9, <1>10, Stages DEF Erasing, Marking

\* The table that FTL_CreateLUT builds has a hole, and every number below the first one
\* is there.
LEMMA RebuildSize ==
    ASSUME Rebuild(tag'), \A b \in Block : tag'[b] < NBlocks - 1, tag' \in [Block -> Tags]
    PROVE  /\ valid' \in Nat
           /\ \A k \in 0 .. (valid' - 1) : \E b \in Block : tag'[b] = k
           /\ \A n \in 0 .. NBlocks :
                  (\A k \in 0 .. (n - 1) : \E b \in Block : tag'[b] = k) => valid' >= n
<1> DEFINE holes == {l \in Block : CreateLUT(tag')[l] = NoBlk}
<1>1. valid' = IF holes = {} THEN valid ELSE MinOf(holes)
  BY DEF Rebuild, ValidBlocks
<1>2. NBlocks - 1 \in holes
  <2>1. \A b \in Block : tag'[b] # NBlocks - 1
    BY BlockNumbers DEF Tags, Free, Bad, HalfBad
  <2> QED
    BY <2>1, TableOf, BlockNumbers
<1>3. MinOf(holes) \in holes /\ \A y \in holes : MinOf(holes) <= y
  BY <1>2, MinBlock
<1>4. valid' = MinOf(holes)
  BY <1>1, <1>2
<1>5. \A b \in Block : tag'[b] # valid'
  BY <1>3, <1>4, TableOf
<1>6. valid' \in Nat /\ valid' \in Block
  BY <1>3, <1>4, BlockNumbers
<1>7. ASSUME NEW k \in 0 .. (valid' - 1)
      PROVE  \E b \in Block : tag'[b] = k
  <2>1. k \in Block /\ ~ (valid' <= k)
    <3>1. PICK v \in Block : v = valid'
      BY <1>6
    <3>2. k \in 0 .. (v - 1)
      BY <3>1
    <3>3. v \in Nat /\ v <= NBlocks - 1 /\ NBlocks \in Nat /\ Block = 0 .. (NBlocks - 1)
      BY BlockNumbers
    <3>4. k \in Nat /\ k < v
      BY <3>2, <3>3
    <3>5. k \in Block /\ ~ (v <= k)
      BY <3>3, <3>4
    <3> QED
      BY <3>1, <3>5
  <2>2. k \notin holes
    BY <1>3, <1>4, <2>1
  <2> QED
    BY <2>1, <2>2, TableOf
<1>8. ASSUME NEW n \in 0 .. NBlocks, \A k \in 0 .. (n - 1) : \E b \in Block : tag'[b] = k
      PROVE  valid' >= n
  <2>1. valid' \notin 0 .. (n - 1)
    BY <1>5, <1>8
  <2> QED
    BY <1>6, <2>1, BlockNumbers
<1> QED
  BY <1>6, <1>7, <1>8

LEMMA SizedStep ==
    ASSUME FtlShape, MapInv, ~ halved', FormatLimit, Sized, SpareFound, [Next]_vars
    PROVE  Sized'
<1> USE DEF flash, ram, env
<1>0. /\ \A b \in Block : tag'[b] < NBlocks - 1
      /\ tag' \in [Block -> Tags] /\ tag \in [Block -> Tags]
      /\ size \in 0 .. NBlocks /\ valid \in 0 .. NBlocks /\ NBlocks \in Nat
  <2>1. FormatLimit' /\ FtlShape'
    BY FormatLimitStep, FtlShapeStep
  <2> QED
    BY <2>1, BlockNumbers DEF FormatLimit, FtlShape, FlashType, EnvType, RamType
<1>1. ASSUME UNCHANGED <<tag, size>>
      PROVE  Numbering(size)'
  BY <1>1 DEF Sized, Numbering
<1>2. ASSUME size' = 0
      PROVE  Numbering(size)'
  BY <1>2 DEF Numbering
<1>3. ASSUME size' = valid', Rebuild(tag')
      PROVE  Numbering(size)'
  BY <1>0, <1>3, RebuildSize DEF Numbering
<1>4. CASE FTL_Init
  <2>1. UNCHANGED tag /\ Rebuild(tag')
    BY <1>4 DEF FTL_Init
  <2>2. CASE call' = Call("erase", 0, 0, <<>>) /\ size' = 0
    BY <1>2, <2>2 DEF Sized, Call, Mounted
  <2>3. CASE /\ call' = Call("idle", 0, 0, <<>>)
             /\ size' = IF size = 0 THEN valid' ELSE size
    <3>1. call'.op = "idle" /\ valid' \in Nat
      BY <1>0, <2>1, <2>3, RebuildSize DEF Call
    <3>2. CASE size = 0
      BY <1>3, <2>1, <2>3, <3>1, <3>2 DEF Sized
    <3>3. CASE size # 0
      <4>1. UNCHANGED <<tag, size>>
        BY <2>1, <2>3, <3>3
      <4>2. \A k \in 0 .. (size - 1) : \E b \in Block : tag'[b] = k
        BY <4>1 DEF Sized, Numbering
      <4>3. valid' >= size
        BY <1>0, <2>1, <4>2, RebuildSize
      <4> QED
        BY <1>1, <3>1, <4>1, <4>3 DEF Sized
    <3> QED
      BY <3>2, <3>3
  <2> QED
    BY <1>4, <2>2, <2>3 DEF FTL_Init
<1>5. CASE Erasing \/ FormatMark \/ FormatSkip
  <2>1. call.op \in {"erase", "mark"} /\ UNCHANGED size
    BY <1>5 DEF Erasing, FormatErase, FormatEraseLate, FormatErased, FormatMark, FormatSkip,
                NumberingOn, Fault, BadBlockMark, MarkFails
  <2>2. size' = 0
    BY <2>1 DEF Sized
  <2>3. ~ Mounted'
    <3>1. \/ call' = [call EXCEPT !.i = @ + 1]
          \/ call' = [call EXCEPT !.i = @ + 1, !.at = @ + 1]
          \/ call' = [call EXCEPT !.i = @ + 1, !.n = @ + 1]
          \/ \E op \in {"dead", "mark"} : call' = [call EXCEPT !.i = 0, !.op = op]
      BY <1>5 DEF Erasing, FormatErase, FormatEraseLate, FormatErased, FormatMark, FormatSkip
    <3> QED
      BY <2>1, <3>1 DEF FtlShape, CallType, CallRec, Mounted
  <2> QED
    BY <1>2, <2>2, <2>3 DEF Sized
<1>6. CASE FormatEnd
  <2>1. call.op = "mark" /\ UNCHANGED tag /\ Rebuild(tag')
    BY <1>6 DEF FormatEnd
  <2>2. size = 0
    BY <2>1 DEF Sized
  <2>3. CASE call' = Call("idle", 0, 0, <<>>) /\ size' = valid'
    <3>1. valid' \in Nat
      BY <1>0, <2>1, RebuildSize
    <3> QED
      BY <1>3, <2>1, <2>3, <3>1 DEF Sized, Call, Mounted
  <2>4. CASE call' = Call("dead", 0, 0, <<>>) /\ UNCHANGED size
    BY <1>2, <2>2, <2>4 DEF Sized, Call, Mounted
  <2> QED
    BY <1>6, <2>3, <2>4 DEF FormatEnd
<1>7. CASE PowerCut
  BY <1>1, <1>7 DEF PowerCut, PoweredOff, Call, Sized, Mounted
<1>8. CASE Mounted /\ Mounted' /\ UNCHANGED size /\ (UNCHANGED valid \/ Rebuild(tag'))
  <2>1. ASSUME NEW k \in 0 .. (size - 1)
        PROVE  \E b \in Block : tag'[b] = k
    <3>1. k \in Block
      BY <1>0, BlockNumbers
    <3>2. PICK b \in Block : tag[b] = k
      BY DEF Sized, Numbering
    <3>3. k \in Numbered
      BY <3>1, <3>2, BlockNumbers DEF Numbered, Good, IsBad
    <3>4. k \in Numbered'
      BY <1>8, <3>3, NumbersStep DEF Mounted
    <3> QED
      BY <3>4 DEF Numbered, Good
  <2>2. Numbering(size)'
    BY <1>8, <2>1 DEF Numbering
  <2>3. valid' >= size
    <3>1. CASE UNCHANGED valid
      BY <1>0, <1>8, <3>1 DEF Sized
    <3>2. CASE Rebuild(tag')
      BY <1>0, <2>1, <3>2, RebuildSize
    <3> QED
      BY <1>8, <3>1, <3>2
  <2> QED
    BY <1>8, <2>2, <2>3 DEF Sized, Mounted
<1>9. CASE UNCHANGED vars
  BY <1>9 DEF vars, Sized, Numbering, Mounted
<1> QED
  BY <1>4, <1>5, <1>6, <1>7, <1>8, <1>9, Stages DEF Marking

\* ftl.c: the disk keeps the size that FTL_Format gave it.  After every later FTL_Init and
\* every call nand_dev.valid_blocknum has at least the value it had at the first mount,
\* through failed writes, blocks marked bad and power cuts, as long as the copy of a
\* block that a read found worn gets a spare block, and until a bad-block mark reaches
\* the second page of a free block only.
THEOREM CapacityKept == Spec /\ []SpareFound => []FullCapacity
<1>1. Init => FormatLimit /\ (halved \/ Sized)
  <2> SUFFICES ASSUME Init
               PROVE  FormatLimit /\ Sized
    OBVIOUS
  <2>1. call.op = "off" /\ size = 0
    BY DEF Init, PoweredOff, Call
  <2>2. \A b \in Block : tag[b] \in {Free, Bad}
    BY DEF Init
  <2>3. \A b \in Block : tag[b] < NBlocks - 1
    BY <2>2, BlockNumbers DEF Free, Bad
  <2> QED
    BY <2>1, <2>3 DEF FormatLimit, Sized, Numbering, Mounted
<1>2. FtlShape /\ MapSafe /\ SpareFound /\ FormatLimit /\ (halved \/ Sized) /\ [Next]_vars
          => (FormatLimit /\ (halved \/ Sized))'
  BY FormatLimitStep, SizedStep, HalvedStays DEF MapSafe
<1>3. (halved \/ Sized) => FullCapacity
  BY DEF Sized, FullCapacity, Mounted
<1> QED
  BY <1>1, <1>2, <1>3, FtlShapeAlways, MapStart, MapSafeStep, PTL DEF Spec

-----------------------------------------------------------------------------
(* What a copy leaves in its destination.                                    *)

LEMMA InPageIs ==
    ASSUME NEW o \in Off, NEW p \in Page
    PROVE  InPage(o, p) <=> p * SecPerPage <= o /\ o < (p + 1) * SecPerPage
<1> DEFINE q == o \div SecPerPage
           r == o % SecPerPage
<1>1. /\ q \in Nat /\ r \in 0 .. (SecPerPage - 1) /\ q * SecPerPage + r = o
      /\ p \in Nat /\ SecPerPage \in Nat \ {0}
  BY PageOfSector, BlockSize DEF Page
<1> HIDE DEF q, r
<1>2. /\ (q + 1) * SecPerPage = q * SecPerPage + SecPerPage
      /\ (p + 1) * SecPerPage = p * SecPerPage + SecPerPage
      /\ q * SecPerPage \in Nat /\ p * SecPerPage \in Nat
  BY <1>1, Product
<1>3. CASE q = p
  BY <1>1, <1>2, <1>3 DEF InPage, q
<1>4. CASE q < p
  <2>1. (q + 1) * SecPerPage <= p * SecPerPage
    BY <1>1, <1>4, ProductGrows
  <2> HIDE <1>4
  <2>2. o < p * SecPerPage
    BY <1>1, <1>2, <2>1
  <2> QED
    BY <1>1, <1>2, <1>4, <2>2 DEF InPage, q
<1>5. CASE q > p
  <2>1. (p + 1) * SecPerPage <= q * SecPerPage
    BY <1>1, <1>5, ProductGrows
  <2> HIDE <1>5
  <2>2. o >= (p + 1) * SecPerPage
    BY <1>1, <1>2, <2>1
  <2> QED
    BY <1>1, <1>2, <1>5, <2>2 DEF InPage, q
<1> QED
  BY <1>1, <1>3, <1>4, <1>5

\* What the copy must leave depends on the call, the source and its cells only.
LEMMA WantedSame ==
    ASSUME UNCHANGED call, cp'.src = cp.src, cell'[cp.src] = cell[cp.src], NEW o \in Off
    PROVE  Wanted(o)' = Wanted(o) /\ BlkOff' = BlkOff
BY DEF Wanted, BlkOff, Pos, Left, ToBlkEnd

\* When nothing fails a copy is begun, gets its destination and copies its pages.
LEMMA CopyActions ==
    ASSUME FtlShape, NoBadCopy, ~ Fails, [Next]_vars
    PROVE  /\ NoBadCopy'
           /\ cp'.pc \in {"find", "page"} =>
                  WriteByCopy \/ ReadMoves \/ CopyFind \/ CopyPage \/ UNCHANGED vars
<1> USE DEF flash, ram, env
<1>1. ~ CopyPageFails /\ ~ CopyBad /\ ~ WriteInPlaceFails /\ ~ WriteCompareFails
      /\ ~ ReadFails
  BY DEF CopyPageFails, CopyBad, WriteInPlaceFails, WriteCompareFails, ReadFails, NoBadCopy,
         Fault
<1>2. CASE cp'.pc \notin {"find", "page", "bad"}
  BY <1>2 DEF NoBadCopy
<1>3. CASE cp.pc = "none" /\ UNCHANGED cp
  BY <1>2, <1>3
<1>4. CASE cp' = NoCopy
  BY <1>2, <1>4 DEF NoCopy
<1>5. CASE WriteByCopy \/ ReadMoves
  BY <1>5 DEF WriteByCopy, ReadMoves, StartCopy, NoCopy, NoBadCopy
<1>6. CASE CopyFind
  <2>1. cp \in CopyRec
    BY DEF FtlShape, CopyType
  <2>2. \/ cp' = [cp EXCEPT !.pc = "page", !.dst = FindSamePlane(cp.src), !.page = 0]
        \/ cp' = NoCopy
        \/ cp' = [cp EXCEPT !.pc = "scrub"]
    BY <1>6 DEF CopyFind
  <2>3. cp'.pc \in {"page", "none", "scrub"}
    <3>1. CASE cp' = [cp EXCEPT !.pc = "page", !.dst = FindSamePlane(cp.src), !.page = 0]
      BY <2>1, <3>1 DEF CopyRec
    <3>2. CASE cp' = NoCopy \/ cp' = [cp EXCEPT !.pc = "scrub"]
      BY <2>1, <3>2 DEF NoCopy, CopyRec
    <3> QED
      BY <2>2, <3>1, <3>2
  <2> QED
    BY <1>6, <2>3 DEF NoBadCopy
<1>7. CASE CopyPage
  <2> DEFINE c == Consumed(cp)
  <2>1. c \in CopyRec /\ c.pc = "page"
    BY <1>7, ConsumedIs DEF CopyPage, Consumed, FtlShape, CopyType, CopyRec
  <2>2. cp' = [c EXCEPT !.page = @ + 1]
    BY <1>7 DEF CopyPage
  <2> HIDE DEF c
  <2>3. cp'.pc = "page"
    BY <2>1, <2>2 DEF CopyRec
  <2> QED
    BY <1>7, <2>3 DEF NoBadCopy
<1>8. CASE CopyEnd \/ ScrubBlank \/ ScrubWipe \/ ScrubZero \/ ScrubEnd \/ ScrubCondemn
           \/ PowerCut
  <2>1. cp \in CopyRec
    BY DEF FtlShape, CopyType
  <2>2. \/ cp' = NoCopy
        \/ \E pc \in {"scrub", "wipe", "condemn"} : cp' = [cp EXCEPT !.pc = pc]
        \/ cp' = [cp EXCEPT !.pc = "zero", !.page = 0]
        \/ cp' = [cp EXCEPT !.page = @ + 1] /\ cp.pc = "zero"
    BY <1>8
    DEF CopyEnd, ScrubBlank, ScrubWipe, ScrubZero, ScrubEnd, ScrubCondemn, PowerCut
  <2>3. CASE \E pc \in {"scrub", "wipe", "condemn"} : cp' = [cp EXCEPT !.pc = pc]
    BY <1>2, <2>1, <2>3 DEF CopyRec
  <2>4. CASE cp' = [cp EXCEPT !.pc = "zero", !.page = 0]
    BY <1>2, <2>1, <2>4 DEF CopyRec
  <2>5. CASE cp' = [cp EXCEPT !.page = @ + 1] /\ cp.pc = "zero"
    BY <1>2, <2>1, <2>5 DEF CopyRec
  <2> QED
    BY <1>4, <2>2, <2>3, <2>4, <2>5
<1>9. CASE FTL_Init \/ Erasing \/ Marking
  BY <1>3, <1>9 DEF FTL_Init, FormatErase, Erasing, FormatEraseLate, FormatErased,
            FormatMark, Marking, FormatSkip, FormatEnd, NumberingOn, FtlShape, InCall
<1>10. CASE WriteNoBlock \/ WriteInPlace \/ ReadNoBlock \/ ReadOk \/ ReturnOk
  BY <1>3, <1>10
  DEF WriteNoBlock, WriteInPlace, ReadNoBlock, ReadOk, ReturnOk, Writing, Reading
<1>11. CASE \/ \E s \in Sector, n \in 1 .. MaxCount :
                  \/ ReadSectors(s, n)
                  \/ \E buf \in [1 .. n -> Val] : WriteSectors(s, buf)
            \/ \E b \in Block, o \in Off, kind \in {"flip", "stuck"} : SectorWears(b, o, kind)
  BY <1>3, <1>11 DEF ReadSectors, WriteSectors, SectorWears, FtlShape, InCall
<1>12. CASE UNCHANGED vars
  BY <1>12 DEF vars, NoBadCopy
<1> QED
  BY <1>1, <1>5, <1>6, <1>7, <1>8, <1>9, <1>10, <1>11, <1>12
  DEF Next, Code, Erasing, Marking, Environment, Requests

\* The free blocks are blank, but for the one that a read is filling with zeros.
LEMMA FreeBlankStep ==
    ASSUME FtlShape, MapInv, FreeIsBlank, NoBadCopy, ~ Fails, [Next]_vars,
           PowerCut => cp.pc # "zero"
    PROVE  FreeIsBlank'
<1> USE DEF flash, ram, env
<1>0. /\ tag \in [Block -> Tags] /\ cp.src \in Block /\ cp.dst \in Block
      /\ cell \in [Block -> [Off -> Content]] /\ cp \in CopyRec
      /\ Bad \notin Block /\ Free # Bad /\ Free \notin Block
  BY CopyFields, BlockNumbers DEF FtlShape, FlashType, CopyType
<1>1. ASSUME UNCHANGED <<cell, tag>>, cp.pc # "zero"
      PROVE  FreeIsBlank'
  BY <1>1 DEF FreeIsBlank
<1>2. ASSUME NEW c \in Block, Erased(c), cp.pc # "zero" \/ c = cp.src
      PROVE  FreeIsBlank'
  <2>1. /\ \A o \in Off : cell'[c][o] = Blank
        /\ \A b \in Block \ {c} : cell'[b] = cell[b] /\ tag'[b] = tag[b]
    BY <1>0, <1>2 DEF Erased, Blanked
  <2> QED
    BY <1>2, <2>1 DEF FreeIsBlank
<1>3. ASSUME NEW c \in Block, tag'[c] # Free, cp.pc # "zero",
             \A b \in Block \ {c} : cell'[b] = cell[b] /\ tag'[b] = tag[b]
      PROVE  FreeIsBlank'
  BY <1>3 DEF FreeIsBlank
<1>4. CASE Erasing
  <2>1. cp.pc # "zero" /\ (FormatErase => call.i \in Block)
    BY <1>4, CallFields, BlockNumbers DEF Erasing, FormatErase, FormatEraseLate, FormatErased,
                                          FtlShape, InCall
  <2>2. CASE FormatErase
    BY <1>1, <1>2, <2>1, <2>2 DEF FormatErase
  <2>3. CASE FormatErased
    BY <1>1, <2>1, <2>3 DEF FormatErased
  <2> QED
    BY <1>4, <2>2, <2>3 DEF Erasing, FormatEraseLate
<1>5. CASE Marking
  <2>1. cp.pc # "zero" /\ UNCHANGED cell
    BY <1>5, MarkTurn
  <2>2. ASSUME call.i \in Block, NEW l \in Block, tag' = [tag EXCEPT ![call.i] = l]
        PROVE  FreeIsBlank'
    BY <1>0, <1>3, <2>1, <2>2
  <2> QED
    BY <1>1, <1>5, <2>1, <2>2, MarkTurn
<1>6. CASE CopyPage
  <2>1. CopiedPage /\ cp.pc = "page"
    BY <1>6 DEF CopyPage
  <2>2. /\ tag'[cp.dst] = tag[cp.src] /\ tag[cp.src] \in Block
        /\ \A b \in Block \ {cp.dst} : tag'[b] = tag[b]
    BY <2>1, CopiedTags
  <2>3. \A b \in Block \ {cp.dst} : cell'[b] = cell[b]
    BY <1>0, <2>1, ImageType, ProgrammedType DEF CopiedPage, FtlShape
  <2> QED
    BY <1>0, <1>3, <2>1, <2>2, <2>3
<1>7. CASE CopyEnd \/ ScrubBlank \/ ScrubWipe
  <2>1. cp.pc # "zero"
    BY <1>7 DEF CopyEnd, ScrubBlank, ScrubWipe
  <2> QED
    BY <1>0, <1>1, <1>2, <1>7, <2>1 DEF CopyEnd, ScrubBlank, ScrubWipe, Fault
<1>8. CASE ScrubZero
  <2>1. cp' = [cp EXCEPT !.page = @ + 1] /\ cp.pc = "zero" /\ UNCHANGED tag
    BY <1>8 DEF ScrubZero
  <2>2. cp'.pc = "zero" /\ cp'.src = cp.src
    BY <1>0, <2>1 DEF CopyRec
  <2>3. \A o \in Off : [x \in Off |-> Zero][o] \in Content
    BY DEF Content
  <2>4. \A b \in Block \ {cp.src} : cell'[b] = cell[b]
    BY <1>0, <1>8, <2>3, ProgrammedType DEF ScrubZero, FtlShape
  <2> QED
    BY <2>1, <2>2, <2>4 DEF FreeIsBlank
<1>9. CASE ScrubEnd
  BY <1>0, <1>2, <1>9 DEF ScrubEnd
<1>10. CASE ScrubCondemn
  <2>1. cp.pc # "zero" /\ tag' = [tag EXCEPT ![cp.src] = Bad] /\ UNCHANGED cell
    BY <1>10 DEF ScrubCondemn, BadBlockMark
  <2> QED
    BY <1>0, <1>3, <2>1
<1>11. CASE WriteInPlace
  <2>1. /\ call.op = "write" /\ cp.pc = "none" /\ PBN # NoBlk /\ WriteDirect
        /\ UNCHANGED tag /\ Writing
    BY <1>11 DEF WriteInPlace, Writing
  <2>2. PICK l \in Block : PBN = lut[l]
    BY <2>1, Place DEF FtlShape
  <2>3. PBN \in Block /\ tag[PBN] = l
    BY <2>1, <2>2, Place DEF MapInv, MapAgrees, Mounted, FtlShape
  <2>4. \A b \in Block \ {PBN} : cell'[b] = cell[b]
    BY <1>0, <2>1, <2>3 DEF WriteDirect, Programmed
  <2> QED
    BY <1>0, <1>3, <2>1, <2>2, <2>3, <2>4
<1>12. CASE CopyFind \/ WriteNoBlock \/ WriteByCopy \/ ReadNoBlock \/ ReadOk \/ ReadMoves
            \/ ReturnOk
  BY <1>1, <1>12
  DEF CopyFind, WriteNoBlock, WriteByCopy, ReadNoBlock, ReadOk, ReadMoves, ReturnOk,
      Writing, Reading
<1>13. CASE PowerCut
  BY <1>1, <1>13 DEF PowerCut
<1>14. CASE FTL_Init
  BY <1>1, <1>14 DEF FTL_Init, FtlShape, InCall
<1>15. CASE \/ \E s \in Sector, n \in 1 .. MaxCount :
                  \/ ReadSectors(s, n)
                  \/ \E buf \in [1 .. n -> Val] : WriteSectors(s, buf)
            \/ \E x \in Block, o \in Off, kind \in {"flip", "stuck"} : SectorWears(x, o, kind)
  BY <1>1, <1>15 DEF ReadSectors, WriteSectors, SectorWears, FtlShape, InCall
<1>16. CASE UNCHANGED vars
  BY <1>16 DEF vars, FreeIsBlank
<1>17. ~ CopyPageFails /\ ~ CopyBad /\ ~ WriteInPlaceFails /\ ~ WriteCompareFails
       /\ ~ ReadFails
  BY DEF CopyPageFails, CopyBad, WriteInPlaceFails, WriteCompareFails, ReadFails, NoBadCopy,
         Fault
<1> QED
  BY <1>4, <1>5, <1>6, <1>7, <1>8, <1>9, <1>10, <1>11, <1>12, <1>13, <1>14, <1>15, <1>16,
     <1>17
  DEF Next, Code, Erasing, Marking, Environment, Requests

\* The data of a copy at its start, and when it has its destination.
LEMMA DataAtStart ==
    ASSUME FtlShape, WriteByCopy \/ ReadMoves
    PROVE  DataLeft' /\ cp'.pc = "find"
<1>1. PICK buf :
        /\ StartCopy(buf) /\ UNCHANGED <<call, cell>> /\ PBN # NoBlk
        /\ call.op \in {"write", "read"} /\ call.i < call.n
        /\ \/ call.op = "write" /\ buf = BlockPart
           \/ call.op = "read" /\ buf = [k \in 1 .. ReadLen |-> cell[PBN][BlkOff + k - 1]]
  BY DEF WriteByCopy, ReadMoves, Writing, Reading, flash
<1>2. BlkOff \in Off /\ BlkOff \in Nat /\ PBN \in Block
  BY <1>1, Place DEF Off, FtlShape
<1>3. /\ cp'.pc = "find" /\ cp'.src = PBN /\ cp'.buf = buf
      /\ cp'.first = BlkOff \div SecPerPage /\ cp'.col = BlkOff % SecPerPage
  BY <1>1 DEF StartCopy, NoCopy
<1>4. cp'.first * SecPerPage + cp'.col = BlkOff
  BY <1>2, <1>3, PageOfSector
<1>5. BlkOff' = BlkOff /\ Left' = Left /\ ToBlkEnd' = ToBlkEnd
  BY <1>1 DEF BlkOff, Pos, Left, ToBlkEnd
<1>6. ASSUME NEW o \in Off, o >= BlkOff
      PROVE  Wanted(o)' = IF o - BlkOff < Len(buf) THEN buf[o - BlkOff + 1] ELSE cell[PBN][o]
  <2> DEFINE k == o - BlkOff
  <2>1. k \in Nat /\ BlkOff + (k + 1) - 1 = o /\ o \in Nat
    BY <1>2, <1>6 DEF Off
  <2>2. Wanted(o)' = IF call.op = "write" /\ k \in 0 .. (Least(Left, ToBlkEnd) - 1)
                     THEN call.buf[call.i + k + 1] ELSE cell[PBN][o]
    BY <1>1, <1>3, <1>5 DEF Wanted, Least
  <2>3. CASE call.op = "write"
    <3> DEFINE n == Least(Left, ToBlkEnd)
    <3>1. n \in Nat /\ n <= Left
      BY <1>1, Parts DEF FtlShape
    <3>2. Len(buf) = n /\ \A j \in 1 .. n : buf[j] = call.buf[call.i + j]
      BY <1>1, <2>3, <3>1, PartIsData DEF BlockPart, FtlShape
    <3>3. call.i \in Nat
      BY CallFields DEF FtlShape
    <3> HIDE DEF n, k
    <3>4. CASE k < n
      <4>1. k + 1 \in 1 .. n /\ k \in 0 .. (n - 1) /\ call.i + (k + 1) = call.i + k + 1
        BY <2>1, <3>1, <3>3, <3>4
      <4> QED
        BY <2>2, <2>3, <3>2, <3>4, <4>1 DEF k, n
    <3>5. CASE ~ (k < n)
      <4>1. k \notin 0 .. (n - 1)
        BY <2>1, <3>1, <3>5
      <4> QED
        BY <2>2, <2>3, <3>2, <3>5, <4>1 DEF k, n
    <3> QED
      BY <3>4, <3>5
  <2>4. CASE call.op = "read"
    <3>1. ReadLen \in Nat
      BY <1>1, Parts DEF ReadLen, FtlShape
    <3>2. buf = [j \in 1 .. ReadLen |-> cell[PBN][BlkOff + j - 1]]
      BY <1>1, <2>4
    <3>3. Len(buf) = ReadLen
      BY <3>1, <3>2
    <3>4. CASE k < ReadLen
      <4>1. k + 1 \in 1 .. ReadLen
        BY <2>1, <3>1, <3>4
      <4>2. buf[k + 1] = cell[PBN][BlkOff + (k + 1) - 1]
        BY <3>2, <4>1
      <4>3. buf[k + 1] = cell[PBN][o]
        BY <2>1, <4>2
      <4> HIDE DEF k
      <4> QED
        BY <2>2, <2>4, <3>3, <3>4, <4>3 DEF k
    <3>5. CASE ~ (k < ReadLen)
      BY <2>2, <2>4, <3>3, <3>5
    <3> QED
      BY <3>4, <3>5
  <2> QED
    BY <1>1, <2>3, <2>4
<1>7. Rest' = BlkOff
  BY <1>3, <1>5 DEF Rest
<1>8. cell'[cp'.src] = cell[PBN]
  BY <1>1, <1>3
<1> QED
  BY <1>3, <1>4, <1>5, <1>6, <1>7, <1>8 DEF DataLeft

LEMMA DataAtFind ==
    ASSUME FtlShape, NoHalf, FreeIsBlank, DataLeft, CopyFind, cp'.pc \in {"find", "page"}
    PROVE  DataLeft' /\ PagesCopied' /\ cp'.pc = "page"
<1>1. /\ cp.pc = "find" /\ UNCHANGED cell /\ cp \in CopyRec
      /\ \/ /\ cp' = [cp EXCEPT !.pc = "page", !.dst = FindSamePlane(cp.src), !.page = 0]
            /\ UNCHANGED call /\ FindSamePlane(cp.src) # NoBlk
         \/ cp' = NoCopy
         \/ cp' = [cp EXCEPT !.pc = "scrub"]
  BY DEF CopyFind, flash, FtlShape, CopyType
<1>2. cp' = [cp EXCEPT !.pc = "page", !.dst = FindSamePlane(cp.src), !.page = 0]
  <2>1. cp' # NoCopy
    BY DEF NoCopy
  <2>2. cp' # [cp EXCEPT !.pc = "scrub"]
    BY <1>1 DEF CopyRec
  <2> QED
    BY <1>1, <2>1, <2>2
<1>3. UNCHANGED call /\ FindSamePlane(cp.src) # NoBlk
  <2>1. cp'.pc = "page"
    BY <1>1, <1>2 DEF CopyRec
  <2>2. cp' # [cp EXCEPT !.pc = "scrub"]
    BY <1>1, <2>1 DEF CopyRec
  <2> QED
    BY <1>1, <2>1, <2>2 DEF NoCopy
<1>4. /\ cp'.pc = "page" /\ cp'.dst = FindSamePlane(cp.src) /\ cp'.page = 0
      /\ cp'.src = cp.src /\ cp'.first = cp.first /\ cp'.col = cp.col /\ cp'.buf = cp.buf
  BY <1>1, <1>2 DEF CopyRec
<1>5. cp.first \in Nat /\ 0 * SecPerPage = 0 /\ cp.src \in Block
  BY CopyFields, BlockSize DEF FtlShape, Page
<1>6. FindSamePlane(cp.src) \in Block /\ tag[FindSamePlane(cp.src)] = Free
  BY <1>3, SpareIsFree
<1>7. \A o \in Off : cell'[cp'.dst][o] = Blank
  BY <1>1, <1>4, <1>6 DEF FreeIsBlank
<1>8. ASSUME NEW o \in Off
      PROVE  Wanted(o)' = Wanted(o) /\ BlkOff' = BlkOff
  BY <1>1, <1>3, <1>4, WantedSame
<1>9. BlkOff' = BlkOff
  BY <1>3 DEF BlkOff, Pos
<1>10. Rest = BlkOff /\ Rest' = BlkOff
  BY <1>1, <1>4, <1>5, <1>9 DEF Rest
<1>11. DataLeft'
  <2>1. ~ (cp'.page > cp'.first)
    BY <1>4, <1>5
  <2>2. cp.first * SecPerPage + cp.col = BlkOff
    BY <1>1 DEF DataLeft
  <2>3. \A o \in Off : o >= BlkOff =>
            Wanted(o) = IF o - BlkOff < Len(cp.buf) THEN cp.buf[o - BlkOff + 1]
                        ELSE cell[cp.src][o]
    BY <1>1, <1>10 DEF DataLeft
  <2> QED
    BY <1>1, <1>4, <1>8, <1>9, <1>10, <2>1, <2>2, <2>3 DEF DataLeft
<1>12. PagesCopied'
  <2>1. \A o \in Off : ~ (o < cp'.page * SecPerPage)
    BY <1>4, <1>5 DEF Off
  <2> QED
    BY <1>7, <2>1 DEF PagesCopied
<1> QED
  BY <1>4, <1>11, <1>12

\* What a copied page is programmed with is what it must hold.
LEMMA PageImageWanted ==
    ASSUME FtlShape, DataLeft, cp.pc = "page", cp.page < NPages,
           NEW o \in Off, InPage(o, cp.page)
    PROVE  PageImage[o] = Wanted(o)
<1> DEFINE A == cp.page * SecPerPage
           L == Len(cp.buf)
           w == WrLen
           B == BlkOff
<1>1. /\ cp.page \in Nat /\ cp.first \in Nat /\ cp.col \in 0 .. (SecPerPage - 1)
      /\ SecPerPage \in Nat \ {0} /\ L \in Nat /\ A \in Nat /\ B \in Nat /\ o \in Nat
      /\ cp.page \in Page
  <2>1. CopyType /\ CallType /\ RamType
    BY DEF FtlShape
  <2>2. /\ cp.page \in 0 .. NPages /\ cp.first \in Page /\ cp.col \in 0 .. (SecPerPage - 1)
        /\ cp.buf \in Seq(Content)
    BY <2>1, CopyFields
  <2>3. SecPerPage \in Nat \ {0} /\ NPages \in Nat \ {0} /\ A \in Nat
    BY <2>2, BlockSize
  <2>4. L \in Nat
    BY <2>2, LenProperties
  <2>5. B \in Nat /\ o \in Nat
    BY <2>1, Place DEF Off
  <2>6. cp.page \in Page /\ cp.page \in Nat /\ cp.first \in Nat
    BY <2>2, <2>3 DEF Page
  <2> QED
    BY <2>2, <2>3, <2>4, <2>5, <2>6
<1>2. A <= o /\ o < A + SecPerPage
  <2>1. (cp.page + 1) * SecPerPage = A + SecPerPage
    BY <1>1
  <2> QED
    BY <1>1, <2>1, InPageIs
<1>3. PageImage[o] = IF o - A - cp.col \in 0 .. (w - 1) THEN cp.buf[o - A - cp.col + 1]
                     ELSE cell[cp.src][o]
  BY DEF PageImage, Overlaid, Overlay
<1>4. w = IF cp.page >= cp.first THEN Least(L, SecPerPage - cp.col) ELSE 0
  BY DEF WrLen
<1>5. o < B => Wanted(o) = cell[cp.src][o]
  <2>1. o < B => o - B \notin 0 .. (Least(Left, ToBlkEnd) - 1)
    BY <1>1
  <2> QED
    BY <2>1 DEF Wanted
<1>6. o >= Rest => Wanted(o) = IF o - Rest < L THEN cp.buf[o - Rest + 1]
                               ELSE cell[cp.src][o]
  BY DEF DataLeft
<1>7. /\ Rest = IF cp.page > cp.first THEN A ELSE B
      /\ IF cp.page > cp.first THEN cp.col = 0 \/ L = 0
         ELSE cp.first * SecPerPage + cp.col = B
  BY LenProperties DEF Rest, DataLeft
<1> HIDE DEF L, w, B
<1>8. CASE cp.page < cp.first
  <2>1. (cp.page + 1) * SecPerPage <= cp.first * SecPerPage
    BY <1>1, <1>8, ProductGrows
  <2>2. (cp.page + 1) * SecPerPage = A + SecPerPage /\ cp.first * SecPerPage \in Nat
    BY <1>1, Product
  <2>3. cp.first * SecPerPage + cp.col = B /\ w = 0
    BY <1>1, <1>4, <1>7, <1>8
  <2> DEFINE F == cp.first * SecPerPage
  <2>4. F \in Nat /\ A + SecPerPage <= F /\ F + cp.col = B
    BY <2>1, <2>2, <2>3
  <2> HIDE DEF F, A
  <2>5. o < B
    BY <1>1, <1>2, <2>4
  <2> QED
    BY <1>1, <1>3, <1>5, <2>3, <2>5
<1>9. CASE cp.page >= cp.first
  <2>1. w = Least(L, SecPerPage - cp.col)
    BY <1>4, <1>9
  <2>2. Rest = A + cp.col \/ (L = 0 /\ Rest = A)
    <3>1. CASE cp.page = cp.first
      <4>1. A = cp.first * SecPerPage
        BY <3>1
      <4> HIDE DEF A
      <4> QED
        BY <1>1, <1>7, <3>1, <4>1
    <3>2. CASE cp.page > cp.first
      <4> HIDE DEF A
      <4> QED
        BY <1>1, <1>7, <3>2
    <3> QED
      BY <1>1, <1>9, <3>1, <3>2
  <2> HIDE DEF A
  <2>3. CASE L = 0
    <3>1. w = 0
      BY <1>1, <2>1, <2>3 DEF Least
    <3>2. PageImage[o] = cell[cp.src][o]
      BY <1>3, <3>1
    <3>3. CASE o >= Rest
      BY <1>1, <1>6, <2>2, <2>3, <3>2, <3>3
    <3>4. CASE o < Rest
      <4>1. Rest = B
        BY <1>1, <1>2, <1>7, <2>2, <3>4
      <4> QED
        BY <1>5, <3>2, <3>4, <4>1
    <3> QED
      BY <1>1, <2>2, <3>3, <3>4
  <2>4. CASE L # 0
    <3>1. Rest = A + cp.col
      BY <2>2, <2>4
    <3>2. CASE o < Rest
      <4>1. Rest = B
        BY <1>1, <1>2, <1>7, <2>4, <3>1, <3>2
      <4>2. o - A - cp.col \notin 0 .. (w - 1)
        BY <1>1, <3>1, <3>2
      <4> QED
        BY <1>3, <1>5, <3>2, <4>1, <4>2
    <3>3. CASE o >= Rest
      <4>1. /\ o - A - cp.col = o - Rest /\ o - Rest \in Nat
            /\ o - Rest < SecPerPage - cp.col
        BY <1>1, <1>2, <3>1, <3>3
      <4>2. o - Rest < L <=> o - Rest \in 0 .. (w - 1)
        BY <1>1, <2>1, <4>1 DEF Least
      <4> QED
        BY <1>3, <1>6, <3>3, <4>1, <4>2
    <3> QED
      BY <1>1, <3>1, <3>2, <3>3
  <2> QED
    BY <2>3, <2>4
<1> QED
  BY <1>1, <1>8, <1>9

\* The data that is left after a page.
LEMMA DataAfterPage ==
    ASSUME FtlShape, DataLeft, cp.pc = "page", cp.page < NPages,
           UNCHANGED call, cell'[cp.src] = cell[cp.src],
           cp' = [Consumed(cp) EXCEPT !.page = @ + 1]
    PROVE  /\ DataLeft' /\ cp'.src = cp.src /\ cp'.dst = cp.dst /\ cp'.pc = "page"
           /\ cp'.page = cp.page + 1
<1> DEFINE A == cp.page * SecPerPage
           L == Len(cp.buf)
           w == WrLen
           B == BlkOff
           c == Consumed(cp)
<1>1. /\ cp.page \in Nat /\ cp.first \in Nat /\ cp.col \in 0 .. (SecPerPage - 1)
      /\ SecPerPage \in Nat \ {0} /\ L \in Nat /\ A \in Nat /\ B \in Nat
      /\ cp.buf \in Seq(Content)
  <2>1. CopyType /\ CallType /\ RamType
    BY DEF FtlShape
  <2>2. /\ cp.page \in 0 .. NPages /\ cp.first \in Page /\ cp.col \in 0 .. (SecPerPage - 1)
        /\ cp.buf \in Seq(Content)
    BY <2>1, CopyFields
  <2>3. SecPerPage \in Nat \ {0} /\ NPages \in Nat \ {0} /\ A \in Nat
    BY <2>2, BlockSize
  <2>4. L \in Nat
    BY <2>2, LenProperties
  <2>5. B \in Nat
    BY <2>1, Place DEF Off
  <2>6. cp.page \in Nat /\ cp.first \in Nat
    BY <2>2, <2>3 DEF Page
  <2> QED
    BY <2>2, <2>3, <2>4, <2>5, <2>6
<1>2. /\ c \in CopyRec /\ Len(c.buf) = L - w /\ c.col = IF w = 0 THEN cp.col ELSE 0
      /\ c.src = cp.src /\ c.dst = cp.dst /\ c.first = cp.first /\ c.page = cp.page
      /\ \A j \in 1 .. (L - w) : c.buf[j] = cp.buf[w + j]
      /\ w = 0 => c.buf = cp.buf
  <2>1. CopyType
    BY DEF FtlShape
  <2> QED
    BY <2>1, ConsumedIs DEF Consumed
<1>3. c.pc = "page" /\ cp' = [c EXCEPT !.page = cp.page + 1]
  <2>1. c.pc = "page"
    BY DEF Consumed, FtlShape, CopyType, CopyRec
  <2>2. cp' = [c EXCEPT !.page = c.page + 1]
    OBVIOUS
  <2> HIDE DEF c
  <2> QED
    BY <1>2, <2>1, <2>2
<1> HIDE DEF c
<1>4. /\ cp'.pc = "page" /\ cp'.page = cp.page + 1 /\ cp'.buf = c.buf /\ cp'.col = c.col
      /\ cp'.src = cp.src /\ cp'.dst = cp.dst /\ cp'.first = cp.first
  BY <1>2, <1>3 DEF CopyRec
<1>5. BlkOff' = B /\ \A o \in Off : Wanted(o)' = Wanted(o)
  <2>1. BlkOff' = BlkOff
    BY DEF BlkOff, Pos
  <2> QED
    BY <1>4, <2>1, WantedSame
<1>6. w = IF cp.page >= cp.first THEN Least(L, SecPerPage - cp.col) ELSE 0
  BY DEF WrLen
<1>7. \A o \in Off : o >= Rest =>
          Wanted(o) = IF o - Rest < L THEN cp.buf[o - Rest + 1] ELSE cell[cp.src][o]
  BY DEF DataLeft
<1>8. /\ Rest = IF cp.page > cp.first THEN A ELSE B
      /\ IF cp.page > cp.first THEN cp.col = 0 \/ L = 0
         ELSE cp.first * SecPerPage + cp.col = B
      /\ L = 0 => cp.buf = <<>>
  BY <1>1, LenProperties, EmptySeq DEF Rest, DataLeft
<1>9. (cp.page + 1) * SecPerPage = A + SecPerPage
  BY <1>1
<1>10. Rest' = IF cp.page + 1 > cp.first THEN A + SecPerPage ELSE B
  BY <1>4, <1>5, <1>9 DEF Rest
<1> HIDE DEF L, w, B
<1>11. CASE cp.page < cp.first
  <2>1. w = 0 /\ ~ (cp.page + 1 > cp.first) /\ ~ (cp.page > cp.first)
    BY <1>1, <1>6, <1>11
  <2>2. Rest' = B /\ Rest = B /\ c.buf = cp.buf /\ c.col = cp.col /\ L - w = L
    BY <1>1, <1>2, <1>8, <1>10, <2>1
  <2>3. cp.first * SecPerPage + cp.col = B
    BY <1>8, <2>1
  <2>4. \A o \in Off : o >= B =>
            Wanted(o)' = IF o - B < Len(cp'.buf) THEN cp'.buf[o - B + 1]
                         ELSE cell'[cp'.src][o]
    BY <1>2, <1>4, <1>5, <1>7, <2>2
  <2> HIDE DEF A
  <2>5. DataLeft'
    BY <1>4, <1>5, <2>1, <2>2, <2>3, <2>4 DEF DataLeft
  <2> QED
    BY <1>4, <2>5
<1>12. CASE cp.page >= cp.first
  <2>1. w = Least(L, SecPerPage - cp.col) /\ cp.page + 1 > cp.first
    BY <1>1, <1>6, <1>12
  <2>2. Rest = A + cp.col \/ (L = 0 /\ Rest = A)
    <3>1. CASE cp.page = cp.first
      <4>1. A = cp.first * SecPerPage
        BY <3>1
      <4> HIDE DEF A
      <4> QED
        BY <1>1, <1>8, <3>1, <4>1
    <3>2. CASE cp.page > cp.first
      <4> HIDE DEF A
      <4> QED
        BY <1>1, <1>8, <3>2
    <3> QED
      BY <1>1, <1>12, <3>1, <3>2
  <2>3. Rest' = A + SecPerPage
    BY <1>10, <2>1
  <2> HIDE DEF A
  <2>4. c.col = 0 \/ c.buf = <<>>
    <3>1. w = 0 => L = 0
      BY <1>1, <2>1 DEF Least
    <3> QED
      BY <1>2, <1>8, <3>1
  <2>5. ASSUME NEW o \in Off, o >= A + SecPerPage
        PROVE  Wanted(o) = IF o - (A + SecPerPage) < L - w THEN c.buf[o - (A + SecPerPage) + 1]
                           ELSE cell[cp.src][o]
    <3>1. o \in Nat /\ o >= Rest
      BY <1>1, <2>2, <2>5 DEF Off
    <3>2. Wanted(o) = IF o - Rest < L THEN cp.buf[o - Rest + 1] ELSE cell[cp.src][o]
      BY <1>7, <3>1
    <3>3. CASE L <= SecPerPage - cp.col
      <4>1. w = L
        BY <1>1, <2>1, <3>3 DEF Least
      <4>2. ~ (o - Rest < L)
        BY <1>1, <2>2, <2>5, <3>1, <3>3
      <4>3. ~ (o - (A + SecPerPage) < L - w)
        BY <1>1, <2>5, <3>1, <4>1
      <4> QED
        BY <3>2, <4>2, <4>3
    <3>4. CASE ~ (L <= SecPerPage - cp.col)
      <4>1. w = SecPerPage - cp.col /\ L # 0
        BY <1>1, <2>1, <3>4 DEF Least
      <4>2. Rest = A + cp.col
        BY <2>2, <4>1
      <4> DEFINE j == o - (A + SecPerPage) + 1
      <4>3. /\ j \in Nat \ {0} /\ w + j = o - Rest + 1
            /\ o - Rest < L <=> o - (A + SecPerPage) < L - w
            /\ o - (A + SecPerPage) < L - w <=> j \in 1 .. (L - w)
        <5>1. /\ w \in Int /\ A \in Nat /\ SecPerPage \in Nat /\ cp.col \in Nat
              /\ A + SecPerPage \in Nat /\ o \in Nat /\ L \in Nat
          BY <1>1, <3>1, <4>1
        <5>2. j \in Nat \ {0} /\ w + j = o - Rest + 1
          <6>1. j \in Nat \ {0}
            BY <5>1, <2>5
          <6>2. w + j = SecPerPage - cp.col + (o - (A + SecPerPage) + 1)
            BY <4>1
          <6>3. w + j = o - (A + cp.col) + 1
            BY <5>1, <6>2
          <6> QED
            BY <4>2, <6>1, <6>3
        <5>3. o - Rest < L <=> o - (A + SecPerPage) < L - w
          BY <1>1, <3>1, <4>1, <4>2
        <5>4. o - (A + SecPerPage) < L - w <=> j \in 1 .. (L - w)
          BY <5>1, <5>2
        <5> QED
          BY <5>2, <5>3, <5>4
      <4> HIDE DEF j
      <4>4. j \in 1 .. (L - w) => c.buf[j] = cp.buf[o - Rest + 1]
        BY <1>2, <4>3
      <4> QED
        BY <3>2, <4>3, <4>4 DEF j
    <3> QED
      BY <3>3, <3>4
  <2>6. cp'.page > cp'.first
    BY <1>4, <2>1
  <2>7. \A o \in Off : o >= Rest' =>
            Wanted(o)' = IF o - Rest' < Len(cp'.buf) THEN cp'.buf[o - Rest' + 1]
                         ELSE cell'[cp'.src][o]
    BY <1>2, <1>4, <1>5, <2>3, <2>5
  <2>8. DataLeft'
    BY <1>4, <2>4, <2>6, <2>7 DEF DataLeft
  <2> QED
    BY <1>4, <2>8
<1> QED
  BY <1>1, <1>11, <1>12

LEMMA DataAtPage ==
    ASSUME FtlShape, MapInv, DataLeft, PagesCopied, CopyPage
    PROVE  DataLeft' /\ PagesCopied'
<1>1. /\ cp.pc = "page" /\ cp.page < NPages /\ CopiedPage /\ UNCHANGED call
      /\ cp' = [Consumed(cp) EXCEPT !.page = @ + 1]
  BY DEF CopyPage
<1>2. /\ cp.dst \in Block /\ cp.src \in Block /\ cp.dst # cp.src
      /\ cp.page \in Page
  <2>1. CopyType /\ cp.dst # cp.src
    BY <1>1, CopiedTags DEF FtlShape
  <2>2. cp.page \in 0 .. NPages /\ NPages \in Nat
    BY <2>1, CopyFields, GeometryAssumption
  <2>3. cp.dst \in Block /\ cp.src \in Block
    BY <2>1, CopyFields
  <2> QED
    BY <1>1, <2>1, <2>2, <2>3 DEF Page
<1>3. /\ \A b \in Block \ {cp.dst} : cell'[b] = cell[b]
      /\ \A o \in Off : cell'[cp.dst][o] =
             IF InPage(o, cp.page) THEN Program(cell[cp.dst][o], PageImage[o])
             ELSE cell[cp.dst][o]
  BY <1>1, <1>2, ImageType, ProgrammedType DEF CopiedPage, FtlShape
<1>4. cell'[cp.src] = cell[cp.src]
  BY <1>2, <1>3
<1>5. /\ DataLeft' /\ cp'.src = cp.src /\ cp'.dst = cp.dst /\ cp'.pc = "page"
      /\ cp'.page = cp.page + 1
  BY <1>1, <1>4, DataAfterPage
<1>6. ASSUME NEW o \in Off
      PROVE  cell'[cp'.dst][o] = IF o < cp'.page * SecPerPage THEN Wanted(o)' ELSE Blank
  <2> DEFINE A == cp.page * SecPerPage
             E == (cp.page + 1) * SecPerPage
  <2>1. A \in Nat /\ E \in Nat /\ o \in Nat /\ A <= E
    BY <1>2, BlockSize, ProductGrows DEF Page, Off
  <2>2. InPage(o, cp.page) <=> A <= o /\ o < E
    BY <1>2, InPageIs
  <2>3. cell[cp.dst][o] = IF o < A THEN Wanted(o) ELSE Blank
    BY <1>1 DEF PagesCopied
  <2>4. Wanted(o)' = Wanted(o)
    BY <1>1, <1>4, <1>5, WantedSame
  <2>5. cp'.page * SecPerPage = E
    BY <1>5
  <2> HIDE DEF A, E
  <2>6. CASE InPage(o, cp.page)
    <3>1. cell[cp.dst][o] = Blank
      BY <2>1, <2>2, <2>3, <2>6
    <3>2. PageImage[o] = Wanted(o)
      BY <1>1, <2>6, PageImageWanted
    <3>3. Program(Blank, PageImage[o]) = PageImage[o]
      BY DEF Program
    <3> QED
      BY <1>3, <1>5, <2>2, <2>4, <2>5, <2>6, <3>1, <3>2, <3>3
  <2>7. CASE ~ InPage(o, cp.page)
    BY <1>3, <1>5, <2>1, <2>2, <2>3, <2>4, <2>5, <2>7
  <2> QED
    BY <2>6, <2>7
<1> QED
  BY <1>5, <1>6 DEF PagesCopied

CopyData == NoBadCopy /\ FreeIsBlank /\ DataLeft /\ PagesCopied

LEMMA CopyDataStep ==
    ASSUME FtlShape, MapInv, CopyData, ~ Fails, PowerCut => cp.pc # "zero", [Next]_vars
    PROVE  CopyData'
<1>1. NoBadCopy' /\ FreeIsBlank'
  BY CopyActions, FreeBlankStep DEF CopyData
<1>2. DataLeft' /\ PagesCopied'
  <2>1. CASE cp'.pc \notin {"find", "page"}
    BY <2>1 DEF DataLeft, PagesCopied
  <2>2. CASE WriteByCopy \/ ReadMoves
    BY <2>2, DataAtStart DEF PagesCopied
  <2>3. CASE CopyFind /\ cp'.pc \in {"find", "page"}
    <3>1. NoHalf
      BY DEF MapInv, FtlShape, EnvType, NoHalf
    <3> QED
      BY <2>3, <3>1, DataAtFind DEF CopyData
  <2>4. CASE CopyPage
    BY <2>4, DataAtPage DEF CopyData
  <2>5. CASE UNCHANGED vars
    BY <2>5
    DEF vars, CopyData, DataLeft, PagesCopied, Rest, BlkOff, Pos, Wanted, Left, ToBlkEnd
  <2> QED
    BY <2>1, <2>2, <2>3, <2>4, <2>5, CopyActions DEF CopyData
<1> QED
  BY <1>1, <1>2 DEF CopyData

LEMMA CopyDataStart == Init => CopyData /\ SpentType
<1> SUFFICES ASSUME Init
             PROVE  CopyData /\ SpentType
  OBVIOUS
<1>1. cp.pc = "none" /\ \A b \in Block, o \in Off : cell[b][o] = Blank
  BY DEF Init, NoCopy
<1>2. SpentType
  BY DEF Init, SpentType
<1> QED
  BY <1>1, <1>2 DEF CopyData, NoBadCopy, FreeIsBlank, DataLeft, PagesCopied

LEMMA CopyDataComplete ==
    ASSUME FtlShape, CopyData
    PROVE  CopyComplete
<1>1. ASSUME cp.pc = "page", cp.page = NPages, NEW o \in Off
      PROVE  cell[cp.dst][o] = Wanted(o)
  <2>1. o < cp.page * SecPerPage
    BY <1>1, BlockSize DEF Off, SecPerBlk
  <2> QED
    BY <1>1, <2>1 DEF CopyData, PagesCopied
<1> QED
  BY <1>1 DEF CopyComplete

\* FTL_CopyAndWriteToBlock, when no page program or copy fails: before the source is
\* erased the destination holds all of it, with the caller's data laid over the sectors
\* it asked for, whatever page and column they begin at.  Power may be cut at any moment
\* of a chip that does not wear; a cut while a read fills a worn block with zeros leaves
\* a free block that is not blank, and is left out.
THEOREM CopiesComplete ==
    ASSUME MaxFaults = 0, MaxCuts = 0 \/ MaxWears = 0
    PROVE  Spec /\ []SpareFound => []CopyComplete
<1>1. SpentType => ~ Fails
  BY DEF SpentType, Fails, Unbounded
<1>4. FtlShape /\ MapInv /\ SpareFound /\ SpentType /\ [Next]_vars => MapInv'
  BY <1>1, MapStep, NothingHalved DEF MapInv
<1>2. CASE MaxCuts = 0
  <2>1. SpentType => ~ PowerCut
    BY <1>2 DEF SpentType, PowerCut
  <2>2. FtlShape /\ MapInv /\ SpareFound /\ SpentType /\ CopyData /\ [Next]_vars
            => (SpentType /\ CopyData /\ MapInv)'
    BY <1>1, <1>4, <2>1, SpentStep, CopyDataStep
  <2> QED
    BY <2>2, CopyDataStart, CopyDataComplete, FtlShapeAlways, MapStart, PTL DEF Spec
<1>3. CASE MaxWears = 0
  <2>1. FtlShape /\ NoWear => cp.pc # "zero"
    BY DEF FtlShape, InCall, Scrubbing, NoWear
  <2>2. FtlShape /\ MapInv /\ SpareFound /\ SpentType /\ NoWear /\ CopyData /\ [Next]_vars
            => (SpentType /\ CopyData /\ MapInv)'
    BY <1>1, <1>4, <2>1, SpentStep, CopyDataStep
  <2>3. Spec => [](SpentType /\ NoWear)
    BY <1>3, NoWearAlways
  <2> QED
    BY <2>2, <2>3, CopyDataStart, CopyDataComplete, FtlShapeAlways, MapStart, PTL DEF Spec
<1> QED
  BY <1>2, <1>3

-----------------------------------------------------------------------------
(* The array of sectors that the file system sees.                           *)

LEMMA SectorPlace ==
    ASSUME NEW s \in Sector
    PROVE  /\ s \in Nat /\ s % SecPerBlk \in Off /\ s \div SecPerBlk \in Nat
           /\ s = SecPerBlk * (s \div SecPerBlk) + (s % SecPerBlk)
<1>1. Goodblock(NBlocks) \in Nat
  BY ShareOf, BlockNumbers
<1>2. Goodblock(NBlocks) * SecPerBlk \in Nat
  BY <1>1, BlockSize, Product
<1>3. s \in Nat
  BY <1>2 DEF Sector
<1> QED
  BY <1>3, Division, BlockSize DEF Off

\* A run of sectors in one block.
LEMMA SectorsOfTurn ==
    ASSUME NEW s \in Nat, NEW p \in Nat, NEW k \in Nat, (p % SecPerBlk) + k <= SecPerBlk
    PROVE  s >= p /\ s < p + k
               <=> /\ s \div SecPerBlk = p \div SecPerBlk
                   /\ (s % SecPerBlk) - (p % SecPerBlk) \in 0 .. (k - 1)
<1> DEFINE q == s \div SecPerBlk
           r == s % SecPerBlk
           u == p \div SecPerBlk
           v == p % SecPerBlk
           N == SecPerBlk
<1>1. /\ N \in Nat \ {0} /\ q \in Nat /\ u \in Nat /\ r \in 0 .. (N - 1) /\ v \in 0 .. (N - 1)
      /\ s = N * q + r /\ p = N * u + v /\ v + k <= N
  BY Division, BlockSize
<1> SUFFICES s >= p /\ s < p + k <=> q = u /\ r - v \in 0 .. (k - 1)
  OBVIOUS
<1> HIDE DEF q, r, u, v, N
<1>2. /\ N * q = q * N /\ N * u = u * N /\ q * N \in Nat /\ u * N \in Nat
      /\ (q + 1) * N = q * N + N /\ (u + 1) * N = u * N + N
  BY <1>1, Product
<1>3. CASE q = u
  BY <1>1, <1>2, <1>3
<1>4. CASE q < u
  <2>1. (q + 1) * N <= u * N
    BY <1>1, <1>4, ProductGrows
  <2>2. s < p
    BY <1>1, <1>2, <2>1
  <2> QED
    BY <1>1, <1>4, <2>2
<1>5. CASE u < q
  <2>1. (u + 1) * N <= q * N
    BY <1>1, <1>5, ProductGrows
  <2>2. s >= p + k
    BY <1>1, <1>2, <2>1
  <2> QED
    BY <1>1, <1>5, <2>2
<1> QED
  BY <1>1, <1>3, <1>4, <1>5

\* The disk that is up: the table leads to the block of a sector.
LEMMA DiskUp ==
    ASSUME Mounted, NEW s \in Sector
    PROVE  Disk[s] = IF s \div SecPerBlk \in Block /\ lut[s \div SecPerBlk] # NoBlk
                     THEN cell[lut[s \div SecPerBlk]][s % SecPerBlk] ELSE Blank
BY DEF Disk, Lookup, Mounted

\* Blank cells make a blank disk, whatever the table is.
BlankCells == \A b \in Block, o \in Off : cell[b][o] = Blank
BlankSectors == Disk = [s \in Sector |-> Blank]
LEMMA BlankDisk == FtlShape /\ BlankCells => BlankSectors
<1> SUFFICES ASSUME FtlShape, BlankCells
             PROVE  BlankSectors
  OBVIOUS
<1>1. ASSUME NEW s \in Sector
      PROVE  Lookup(s) \in Block \cup {NoBlk}
  <2>1. /\ lut \in [Block -> Block \cup {NoBlk}]
        /\ CreateLUT(tag) \in [Block -> Block \cup {NoBlk}]
    BY TableOf DEF FtlShape, RamType
  <2> QED
    BY <2>1 DEF Lookup
<1>2. ASSUME NEW s \in Sector
      PROVE  (IF Lookup(s) = NoBlk THEN Blank ELSE cell[Lookup(s)][s % SecPerBlk]) = Blank
  BY <1>1, <1>2, SectorPlace DEF BlankCells
<1> QED
  BY <1>2 DEF Disk, BlankSectors

LEMMA DiskType == FtlShape => Disk \in [Sector -> Content]
<1> SUFFICES ASSUME FtlShape, NEW s \in Sector
             PROVE  (IF Lookup(s) = NoBlk THEN Blank ELSE cell[Lookup(s)][s % SecPerBlk])
                        \in Content
  BY DEF Disk
<1>1. /\ lut \in [Block -> Block \cup {NoBlk}]
      /\ CreateLUT(tag) \in [Block -> Block \cup {NoBlk}]
      /\ cell \in [Block -> [Off -> Content]]
  BY TableOf DEF FtlShape, RamType, FlashType
<1>2. Lookup(s) \in Block \cup {NoBlk}
  BY <1>1 DEF Lookup
<1> QED
  BY <1>1, <1>2, SectorPlace DEF Content

\* A step that leaves every block of the table with what it held, moved or not.
LEMMA DiskKept ==
    ASSUME Mounted, Mounted',
           \A l \in Block : /\ lut'[l] = NoBlk <=> lut[l] = NoBlk
                            /\ lut[l] # NoBlk => \A o \in Off :
                                   cell'[lut'[l]][o] = cell[lut[l]][o]
    PROVE  Disk' = Disk
<1>1. ASSUME NEW s \in Sector
      PROVE  Disk'[s] = Disk[s]
  <2>1. Disk'[s] = IF s \div SecPerBlk \in Block /\ lut'[s \div SecPerBlk] # NoBlk
                   THEN cell'[lut'[s \div SecPerBlk]][s % SecPerBlk] ELSE Blank
    BY DEF Disk, Lookup, Mounted
  <2> QED
    BY <2>1, DiskUp, SectorPlace
<1>2. Disk = [s \in Sector |-> Disk[s]] /\ Disk' = [s \in Sector |-> Disk'[s]]
  BY DEF Disk
<1> QED
  BY <1>1, <1>2

\* Between two copies the table is the one that FTL_CreateLUT would build.
LEMMA TableIsCurrent ==
    ASSUME FtlShape, MapInv, Owners, Mounted, ~ (cp.pc = "page" /\ cp.page > 0)
    PROVE  lut = CreateLUT(tag)
<1>1. lut \in [Block -> Block \cup {NoBlk}] /\ CreateLUT(tag) \in [Block -> Block \cup {NoBlk}]
  BY TableOf DEF FtlShape, RamType
<1>2. ASSUME NEW l \in Block
      PROVE  lut[l] = CreateLUT(tag)[l]
  <2>1. \A b \in Block : tag[b] = l => lut[l] = b
    BY DEF Owners, AllMapped, Target
  <2>2. lut[l] # NoBlk => lut[l] \in Block /\ tag[lut[l]] = l
    BY <1>1 DEF MapInv, MapAgrees
  <2>3. CreateLUT(tag)[l] # NoBlk => CreateLUT(tag)[l] \in Block /\ tag[CreateLUT(tag)[l]] = l
    BY <1>1, TableOf
  <2>4. lut[l] # NoBlk => CreateLUT(tag)[l] # NoBlk
    BY <2>2, TableOf
  <2> QED
    BY <2>1, <2>2, <2>3, <2>4
<1> QED
  BY <1>1, <1>2

\* The block of the turn is the one that the table has for its logical block, and no other
\* logical block has it.
LEMMA BlockOfTurn ==
    ASSUME FtlShape, MapInv, Mounted, PBN # NoBlk
    PROVE  /\ Pos \div SecPerBlk \in Block /\ lut[Pos \div SecPerBlk] = PBN /\ PBN \in Block
           /\ \A l \in Block : lut[l] = PBN => l = Pos \div SecPerBlk
<1>1. Pos \div SecPerBlk \in Block /\ lut[Pos \div SecPerBlk] = PBN
  BY DEF PBN, LBNToPBN
<1>2. PBN \in Block
  BY <1>1 DEF FtlShape, RamType
<1> QED
  BY <1>1, <1>2 DEF MapInv, MapAgrees

\* A turn of a write: the block of the turn, or the one that took its place, has the
\* data in k sectors and what was there in the others.
TurnStored(d, k) ==
    LET L == Pos \div SecPerBlk IN
    /\ lut' = [lut EXCEPT ![L] = d]
    /\ \A l \in Block \ {L} : lut[l] # NoBlk => cell'[lut[l]] = cell[lut[l]]
    /\ \A o \in Off : cell'[d][o] = IF o - BlkOff \in 0 .. (k - 1)
                                    THEN call.buf[call.i + (o - BlkOff) + 1]
                                    ELSE cell[PBN][o]

LEMMA TurnStoredDisk ==
    ASSUME FtlShape, MapInv, call.op = "write", call.i < call.n, PBN # NoBlk,
           NEW d \in Block, NEW k \in Nat, BlkOff + k <= SecPerBlk,
           TurnStored(d, k), call' = Done(k), NEW s \in Sector
    PROVE  Disk'[s] = IF s >= Pos /\ s < Pos + k THEN call.buf[s - call.at + 1] ELSE Disk[s]
<1> DEFINE L == Pos \div SecPerBlk
           q == s \div SecPerBlk
           r == s % SecPerBlk
<1>1. /\ s \in Nat /\ r \in Off /\ q \in Nat
      /\ s = SecPerBlk * q + r
  BY SectorPlace
<1>2. /\ L \in Block /\ lut[L] = PBN /\ PBN \in Block /\ Mounted
      /\ \A l \in Block : lut[l] = PBN => l = L
      /\ lut \in [Block -> Block \cup {NoBlk}]
  BY BlockOfTurn DEF Mounted, FtlShape, RamType
<1>3. Pos \in Nat /\ BlkOff = Pos % SecPerBlk /\ BlkOff \in Nat
      /\ Pos = SecPerBlk * L + BlkOff /\ SecPerBlk \in Nat
  <2>1. Pos \in Nat
    BY Place DEF FtlShape
  <2> QED
    BY <2>1, Division, BlockSize DEF BlkOff
<1>4. s >= Pos /\ s < Pos + k <=> q = L /\ r - BlkOff \in 0 .. (k - 1)
  BY <1>1, <1>3, SectorsOfTurn
<1>5. Mounted'
  <2>1. call \in CallRec
    BY DEF FtlShape, CallType
  <2> QED
    BY <2>1 DEF Done, Mounted, CallRec
<1>6. Disk'[s] = IF q \in Block /\ lut'[q] # NoBlk THEN cell'[lut'[q]][r] ELSE Blank
  BY <1>5 DEF Disk, Lookup, Mounted
<1>7. Disk[s] = IF q \in Block /\ lut[q] # NoBlk THEN cell[lut[q]][r] ELSE Blank
  BY <1>2, DiskUp
<1>8. /\ lut' = [lut EXCEPT ![L] = d]
      /\ \A l \in Block \ {L} : lut[l] # NoBlk => cell'[lut[l]] = cell[lut[l]]
      /\ \A o \in Off : cell'[d][o] = IF o - BlkOff \in 0 .. (k - 1)
                                      THEN call.buf[call.i + (o - BlkOff) + 1]
                                      ELSE cell[PBN][o]
  BY DEF TurnStored
<1>9. d # NoBlk
  BY BlockNumbers
<1> HIDE DEF L, q, r
<1>10. CASE q # L
  <2>1. q \in Block => lut'[q] = lut[q]
    BY <1>2, <1>8, <1>10
  <2> QED
    BY <1>2, <1>4, <1>6, <1>7, <1>8, <1>10, <2>1
<1>11. CASE q = L
  <2>1. lut'[q] = d /\ lut[q] = PBN /\ q \in Block
    BY <1>2, <1>8, <1>11
  <2>2. Disk'[s] = cell'[d][r] /\ Disk[s] = cell[PBN][r]
    BY <1>6, <1>7, <1>9, <2>1
  <2>3. CASE r - BlkOff \in 0 .. (k - 1)
    <3>1. Disk'[s] = call.buf[call.i + (r - BlkOff) + 1]
      BY <1>1, <1>8, <2>2, <2>3
    <3>2. call.at \in Nat /\ call.i \in Nat /\ Pos = call.at + call.i
      BY CallFields DEF FtlShape, Pos
    <3>3. r \in Nat /\ BlkOff \in Nat
      BY <1>1, <1>3, BlockSize DEF Off
    <3>4. s - Pos = r - BlkOff
      <4>1. PICK m \in Nat : m = SecPerBlk * L
        BY <1>1, <1>3, <1>11, Product
      <4>2. s = m + r /\ Pos = m + BlkOff
        BY <1>1, <1>3, <1>11, <4>1
      <4> QED
        BY <3>3, <4>1, <4>2
    <3>5. call.i + (r - BlkOff) + 1 = s - call.at + 1
      BY <1>1, <3>2, <3>3, <3>4
    <3> QED
      BY <1>4, <1>11, <2>3, <3>1, <3>5
  <2>4. CASE r - BlkOff \notin 0 .. (k - 1)
    BY <1>1, <1>4, <1>8, <2>2, <2>4
  <2> QED
    BY <2>3, <2>4
<1> QED
  BY <1>10, <1>11

\* Such a turn is a step of the array, and the sectors before the next turn are stored.
LEMMA TurnIsStore ==
    ASSUME FtlShape, MapInv, CallData, WrittenSoFar, call.op = "write", call.i < call.n,
           PBN # NoBlk, NEW d \in Block, NEW k \in Nat, k <= Left, BlkOff + k <= SecPerBlk,
           TurnStored(d, k), call' = Done(k)
    PROVE  WrittenSoFar' /\ Device!Store
<1>1. /\ call \in CallRec /\ call.at \in Nat /\ call.i \in Nat /\ call.n \in Nat
      /\ call.buf \in Seq(Val) /\ Len(call.buf) = call.n /\ call.i + k <= call.n
      /\ Pos = call.at + call.i
  BY CallFields DEF FtlShape, CallType, Left, Pos
<1>2. /\ call'.op = "write" /\ call'.at = call.at /\ call'.i = call.i + k
      /\ call'.n = call.n /\ call'.buf = call.buf
  BY <1>1 DEF Done, CallRec
<1>3. \A s \in Sector :
          /\ s \in Nat
          /\ Disk'[s] = IF s >= Pos /\ s < Pos + k THEN call.buf[s - call.at + 1]
                        ELSE Disk[s]
  BY TurnStoredDisk, SectorPlace
<1>4. WrittenSoFar'
  <2> SUFFICES ASSUME NEW s \in Sector, s >= call.at, s < call.at + call.i + k
               PROVE  Disk'[s] = call.buf[s - call.at + 1]
    BY <1>1, <1>2 DEF WrittenSoFar
  <2>1. CASE s >= Pos
    BY <1>1, <1>3, <2>1
  <2>2. CASE s < Pos
    BY <1>1, <1>3, <2>2 DEF WrittenSoFar
  <2> QED
    BY <1>1, <1>3, <2>1, <2>2
<1>5. Device!Store
  <2>1. Request = [at |-> call.at, buf |-> call.buf] /\ Request' = Request
        /\ LastAnswer = "none" /\ LastAnswer' = "none"
    BY <1>2 DEF Request, LastAnswer
  <2>2. DOMAIN Disk' = Sector
    BY DEF Disk
  <2>3. ASSUME NEW s \in Sector
        PROVE  \/ Disk'[s] = Disk[s]
               \/ s \in Device!Covered /\ Disk'[s] = Device!NewValue(s)
    <3>1. CASE s >= Pos /\ s < Pos + k
      <4>1. s >= call.at /\ s < call.at + Len(call.buf)
        BY <1>1, <1>3, <3>1
      <4> QED
        BY <1>3, <2>1, <3>1, <4>1 DEF Device!Covered, Device!NewValue
    <3>2. CASE ~ (s >= Pos /\ s < Pos + k)
      BY <1>3, <3>2
    <3> QED
      BY <3>1, <3>2
  <2> QED
    BY <2>1, <2>2, <2>3 DEF Device!Store
<1> QED
  BY <1>4, <1>5

\* A page that is programmed where it is blank.
LEMMA InPlaceStored ==
    ASSUME FtlShape, MapInv, WriteInPlace
    PROVE  /\ call.op = "write" /\ call.i < call.n /\ PBN # NoBlk /\ PBN \in Block
           /\ Len(PagePart) \in Nat /\ Len(PagePart) <= Left
           /\ BlkOff + Len(PagePart) <= SecPerBlk
           /\ TurnStored(PBN, Len(PagePart)) /\ call' = Done(Len(PagePart))
<1>1. /\ call.op = "write" /\ call.i < call.n /\ PBN # NoBlk /\ Mounted
      /\ call' = Done(Len(PagePart)) /\ UNCHANGED lut /\ RangeBlank /\ WriteDirect
  BY DEF WriteInPlace, Writing, Mounted, ram, env
<1>2. /\ FlashType /\ RamType /\ CallType
      /\ cell \in [Block -> [Off -> Content]] /\ lut \in [Block -> Block \cup {NoBlk}]
  BY DEF FtlShape, FlashType, RamType
<1>3. PICK k \in Nat : k = Least(Left, ToPageEnd)
  BY <1>1, <1>2, Parts
<1>4. k <= Left /\ k <= ToPageEnd /\ ToPageEnd <= ToBlkEnd /\ ToBlkEnd = SecPerBlk - BlkOff
  BY <1>1, <1>2, <1>3, Parts
<1>5. /\ PagePart = Part(k) /\ Len(PagePart) = k
      /\ \A j \in 1 .. k : PagePart[j] = call.buf[call.i + j]
  BY <1>1, <1>2, <1>3, <1>4, PartIsData DEF PagePart
<1>6. /\ BlkOff \in Off /\ BlkOff \in Nat /\ SecPerBlk \in Nat
      /\ BlkOff \div SecPerPage \in Page /\ BlkOff % SecPerPage \in Nat
      /\ (BlkOff \div SecPerPage) * SecPerPage + (BlkOff % SecPerPage) = BlkOff
      /\ ToPageEnd = SecPerPage - (BlkOff % SecPerPage) /\ SecPerPage \in Nat
  <2>1. BlkOff \in Off
    BY <1>2, Place
  <2>2. BlkOff \in Nat /\ SecPerBlk \in Nat /\ SecPerPage \in Nat
    BY <2>1, BlockSize DEF Off
  <2>3. /\ BlkOff \div SecPerPage \in Page
        /\ BlkOff % SecPerPage \in 0 .. (SecPerPage - 1)
        /\ (BlkOff \div SecPerPage) * SecPerPage + (BlkOff % SecPerPage) = BlkOff
    BY <2>1, PageOfSector
  <2>4. BlkOff % SecPerPage \in Nat
    BY <2>2, <2>3
  <2> QED
    BY <2>1, <2>2, <2>3, <2>4 DEF ToPageEnd
<1>7. /\ PBN \in Block /\ lut[Pos \div SecPerBlk] = PBN
      /\ \A l \in Block : lut[l] = PBN => l = Pos \div SecPerBlk
  BY <1>1, BlockOfTurn
<1> DEFINE p == BlkOff \div SecPerPage
           img == [o \in Off |-> IF o - BlkOff \in 0 .. (Len(PagePart) - 1)
                                 THEN PagePart[o - BlkOff + 1] ELSE Blank]
<1>8. cell' = Programmed(PBN, p, img)
  BY <1>1 DEF WriteDirect
<1>9. ASSUME NEW o \in Off
      PROVE  cell'[PBN][o] = IF o - BlkOff \in 0 .. (k - 1)
                             THEN call.buf[call.i + (o - BlkOff) + 1] ELSE cell[PBN][o]
  <2>1. cell'[PBN][o] = IF InPage(o, p) THEN Program(cell[PBN][o], img[o]) ELSE cell[PBN][o]
    BY <1>2, <1>7, <1>8 DEF Programmed
  <2>2. o \in Nat
    BY BlockSize DEF Off
  <2>3. CASE o - BlkOff \in 0 .. (k - 1)
    <3>1. img[o] = PagePart[o - BlkOff + 1]
      BY <1>5, <2>3
    <3>2. PICK j \in 1 .. k : j = o - BlkOff + 1
      BY <1>6, <2>2, <2>3
    <3>3. img[o] = call.buf[call.i + j]
      BY <1>5, <3>1, <3>2
    <3>4. call.i + j = call.i + (o - BlkOff) + 1
      BY <1>2, <1>6, <2>2, <3>2, CallFields
    <3>5. InPage(o, p)
      <4>1. PICK m \in Nat : m = p * SecPerPage
        BY <1>6, Product, BlockNumbers, BlockSize DEF Page
      <4>2. (p + 1) * SecPerPage = m + SecPerPage
        BY <1>6, <4>1, BlockSize DEF Page
      <4>3. m <= o /\ o < m + SecPerPage
        BY <1>4, <1>6, <2>2, <2>3, <4>1
      <4> QED
        BY <1>6, <4>1, <4>2, <4>3, InPageIs
    <3>6. cell[PBN][o] = Blank
      <4>1. o \in BlkOff .. (BlkOff + Len(PagePart) - 1)
        BY <1>5, <1>6, <2>2, <2>3
      <4> QED
        BY <1>1, <4>1 DEF RangeBlank, ReadsBlank
    <3>7. Program(Blank, img[o]) = img[o]
      BY DEF Program
    <3> QED
      BY <2>1, <2>3, <3>3, <3>4, <3>5, <3>6, <3>7
  <2>4. CASE o - BlkOff \notin 0 .. (k - 1)
    <3>1. img[o] = Blank
      BY <1>5, <2>4
    <3>2. Program(cell[PBN][o], Blank) = cell[PBN][o]
      BY DEF Program
    <3> QED
      BY <2>1, <2>4, <3>1, <3>2
  <2> QED
    BY <2>3, <2>4
<1>10. ASSUME NEW l \in Block \ {Pos \div SecPerBlk}, lut[l] # NoBlk
       PROVE  cell'[lut[l]] = cell[lut[l]]
  <2>1. lut[l] \in Block \ {PBN}
    BY <1>2, <1>7, <1>10
  <2> QED
    BY <1>2, <1>8, <2>1 DEF Programmed
<1>11. lut' = [lut EXCEPT ![Pos \div SecPerBlk] = PBN]
  BY <1>1, <1>2, <1>7
<1>12. TurnStored(PBN, k)
  BY <1>9, <1>10, <1>11 DEF TurnStored
<1> QED
  BY <1>1, <1>4, <1>5, <1>6, <1>7, <1>12

\* What CopyEnd does with the table and the cells, when nothing fails: the destination
\* takes the place of the source.
LEMMA CopyEndMoves ==
    ASSUME FtlShape, MapInv, SourceFound, CopyComplete, ~ Fails, CopyEnd
    PROVE  LET L == Pos \div SecPerBlk IN
           /\ Mounted /\ call.i < call.n /\ PBN # NoBlk /\ cp.src = PBN /\ cp.dst \in Block
           /\ L \in Block /\ lut[L] = PBN /\ lut' = [lut EXCEPT ![L] = cp.dst]
           /\ \A l \in Block \ {L} : lut[l] # NoBlk => cell'[lut[l]] = cell[lut[l]]
           /\ \A o \in Off : cell'[cp.dst][o] = Wanted(o)
<1>1. /\ cp.pc = "page" /\ cp.page = NPages /\ lut' = Redirected
      /\ cell' = [cell EXCEPT ![cp.src] = [o \in Off |-> Blank]]
  BY DEF CopyEnd, Erased, Blanked, Fault
<1>2. /\ cp.src \in Block /\ cp.dst \in Block /\ cp.src # NoBlk /\ cp.src # cp.dst
      /\ call.op \in {"write", "read"} /\ call.i < call.n /\ Mounted
      /\ lut \in [Block -> Block \cup {NoBlk}] /\ cell \in [Block -> [Off -> Content]]
  BY <1>1, CopyFields, BlockNumbers
  DEF FtlShape, InCall, RamType, FlashType, Mounted, MapInv, CopyUnderWay
<1>3. cp.src = PBN /\ PBN # NoBlk /\ ~ halved /\ MapAgrees
  BY <1>1, <1>2 DEF SourceFound, MapInv
<1>4. /\ Pos \div SecPerBlk \in Block /\ lut[Pos \div SecPerBlk] = PBN
      /\ \A l \in Block : lut[l] = PBN => l = Pos \div SecPerBlk
  BY <1>2, <1>3, BlockOfTurn
<1>5. lut' = [lut EXCEPT ![Pos \div SecPerBlk] = cp.dst]
  <2>1. \/ Redirected = lut /\ \A l \in Block : lut[l] # cp.src
        \/ \E l \in Block : lut[l] = cp.src /\ Redirected = [lut EXCEPT ![l] = cp.dst]
    BY RedirectedIs DEF FtlShape
  <2> QED
    BY <1>1, <1>3, <1>4, <2>1
<1>6. ASSUME NEW l \in Block \ {Pos \div SecPerBlk}, lut[l] # NoBlk
      PROVE  cell'[lut[l]] = cell[lut[l]]
  <2>1. lut[l] \in Block \ {cp.src}
    BY <1>2, <1>3, <1>4, <1>6
  <2> QED
    BY <1>1, <1>2, <2>1
<1>7. \A o \in Off : cell'[cp.dst][o] = Wanted(o)
  <2>1. cell'[cp.dst] = cell[cp.dst]
    BY <1>1, <1>2
  <2> QED
    BY <1>1, <2>1 DEF CopyComplete
<1> QED
  BY <1>2, <1>3, <1>4, <1>5, <1>6, <1>7

LEMMA CopyEndStored ==
    ASSUME FtlShape, MapInv, SourceFound, CopyComplete, ~ Fails, CopyEnd, call.op = "write"
    PROVE  \E k \in Nat :
               /\ k <= Left /\ BlkOff + k <= SecPerBlk
               /\ TurnStored(cp.dst, k) /\ call' = Done(k)
<1>1. /\ call.i < call.n /\ cp.src = PBN /\ cp.dst \in Block
      /\ lut' = [lut EXCEPT ![Pos \div SecPerBlk] = cp.dst]
      /\ \A l \in Block \ {Pos \div SecPerBlk} :
             lut[l] # NoBlk => cell'[lut[l]] = cell[lut[l]]
      /\ \A o \in Off : cell'[cp.dst][o] = Wanted(o)
  BY CopyEndMoves
<1>2. PICK k \in Nat : k = Least(Left, ToBlkEnd)
  BY <1>1, Parts DEF FtlShape
<1>3. k <= Left /\ k <= ToBlkEnd /\ ToBlkEnd = SecPerBlk - BlkOff
  BY <1>1, <1>2, Parts DEF FtlShape
<1>4. BlkOff \in Nat /\ SecPerBlk \in Nat
  BY Place, BlockSize DEF FtlShape, Off
<1>5. \A o \in Off : Wanted(o) = IF o - BlkOff \in 0 .. (k - 1)
                                 THEN call.buf[call.i + (o - BlkOff) + 1] ELSE cell[PBN][o]
  BY <1>1, <1>2 DEF Wanted
<1>6. TurnStored(cp.dst, k)
  BY <1>1, <1>5 DEF TurnStored
<1>7. call' = Done(k)
  BY <1>2 DEF CopyEnd
<1> QED
  BY <1>3, <1>4, <1>6, <1>7

\* A copy that a read makes ends with the same data in another place.
LEMMA CopyEndOfRead ==
    ASSUME FtlShape, MapInv, SourceFound, CopyComplete, ~ Fails, CopyEnd, call.op = "read"
    PROVE  Disk' = Disk
<1> DEFINE L == Pos \div SecPerBlk
<1>1. /\ Mounted /\ cp.src = PBN /\ PBN # NoBlk /\ cp.dst \in Block
      /\ L \in Block /\ lut[L] = PBN /\ lut' = [lut EXCEPT ![L] = cp.dst]
      /\ \A l \in Block \ {L} : lut[l] # NoBlk => cell'[lut[l]] = cell[lut[l]]
      /\ \A o \in Off : cell'[cp.dst][o] = Wanted(o)
  BY CopyEndMoves
<1>2. UNCHANGED call
  BY DEF CopyEnd
<1>3. Mounted'
  BY <1>1, <1>2 DEF Mounted
<1>4. \A o \in Off : Wanted(o) = cell[PBN][o]
  BY <1>1 DEF Wanted
<1>5. cp.dst # NoBlk /\ lut \in [Block -> Block \cup {NoBlk}]
  BY <1>1, BlockNumbers DEF FtlShape, RamType
<1> HIDE DEF L
<1>6. ASSUME NEW l \in Block
      PROVE  /\ lut'[l] = NoBlk <=> lut[l] = NoBlk
             /\ lut[l] # NoBlk => \A o \in Off : cell'[lut'[l]][o] = cell[lut[l]][o]
  <2>1. CASE l = L
    <3>1. lut'[l] = cp.dst
      BY <1>1, <1>5, <2>1
    <3> QED
      BY <1>1, <1>4, <1>5, <2>1, <3>1
  <2>2. CASE l # L
    <3>1. lut'[l] = lut[l]
      BY <1>1, <1>5, <2>2
    <3> QED
      BY <1>1, <2>2, <3>1
  <2> QED
    BY <2>1, <2>2
<1> QED
  BY <1>1, <1>3, <1>6, DiskKept

\* The destination of a copy is not in the table before the copy ends.
LEMMA CopyPageDisk ==
    ASSUME FtlShape, MapInv, SourceFound, CopyPage
    PROVE  Disk' = Disk
<1>1. /\ cp.pc = "page" /\ cp.page < NPages /\ UNCHANGED <<lut, call>>
      /\ cell' = Programmed(cp.dst, cp.page, PageImage)
  BY DEF CopyPage, CopiedPage, ram, env
<1>2. /\ cp.src \in Block /\ cp.dst \in Block /\ cp.src # cp.dst /\ Mounted
      /\ lut \in [Block -> Block \cup {NoBlk}] /\ cell \in [Block -> [Off -> Content]]
      /\ tag[cp.dst] \in {Free, tag[cp.src]}
  BY <1>1, CopyFields
  DEF FtlShape, InCall, RamType, FlashType, Mounted, MapInv, CopyUnderWay
<1>3. cp.src = PBN /\ PBN # NoBlk /\ ~ halved /\ MapAgrees
  BY <1>1, <1>2, BlockNumbers DEF SourceFound, MapInv
<1>4. \A l \in Block : lut[l] # cp.dst
  <2>1. SUFFICES ASSUME NEW l \in Block, lut[l] = cp.dst
                 PROVE  FALSE
    OBVIOUS
  <2>2. tag[cp.dst] = l
    BY <1>2, <1>3, <2>1, BlockNumbers DEF MapAgrees
  <2>3. tag[cp.src] = l
    BY <1>2, <2>2, BlockNumbers
  <2>4. lut[Pos \div SecPerBlk] = cp.src /\ Pos \div SecPerBlk \in Block
    BY <1>2, <1>3, BlockOfTurn
  <2>5. tag[cp.src] = Pos \div SecPerBlk
    BY <1>2, <1>3, <2>4, BlockNumbers DEF MapAgrees
  <2> QED
    BY <1>2, <2>1, <2>3, <2>4, <2>5
<1>5. Mounted'
  BY <1>1, <1>2 DEF Mounted
<1>6. \A l \in Block : lut[l] # NoBlk => cell'[lut[l]] = cell[lut[l]]
  BY <1>1, <1>2, <1>4 DEF Programmed
<1> QED
  BY <1>1, <1>2, <1>5, <1>6, DiskKept

\* Nor is the block that a read has given up.
LEMMA ScrubDisk ==
    ASSUME FtlShape, MapInv, Mounted',
           ScrubBlank \/ ScrubWipe \/ ScrubZero \/ ScrubEnd
    PROVE  Disk' = Disk
<1>1. /\ Scrubbing /\ cp.src \in Block /\ Mounted /\ UNCHANGED lut
      /\ lut \in [Block -> Block \cup {NoBlk}] /\ cell \in [Block -> [Off -> Content]]
  <2>1. Scrubbing /\ UNCHANGED lut
    BY DEF ScrubBlank, ScrubWipe, ScrubZero, ScrubEnd, Scrubbing, ram, env
  <2> QED
    BY <2>1, CopyFields DEF FtlShape, RamType, FlashType, InCall, Mounted
<1>2. \A b \in Block \ {cp.src} : cell'[b] = cell[b]
  BY <1>1
  DEF ScrubBlank, ScrubWipe, ScrubZero, ScrubEnd, Erased, Blanked, Programmed, flash
<1>3. \A l \in Block : lut[l] # NoBlk => cell'[lut[l]] = cell[lut[l]]
  BY <1>1, <1>2 DEF MapInv, GivenUp
<1> QED
  BY <1>1, <1>3, DiskKept

\* FTL_Init on a disk that is up, and the end of a read that marked a block bad, build
\* the table that is there already.
LEMMA RebuildDisk ==
    ASSUME FtlShape, MapInv, Owners, FtlShape', MapInv', Owners', Mounted, Mounted',
           UNCHANGED cell, cp.pc \notin {"page"}, cp'.pc \notin {"page"},
           \A b \in Block : tag'[b] \in Block \/ tag[b] \in Block => tag'[b] = tag[b]
    PROVE  Disk' = Disk
<1>1. lut = CreateLUT(tag)
  BY TableIsCurrent DEF MapInv
<1>2. lut' = CreateLUT(tag)'
  <2>1. lut' \in [Block -> Block \cup {NoBlk}]
        /\ CreateLUT(tag') \in [Block -> Block \cup {NoBlk}]
    BY TableOf DEF FtlShape, RamType
  <2>2. ASSUME NEW l \in Block
        PROVE  lut'[l] = CreateLUT(tag')[l]
    <3>1. \A b \in Block : tag'[b] = l => lut'[l] = b
      BY DEF Owners, AllMapped, Target
    <3>2. lut'[l] # NoBlk => lut'[l] \in Block /\ tag'[lut'[l]] = l
      BY <2>1 DEF MapInv, MapAgrees
    <3>3. CreateLUT(tag')[l] # NoBlk
              => CreateLUT(tag')[l] \in Block /\ tag'[CreateLUT(tag')[l]] = l
      BY <2>1, TableOf
    <3>4. lut'[l] # NoBlk => CreateLUT(tag')[l] # NoBlk
      BY <3>2, TableOf
    <3> QED
      BY <3>1, <3>2, <3>3, <3>4
  <2> QED
    BY <2>1, <2>2
<1>3. CreateLUT(tag') = CreateLUT(tag)
  <2>1. \A l \in Block : {b \in Block : tag'[b] = l} = {b \in Block : tag[b] = l}
    OBVIOUS
  <2> QED
    BY <2>1 DEF CreateLUT
<1>4. lut' = lut
  BY <1>1, <1>2, <1>3
<1> QED
  BY <1>4, DiskKept

\* FTL_CreateLUT counts the valid blocks up to the first number that no block carries.
LEMMA RebuildNumbers ==
    ASSUME RamType, Rebuild(tag')
    PROVE  /\ valid' \in Nat /\ valid' <= NBlocks
           /\ \A k \in 0 .. (valid' - 1) : \E b \in Block : tag'[b] = k
           /\ \A m \in Nat : m <= valid /\ Numbering(m)' => m <= valid'
<1> DEFINE holes == {l \in Block : CreateLUT(tag')[l] = NoBlk}
<1>1. /\ valid \in 0 .. NBlocks /\ valid' \in 0 .. NBlocks
      /\ valid' = IF holes = {} THEN valid ELSE MinOf(holes)
  BY RebuildType DEF RamType, Rebuild, ValidBlocks
<1>2. /\ NBlocks \in Nat /\ \A k : k \in Block <=> k \in Nat /\ k < NBlocks
  BY BlockNumbers
<1>3. \A l \in Block : l \notin holes <=> \E b \in Block : tag'[b] = l
  BY TableOf, BlockNumbers
<1>4. holes # {} => MinOf(holes) \in holes /\ \A y \in holes : MinOf(holes) <= y
  BY MinBlock
<1> HIDE DEF holes
<1>5. \A k \in 0 .. (valid' - 1) : \E b \in Block : tag'[b] = k
  <2>1. SUFFICES ASSUME NEW k \in 0 .. (valid' - 1)
                 PROVE  k \in Block /\ k \notin holes
    BY <1>3
  <2>2. k \in Nat /\ k < valid' /\ valid' <= NBlocks
    BY <1>1, <1>2
  <2>3. k \in Block
    BY <1>1, <1>2, <2>2
  <2>4. k \notin holes
    <3>1. CASE holes = {}
      BY <3>1
    <3>2. CASE holes # {}
      <4>1. \A y \in holes : valid' <= y
        BY <1>1, <1>4, <3>2
      <4> QED
        BY <1>1, <1>2, <2>2, <4>1
    <3> QED
      BY <3>1, <3>2
  <2> QED
    BY <2>3, <2>4
<1>6. ASSUME NEW m \in Nat, m <= valid, \A k \in 0 .. (m - 1) : \E b \in Block : tag'[b] = k
      PROVE  m <= valid'
  <2>1. CASE holes = {}
    BY <1>1, <1>6, <2>1
  <2>2. CASE holes # {}
    <3>1. valid' \in Block /\ valid' \in holes
      BY <1>1, <1>4, <2>2 DEF holes
    <3>2. ~ \E b \in Block : tag'[b] = valid'
      BY <1>3, <3>1
    <3>3. valid' \notin 0 .. (m - 1)
      BY <1>6, <3>2
    <3> QED
      BY <1>1, <1>2, <3>3
  <2> QED
    BY <2>1, <2>2
<1> QED
  BY <1>1, <1>2, <1>5, <1>6 DEF Numbering

LEMMA UsableStep ==
    ASSUME FtlShape, MapInv, ~ halved', Usable, SpareFound, ~ PowerCut, [Next]_vars
    PROVE  Usable'
<1>1. MinBlocks \in Nat
  BY GeometryAssumption
<1>2. ASSUME Rebuild(tag'), MinBlocks <= valid'
      PROVE  Usable'
  <2>1. valid' \in Nat /\ \A k \in 0 .. (valid' - 1) : \E b \in Block : tag'[b] = k
    BY <1>2, RebuildNumbers DEF FtlShape
  <2> HIDE <1>2
  <2>2. \A k \in 0 .. (MinBlocks - 1) : k \in 0 .. (valid' - 1)
    <3>1. PICK n \in Nat : n = valid'
      BY <2>1
    <3>2. MinBlocks <= n
      BY <1>2, <3>1
    <3>3. \A k \in 0 .. (MinBlocks - 1) : k \in 0 .. (n - 1)
      BY <1>1, <3>2
    <3> QED
      BY <3>1, <3>3
  <2>3. \A k \in 0 .. (MinBlocks - 1) : \E b \in Block : tag'[b] = k
    BY <2>1, <2>2
  <2>4. Numbering(MinBlocks)'
    BY <2>3 DEF Numbering
  <2> QED
    BY <1>2, <2>4 DEF Usable
<1>3. ASSUME Mounted
      PROVE  Numbering(MinBlocks)' /\ MinBlocks <= valid
  <2>1. MinBlocks <= valid /\ Numbering(MinBlocks)
    BY <1>3 DEF Usable
  <2>2. valid \in Nat /\ valid <= NBlocks
    BY BlockNumbers DEF FtlShape, RamType
  <2>3. Numbered \subseteq Numbered'
    BY <1>3, NumbersStep DEF Mounted
  <2>4. ASSUME NEW k \in 0 .. (MinBlocks - 1)
        PROVE  \E b \in Block : tag'[b] = k
    <3>1. k \in Block
      BY <1>1, <2>1, <2>2, BlockNumbers
    <3>2. k \in Numbered
      BY <2>1, <3>1, BlockNumbers DEF Numbering, Numbered, Good, IsBad
    <3> QED
      BY <2>3, <3>2 DEF Numbered, Good
  <2> QED
    BY <2>1, <2>4 DEF Numbering
<1>4. CASE FTL_Init
  <2>1. Rebuild(tag')
    BY <1>4 DEF FTL_Init, Rebuild, flash
  <2>2. Mounted' => valid' >= MinBlocks
    BY <1>4 DEF FTL_Init, Mounted, Call
  <2>3. valid' \in Nat
    BY <2>1, RebuildNumbers DEF FtlShape
  <2>4. CASE Mounted'
    BY <1>1, <1>2, <2>1, <2>2, <2>3, <2>4
  <2> QED
    BY <2>4 DEF Usable
<1>5. CASE Erasing \/ FormatMark \/ FormatSkip
  <2>1. call.op \in {"erase", "mark"} /\ call \in CallRec
    BY <1>5 DEF Erasing, FormatErase, FormatEraseLate, FormatErased, FormatMark, FormatSkip,
                NumberingOn, FtlShape, CallType
  <2>2. \/ call' = [call EXCEPT !.i = @ + 1]
        \/ call' = [call EXCEPT !.i = @ + 1, !.at = @ + 1]
        \/ call' = [call EXCEPT !.i = @ + 1, !.n = @ + 1]
        \/ \E op \in {"dead", "mark"} : call' = [call EXCEPT !.i = 0, !.op = op]
    BY <1>5 DEF Erasing, FormatErase, FormatEraseLate, FormatErased, FormatMark, FormatSkip
  <2> QED
    BY <2>1, <2>2 DEF CallRec, Usable, Mounted
<1>6. CASE FormatEnd
  <2>1. Rebuild(tag')
    BY <1>6 DEF FormatEnd, Rebuild, flash
  <2>2. Mounted' => valid' >= MinBlocks
    BY <1>6 DEF FormatEnd, Mounted, Call
  <2>3. valid' \in Nat
    BY <2>1, RebuildNumbers DEF FtlShape
  <2>4. CASE Mounted'
    BY <1>1, <1>2, <2>1, <2>2, <2>3, <2>4
  <2> QED
    BY <2>4 DEF Usable
<1>7. CASE UNCHANGED vars
  BY <1>7 DEF vars, Usable, Mounted, Numbering
<1>8. CASE Mounted /\ Mounted' /\ UNCHANGED valid
  BY <1>3, <1>8 DEF Usable
<1>9. CASE Mounted /\ Mounted' /\ Rebuild(tag')
  <2>1. MinBlocks <= valid'
    BY <1>1, <1>3, <1>9, RebuildNumbers DEF FtlShape
  <2> QED
    BY <1>2, <1>9, <2>1
<1> QED
  BY <1>4, <1>5, <1>6, <1>7, <1>8, <1>9, Stages DEF Marking

\* FTL_Init does not format a disk that is up.
LEMMA InitKeepsUp ==
    ASSUME FtlShape, Usable, FTL_Init, Mounted
    PROVE  Mounted'
<1>1. Rebuild(tag') /\ Numbering(MinBlocks)' /\ MinBlocks <= valid
  BY DEF FTL_Init, Rebuild, flash, Usable, Numbering
<1>2. MinBlocks <= valid' /\ valid' \in Nat /\ MinBlocks \in Nat
  BY <1>1, RebuildNumbers, GeometryAssumption DEF FtlShape
<1>3. ~ (valid' < MinBlocks)
  BY <1>2
<1> QED
  BY <1>3 DEF FTL_Init, Call, Mounted

\* The steps on a disk that is not up leave its cells blank.
LEMMA BlankKept ==
    ASSUME FtlShape, BeforeUse, ~ Mounted, FTL_Init \/ Erasing \/ Marking
    PROVE  \A b \in Block, o \in Off : cell[b][o] = Blank /\ cell'[b][o] = Blank
<1>1. \A b \in Block, o \in Off : cell[b][o] = Blank
  BY DEF BeforeUse
<1>2. UNCHANGED cell \/ \E b : cell' = [cell EXCEPT ![b] = [o \in Off |-> Blank]]
  <2>1. \A b : Blanked(b) => cell' = [cell EXCEPT ![b] = [o \in Off |-> Blank]]
    BY DEF Blanked
  <2> QED
    BY <2>1 DEF FTL_Init, Erasing, FormatErase, FormatEraseLate, FormatErased, Marking,
                FormatMark, FormatSkip, FormatEnd, Erased, flash
<1>3. cell \in [Block -> [Off -> Content]]
  BY DEF FtlShape, FlashType
<1> QED
  BY <1>1, <1>2, <1>3

LEMMA BeforeUseStep ==
    ASSUME FtlShape, BeforeUse, Usable, ~ PowerCut, [Next]_vars
    PROVE  BeforeUse'
<1>1. CASE FTL_Init /\ Mounted
  BY <1>1, InitKeepsUp DEF BeforeUse
<1>2. CASE (FTL_Init /\ ~ Mounted) \/ Erasing \/ Marking
  <2>1. ~ Mounted
    BY <1>2 DEF FormatErase, Erasing, FormatEraseLate, FormatErased, FormatMark,
            Marking, FormatSkip, FormatEnd, NumberingOn, Mounted
  <2> QED
    BY <1>2, <2>1, BlankKept DEF BeforeUse
<1>3. CASE UNCHANGED vars
  BY <1>3 DEF vars, BeforeUse, Mounted
<1>4. CASE Mounted'
  BY <1>4 DEF BeforeUse
<1> QED
  BY <1>1, <1>2, <1>3, <1>4, Stages

\* Only a write carries data, and it has at least one sector.
LEMMA CallDataStep ==
    ASSUME FtlShape, CallData, [Next]_vars
    PROVE  CallData'
<1> USE DEF flash, ram, env
<1>1. /\ call \in CallRec /\ (cp.pc # "none" => call.op \in {"write", "read"})
      /\ call.op = "write" => Len(call.buf) = call.n
  BY DEF FtlShape, CallType, InCall
<1>2. CASE UNCHANGED call
  BY <1>2 DEF CallData
<1>3. CASE (\E k : call' = Done(k)) /\ call.op \in {"write", "read"}
  <2>1. call'.op = call.op /\ call'.buf = call.buf /\ call'.n = call.n
    BY <1>1, <1>3 DEF Done, CallRec
  <2> QED
    BY <2>1 DEF CallData
<1>4. CASE \E r : call' = Answer(r)
  BY <1>1, <1>4 DEF Answer, CallRec, CallData
<1>5. CASE FTL_Init
  BY <1>5 DEF FTL_Init, Call, CallData
<1>6. CASE Erasing
  <2>1. call.buf = <<>>
    BY <1>6 DEF FormatErase, Erasing, FormatEraseLate, FormatErased, CallData
  <2>2. call'.op \in {"erase", "dead", "mark"} /\ call'.buf = call.buf
    <3>1. call.op = "erase"
      BY <1>6 DEF Erasing, FormatErase, FormatEraseLate, FormatErased
    <3>2. \/ call' = [call EXCEPT !.i = @ + 1]
          \/ call' = [call EXCEPT !.i = @ + 1, !.at = @ + 1]
          \/ \E op \in {"dead", "mark"} : call' = [call EXCEPT !.i = 0, !.op = op]
      BY <1>6 DEF Erasing, FormatErase, FormatEraseLate, FormatErased
    <3> QED
      BY <1>1, <3>1, <3>2 DEF CallRec
  <2> QED
    BY <2>1, <2>2 DEF CallData
<1>7. CASE Marking
  <2>1. call.buf = <<>> /\ call.op = "mark"
    BY <1>7 DEF FormatMark, Marking, FormatSkip, FormatEnd, NumberingOn, CallData
  <2>2. \/ call'.op = "mark" /\ call'.buf = call.buf
        \/ call' \in {Call("dead", 0, 0, <<>>), Call("idle", 0, 0, <<>>)}
    BY <1>1, <1>7, <2>1 DEF FormatMark, Marking, FormatSkip, FormatEnd, NumberingOn,
            CallRec
  <2> QED
    BY <2>1, <2>2 DEF CallData, Call
<1>8. CASE PowerCut
  BY <1>8 DEF PowerCut, PoweredOff, Call, CallData
<1>9. ASSUME NEW s, NEW n \in 1 .. MaxCount, ReadSectors(s, n)
      PROVE  CallData'
  BY <1>9 DEF ReadSectors, Call, CallData
<1>10. ASSUME NEW s, NEW n \in 1 .. MaxCount, NEW buf \in [1 .. n -> Val],
              WriteSectors(s, buf)
       PROVE  CallData'
  <2>1. n \in Nat \ {0}
    BY BoundsAssumption
  <2>2. Len(buf) = n
    BY <2>1
  <2> QED
    BY <1>10, <2>1, <2>2 DEF WriteSectors, Call, CallData
<1>11. CASE \E b \in Block, o \in Off, kind \in {"flip", "stuck"} : SectorWears(b, o, kind)
  BY <1>2, <1>11 DEF SectorWears
<1>12. CASE CopyFind \/ CopyPage \/ CopyPageFails \/ CopyBad \/ CopyEnd \/ ScrubBlank
            \/ ScrubWipe \/ ScrubZero \/ ScrubEnd \/ ScrubCondemn \/ WriteNoBlock
            \/ WriteInPlace \/ WriteInPlaceFails \/ WriteByCopy \/ WriteCompareFails
            \/ ReadNoBlock \/ ReadOk \/ ReadFails \/ ReadMoves \/ ReturnOk
  <2>1. call.op \in {"write", "read"}
    BY <1>1, <1>12
    DEF CopyFind, CopyPage, CopyPageFails, CopyBad, CopyEnd, ScrubBlank, ScrubWipe,
        ScrubZero, ScrubEnd, ScrubCondemn, WriteNoBlock, WriteInPlace, WriteInPlaceFails,
        WriteByCopy, WriteCompareFails, ReadNoBlock, ReadOk, ReadFails, ReadMoves,
        ReturnOk, Writing, Reading
  <2>2. call' = call \/ (\E k : call' = Done(k)) \/ \E r : call' = Answer(r)
    BY <1>12
    DEF CopyFind, CopyPage, CopyPageFails, CopyBad, CopyEnd, ScrubBlank, ScrubWipe,
        ScrubZero, ScrubEnd, ScrubCondemn, WriteNoBlock, WriteInPlace, WriteInPlaceFails,
        WriteByCopy, WriteCompareFails, ReadNoBlock, ReadOk, ReadFails, ReadMoves, ReturnOk
  <2> QED
    BY <1>2, <1>3, <1>4, <2>1, <2>2
<1>13. CASE UNCHANGED vars
  BY <1>2, <1>13 DEF vars
<1> QED
  BY <1>5, <1>6, <1>7, <1>8, <1>9, <1>10, <1>11, <1>12, <1>13
  DEF Next, Code, Erasing, Marking, Environment, Requests

\* The block that is copied is the block of the turn until the copy ends.
LEMMA SourceFoundStep ==
    ASSUME FtlShape, NoBadCopy, SourceFound, ~ Fails, [Next]_vars
    PROVE  SourceFound'
<1> USE DEF flash, ram, env
<1>1. CASE cp'.pc \notin {"find", "page"}
  BY <1>1 DEF SourceFound
<1>2. CASE UNCHANGED <<lut, valid, call>> /\ cp'.src = PBN
  <2>1. PBN' = PBN
    BY <1>2 DEF PBN, LBNToPBN, Pos
  <2> QED
    BY <1>2, <2>1 DEF SourceFound
<1>3. CASE WriteByCopy \/ ReadMoves
  <2>1. /\ UNCHANGED <<lut, valid, call>>
        /\ \E buf : StartCopy(buf)
    BY <1>3 DEF WriteByCopy, ReadMoves
  <2>2. cp'.src = PBN
    BY <2>1 DEF StartCopy, NoCopy
  <2> QED
    BY <1>2, <2>1, <2>2
<1>4. CASE CopyFind /\ cp'.pc \in {"find", "page"}
  <2>1. cp.pc = "find" /\ cp \in CopyRec
    BY <1>4 DEF CopyFind, FtlShape, CopyType
  <2>2. \/ /\ cp' = [cp EXCEPT !.pc = "page", !.dst = FindSamePlane(cp.src), !.page = 0]
           /\ UNCHANGED call
        \/ cp' = NoCopy
        \/ cp' = [cp EXCEPT !.pc = "scrub"]
    BY <1>4 DEF CopyFind
  <2>3. CASE cp' = NoCopy \/ cp' = [cp EXCEPT !.pc = "scrub"]
    BY <1>4, <2>1, <2>3 DEF NoCopy, CopyRec
  <2>4. CASE /\ cp' = [cp EXCEPT !.pc = "page", !.dst = FindSamePlane(cp.src), !.page = 0]
             /\ UNCHANGED call
    <3>1. cp'.src = cp.src
      BY <2>1, <2>4 DEF CopyRec
    <3>2. UNCHANGED <<lut, valid, call>>
      BY <1>4, <2>4 DEF CopyFind
    <3> QED
      BY <1>2, <2>1, <3>1, <3>2 DEF SourceFound
  <2> QED
    BY <2>2, <2>3, <2>4
<1>5. CASE CopyPage
  <2> DEFINE c == Consumed(cp)
  <2>1. c \in CopyRec /\ c.src = cp.src /\ cp.pc = "page"
    BY <1>5, ConsumedIs DEF CopyPage, Consumed, FtlShape, CopyType, CopyRec
  <2>2. cp' = [c EXCEPT !.page = @ + 1] /\ UNCHANGED <<lut, valid, call>>
    BY <1>5 DEF CopyPage
  <2> HIDE DEF c
  <2>3. cp'.src = cp.src
    BY <2>1, <2>2 DEF CopyRec
  <2> QED
    BY <1>2, <2>1, <2>2, <2>3 DEF SourceFound
<1>6. CASE UNCHANGED vars
  BY <1>6 DEF vars, SourceFound, PBN, LBNToPBN, Pos
<1> QED
  BY <1>1, <1>3, <1>4, <1>5, <1>6, CopyActions

-----------------------------------------------------------------------------
(* Every step is one of the array of sectors, or leaves it alone.            *)

DeviceInv == BeforeUse /\ Usable /\ CallData /\ SourceFound /\ WrittenSoFar
DeviceStep == [Device!Next]_<<Disk, Request, LastAnswer>>

\* A step within a call that moves no data.
LEMMA QuietStep ==
    ASSUME UNCHANGED <<call, Disk>>, WrittenSoFar
    PROVE  WrittenSoFar' /\ DeviceStep
BY DEF WrittenSoFar, DeviceStep, Request, LastAnswer

\* A step that is not part of a write forgets the answer of the last one.
LEMMA ForgetStep ==
    ASSUME call.op # "write", call'.op # "write", call'.buf = <<>>, UNCHANGED Disk
    PROVE  WrittenSoFar' /\ DeviceStep
<1>1. Request = Device!NoReq /\ Request' = Device!NoReq
  BY DEF Request, Device!NoReq
<1>2. LastAnswer' = "none"
  BY DEF LastAnswer
<1>3. Device!Forget
  BY <1>1, <1>2 DEF Device!Forget
<1> QED
  BY <1>3 DEF WrittenSoFar, DeviceStep, Device!Next

\* A write ends: with an error, or when all of its sectors are stored.
LEMMA ReturnStep ==
    ASSUME FtlShape, CallData, WrittenSoFar, call.op = "write", NEW r \in 0 .. 3,
           call' = Answer(r), r = 0 => call.i = call.n, UNCHANGED Disk
    PROVE  WrittenSoFar' /\ DeviceStep
<1>1. /\ call \in CallRec /\ call.at \in Nat /\ call.buf \in Seq(Val)
      /\ Len(call.buf) = call.n /\ call.n > 0 /\ call.n \in Nat
  BY CallFields DEF FtlShape, CallType, CallData
<1>2. call.buf # <<>>
  BY <1>1, EmptyBuffer
<1>3. call'.op = "idle" /\ call'.buf = call.buf /\ call'.res = r
  BY <1>1 DEF Answer, CallRec
<1>4. /\ Request = [at |-> call.at, buf |-> call.buf] /\ Request # Device!NoReq
      /\ Request' = Device!NoReq
  <2>1. Request = [at |-> call.at, buf |-> call.buf] /\ Request' = Device!NoReq
    BY <1>3 DEF Request, Device!NoReq
  <2>2. Request.buf = call.buf /\ Device!NoReq.buf = <<>>
    BY <2>1 DEF Device!NoReq
  <2> QED
    BY <1>2, <2>1, <2>2
<1>5. LastAnswer' = IF r = 0 THEN "ok" ELSE "error"
  BY <1>2, <1>3 DEF LastAnswer
<1>6. ASSUME r = 0, NEW s \in Device!Covered
      PROVE  Disk'[s] = Device!NewValue(s)
  <2>1. s \in Sector /\ s >= call.at /\ s < call.at + call.i
    BY <1>1, <1>4, <1>6 DEF Device!Covered
  <2>2. Disk[s] = call.buf[s - call.at + 1]
    BY <2>1 DEF WrittenSoFar
  <2> QED
    BY <1>4, <2>2 DEF Device!NewValue
<1>7. Device!Return
  BY <1>4, <1>5, <1>6 DEF Device!Return
<1> QED
  BY <1>3, <1>7 DEF WrittenSoFar, DeviceStep, Device!Next

\* FTL_WriteSectors is called.
LEMMA BeginStep ==
    ASSUME NEW s \in Nat, NEW n \in Nat \ {0}, NEW buf \in [1 .. n -> Val],
           WriteSectors(s, buf)
    PROVE  WrittenSoFar' /\ DeviceStep
<1>1. /\ call.op = "idle" /\ UNCHANGED <<cell, tag, lut>>
      /\ call'.op = "write" /\ call'.at = s /\ call'.i = 0 /\ call'.buf = buf
  BY DEF WriteSectors, Call, flash, ram, env
<1>2. Len(buf) = n /\ buf # <<>>
  BY EmptyBuffer
<1>3. UNCHANGED Disk
  BY <1>1 DEF Disk, Lookup
<1>4. Request = Device!NoReq /\ Request' # Device!NoReq
  <2>1. Request = Device!NoReq /\ Request' = [at |-> s, buf |-> buf]
    BY <1>1 DEF Request, Device!NoReq
  <2>2. Request'.buf = buf /\ Device!NoReq.buf = <<>>
    BY <2>1 DEF Device!NoReq
  <2> QED
    BY <1>2, <2>1, <2>2
<1>5. LastAnswer' = "none"
  BY <1>1 DEF LastAnswer
<1>6. Device!Begin
  BY <1>3, <1>4, <1>5 DEF Device!Begin
<1>7. WrittenSoFar'
  BY <1>1, SectorPlace DEF WrittenSoFar
<1> QED
  BY <1>6, <1>7 DEF DeviceStep, Device!Next

LEMMA DeviceStepDone ==
    ASSUME FtlShape, MapInv, Owners, CopyData, DeviceInv, SpareFound, ~ Fails, ~ PowerCut,
           FtlShape', MapInv', Owners', [Next]_vars
    PROVE  WrittenSoFar' /\ DeviceStep
<1> USE DEF flash, ram, env, DeviceInv
<1>1. /\ call \in CallRec /\ cp \in CopyRec /\ CallData /\ WrittenSoFar /\ SourceFound
      /\ (cp.pc # "none" => call.op \in {"write", "read"} /\ Mounted)
      /\ (Scrubbing => call.op = "read") /\ CopyComplete
  BY CopyDataComplete DEF FtlShape, CallType, CopyType, InCall, MapInv, Mounted
<1>2. CASE FTL_Init \/ Erasing \/ Marking
  <2>1. call.op # "write" /\ call'.op # "write" /\ call'.buf = <<>>
    <3>1. CASE FTL_Init
      BY <3>1 DEF FTL_Init, Call
    <3>2. CASE Erasing
      <4>1. call.op = "erase"
        BY <3>2 DEF Erasing, FormatErase, FormatEraseLate, FormatErased
      <4>2. \/ call' = [call EXCEPT !.i = @ + 1]
            \/ call' = [call EXCEPT !.i = @ + 1, !.at = @ + 1]
            \/ \E op \in {"dead", "mark"} : call' = [call EXCEPT !.i = 0, !.op = op]
        BY <3>2 DEF Erasing, FormatErase, FormatEraseLate, FormatErased
      <4> QED
        BY <1>1, <4>1, <4>2 DEF CallData, CallRec
    <3>3. CASE Marking
      <4>1. call.buf = <<>> /\ call.op = "mark"
        BY <1>1, <3>3 DEF FormatMark, Marking, FormatSkip, FormatEnd, NumberingOn,
            CallData
      <4>2. \/ call'.op = "mark" /\ call'.buf = call.buf
            \/ call' \in {Call("dead", 0, 0, <<>>), Call("idle", 0, 0, <<>>)}
        BY <1>1, <3>3, <4>1 DEF FormatMark, Marking, FormatSkip, FormatEnd,
            NumberingOn, CallRec
      <4> QED
        BY <4>1, <4>2 DEF Call
    <3> QED
      BY <1>2, <3>1, <3>2, <3>3
  <2>2. UNCHANGED Disk
    <3>1. CASE ~ Mounted
      <4>1. \A b \in Block, o \in Off : cell[b][o] = Blank /\ cell'[b][o] = Blank
        BY <1>2, <3>1, BlankKept
      <4>2. BlankCells /\ BlankCells'
        BY <4>1 DEF BlankCells
      <4>3. BlankSectors /\ BlankSectors'
        BY <4>2, BlankDisk, PTL
      <4> QED
        BY <4>3 DEF BlankSectors
    <3>2. CASE Mounted
      <4>1. FTL_Init
        BY <1>2, <3>2 DEF FormatErase, Erasing, FormatEraseLate, FormatErased,
            FormatMark, Marking, FormatSkip, FormatEnd, NumberingOn, Mounted
      <4>2. Mounted' /\ UNCHANGED <<cell, tag, cp>> /\ call.op = "idle"
        BY <3>2, <4>1, InitKeepsUp DEF FTL_Init, Mounted
      <4>3. cp.pc = "none" /\ cp'.pc = "none"
        BY <1>1, <4>2
      <4> QED
        BY <3>2, <4>2, <4>3, RebuildDisk
    <3> QED
      BY <3>1, <3>2
  <2> QED
    BY <2>1, <2>2, ForgetStep
<1>3. CASE CopyFind
  <2>1. UNCHANGED Disk
    <3>1. UNCHANGED <<cell, lut>> /\ Mounted /\ cp.pc = "find"
      BY <1>1, <1>3 DEF CopyFind
    <3>2. call' = call \/ call' = Answer(3)
      BY <1>3 DEF CopyFind
    <3>3. Mounted'
      BY <1>1, <3>1, <3>2 DEF Mounted, Answer, CallRec
    <3> QED
      BY <3>1, <3>3, DiskKept
  <2>2. UNCHANGED call \/ (call.op = "write" /\ call' = Answer(3))
    BY <1>3 DEF CopyFind
  <2> QED
    BY <1>1, <2>1, <2>2, QuietStep, ReturnStep
<1>4. CASE CopyPage
  BY <1>1, <1>4, CopyPageDisk, QuietStep DEF CopyPage
<1>5. CASE CopyEnd /\ call.op = "read"
  BY <1>1, <1>5, CopyEndOfRead, QuietStep DEF CopyEnd
<1>6. CASE CopyEnd /\ call.op = "write"
  <2>1. PICK k \in Nat : /\ k <= Left /\ BlkOff + k <= SecPerBlk
                         /\ TurnStored(cp.dst, k) /\ call' = Done(k)
    BY <1>1, <1>6, CopyEndStored
  <2>2. PBN # NoBlk /\ call.i < call.n /\ cp.dst \in Block
    BY <1>1, <1>6, CopyEndMoves
  <2> QED
    BY <1>1, <1>6, <2>1, <2>2, TurnIsStore DEF DeviceStep, Device!Next
<1>7. CASE WriteInPlace
  <2>1. /\ call.op = "write" /\ call.i < call.n /\ PBN # NoBlk /\ PBN \in Block
        /\ Len(PagePart) \in Nat /\ Len(PagePart) <= Left
        /\ BlkOff + Len(PagePart) <= SecPerBlk
        /\ TurnStored(PBN, Len(PagePart)) /\ call' = Done(Len(PagePart))
    BY <1>1, <1>7, InPlaceStored
  <2> QED
    BY <1>1, <2>1, TurnIsStore DEF DeviceStep, Device!Next
<1>8. CASE WriteNoBlock \/ (ReturnOk /\ call.op = "write")
  <2>1. /\ UNCHANGED <<cell, tag, lut>> /\ Mounted /\ call.op = "write"
        /\ (call' = Answer(1)) \/ (call' = Answer(0) /\ call.i = call.n)
    BY <1>8 DEF WriteNoBlock, ReturnOk, Writing, Mounted
  <2>2. Mounted'
    BY <1>1, <2>1 DEF Mounted, Answer, CallRec
  <2>3. UNCHANGED Disk
    BY <2>1, <2>2, DiskKept
  <2> QED
    BY <1>1, <2>1, <2>3, ReturnStep
<1>9. CASE WriteByCopy \/ ReadMoves
  <2>1. UNCHANGED <<cell, tag, lut, call>>
    BY <1>9 DEF WriteByCopy, ReadMoves
  <2>2. UNCHANGED Disk
    BY <2>1 DEF Disk, Lookup
  <2> QED
    BY <1>1, <2>1, <2>2, QuietStep
<1>10. CASE ReadNoBlock \/ ReadOk \/ (ReturnOk /\ call.op = "read")
  <2>1. /\ UNCHANGED <<cell, tag, lut>> /\ Mounted /\ call.op = "read"
        /\ (\E r : call' = Answer(r)) \/ \E k : call' = Done(k)
    BY <1>10 DEF ReadNoBlock, ReadOk, ReturnOk, Reading, Mounted
  <2>2. call'.op \in {"read", "idle"} /\ call'.buf = <<>>
    BY <1>1, <2>1 DEF Answer, Done, CallRec, CallData
  <2>3. UNCHANGED Disk
    BY <2>1, <2>2, DiskKept DEF Mounted
  <2> QED
    BY <2>1, <2>2, <2>3, ForgetStep
<1>11. CASE ScrubBlank \/ ScrubWipe \/ ScrubZero
  <2>1. UNCHANGED call
    BY <1>11 DEF ScrubBlank, ScrubWipe, ScrubZero
  <2>2. Mounted /\ Mounted'
    BY <1>1, <1>11, <2>1 DEF ScrubBlank, ScrubWipe, ScrubZero, Mounted
  <2> QED
    BY <1>1, <1>11, <2>1, <2>2, ScrubDisk, QuietStep
<1>12. CASE ScrubEnd \/ ScrubCondemn
  <2>1. /\ cp.pc \in {"zero", "condemn"} /\ cp' = NoCopy
        /\ \E k : call' = Done(k)
    BY <1>12 DEF ScrubEnd, ScrubCondemn
  <2>2. call.op = "read" /\ call'.op = "read" /\ call'.buf = <<>> /\ Mounted /\ Mounted'
    BY <1>1, <2>1 DEF Done, CallRec, CallData, Scrubbing, Mounted
  <2>3. UNCHANGED Disk
    <3>1. CASE ScrubEnd
      BY <1>1, <2>2, <3>1, ScrubDisk
    <3>2. CASE ScrubCondemn
      <4>1. /\ tag' = [tag EXCEPT ![cp.src] = Bad] /\ UNCHANGED cell
            /\ cp.pc = "condemn" /\ cp'.pc = "none"
        BY <2>1, <3>2 DEF ScrubCondemn, NoCopy, BadBlockMark
      <4>2. cp.src \in Block /\ cp.dst \in Block /\ cp.src # cp.dst
            /\ tag[cp.dst] \in Block /\ tag[cp.src] \in {Free, tag[cp.dst]}
        BY <4>1, CopyFields DEF FtlShape, MapInv, CopyUnderWay, Scrubbing
      <4>3. tag[cp.src] = Free
        <5>1. NoneTwice
          BY <4>1, NoSecond DEF Owners
        <5> QED
          BY <4>2, <5>1 DEF NoneTwice
      <4>4. tag \in [Block -> Tags]
        BY DEF FtlShape, FlashType
      <4>5. \A b \in Block : tag'[b] \in Block \/ tag[b] \in Block => tag'[b] = tag[b]
        BY <4>1, <4>2, <4>3, <4>4, BlockNumbers
      <4> QED
        BY <2>2, <4>1, <4>5, RebuildDisk
    <3> QED
      BY <1>12, <3>1, <3>2
  <2> QED
    BY <2>2, <2>3, ForgetStep
<1>13. CASE \E s \in Sector, n \in 1 .. MaxCount :
               \/ ReadSectors(s, n)
               \/ \E buf \in [1 .. n -> Val] : WriteSectors(s, buf)
  <2>1. PICK s \in Sector, n \in 1 .. MaxCount :
               \/ ReadSectors(s, n)
               \/ \E buf \in [1 .. n -> Val] : WriteSectors(s, buf)
    BY <1>13
  <2>2. s \in Nat /\ n \in Nat \ {0}
    BY SectorPlace, BoundsAssumption
  <2>3. CASE \E buf \in [1 .. n -> Val] : WriteSectors(s, buf)
    BY <2>2, <2>3, BeginStep
  <2>4. CASE ReadSectors(s, n)
    <3>1. /\ UNCHANGED <<cell, tag, lut>> /\ call.op = "idle"
          /\ call'.op = "read" /\ call'.buf = <<>>
      BY <2>4 DEF ReadSectors, Call
    <3>2. UNCHANGED Disk
      BY <3>1 DEF Disk, Lookup
    <3> QED
      BY <3>1, <3>2, ForgetStep
  <2> QED
    BY <2>1, <2>3, <2>4
<1>14. CASE \/ \E b \in Block, o \in Off, kind \in {"flip", "stuck"} : SectorWears(b, o, kind)
            \/ UNCHANGED vars
  <2>1. UNCHANGED <<cell, tag, lut, call>>
    BY <1>14 DEF SectorWears, vars
  <2>2. UNCHANGED Disk
    BY <2>1 DEF Disk, Lookup
  <2> QED
    BY <1>1, <2>1, <2>2, QuietStep
<1>15. ~ CopyPageFails /\ ~ CopyBad /\ ~ WriteInPlaceFails /\ ~ WriteCompareFails
       /\ ~ ReadFails
  BY DEF CopyPageFails, CopyBad, WriteInPlaceFails, WriteCompareFails, ReadFails, Owners,
         NoBadCopy, Fault
<1>16. CopyEnd \/ ReturnOk => call.op \in {"write", "read"}
  BY <1>1 DEF CopyEnd, ReturnOk
<1> QED
  BY <1>2, <1>3, <1>4, <1>5, <1>6, <1>7, <1>8, <1>9, <1>10, <1>11, <1>12, <1>13, <1>14,
     <1>15, <1>16
  DEF Next, Code, Erasing, Marking, Environment, Requests

LEMMA DeviceInvStep ==
    ASSUME FtlShape, MapInv, Owners, CopyData, DeviceInv, SpareFound, ~ Fails, ~ PowerCut,
           FtlShape', MapInv', Owners', [Next]_vars
    PROVE  DeviceInv' /\ DeviceStep
<1>1. BeforeUse' /\ Usable' /\ CallData'
  BY BeforeUseStep, UsableStep, CallDataStep DEF DeviceInv, MapInv
<1>2. SourceFound'
  BY SourceFoundStep DEF DeviceInv, Owners
<1> QED
  BY <1>1, <1>2, DeviceStepDone DEF DeviceInv

LEMMA DeviceStart == Init => DeviceInv /\ (FtlShape => Device!Init)
<1> SUFFICES ASSUME Init
             PROVE  DeviceInv /\ (FtlShape => Device!Init)
  OBVIOUS
<1>1. call.op = "off" /\ call.buf = <<>> /\ cp.pc = "none"
      /\ \A b \in Block, o \in Off : cell[b][o] = Blank
  BY DEF Init, PoweredOff, Call, NoCopy
<1>2. DeviceInv
  BY <1>1 DEF DeviceInv, BeforeUse, Usable, CallData, SourceFound, WrittenSoFar, Mounted
<1>3. FtlShape => Device!Init
  BY <1>1, DiskType DEF Device!Init, Device!NoReq, Request, LastAnswer
<1> QED
  BY <1>2, <1>3

\* ftl.c, when nothing fails and the power stays: to the file system FTL_WriteSectors,
\* FTL_ReadSectors and FTL_Init are an array of sectors.  A write changes no sector but
\* its own, its success means that they all hold the new data, and the copies of blocks,
\* the reads that move a worn block and a new FTL_Init change none.
THEOREM FtlImplementsBlockDevice ==
    ASSUME Sound
    PROVE  Spec /\ []SpareFound => ImplementsBlockDevice
<1>1. SpentType => ~ Fails /\ ~ PowerCut
  BY NothingFails
<1> DEFINE Inv == MapInv /\ FormatNumbers /\ Owners /\ SpentType /\ CopyData /\ DeviceInv
<1>2. Init => Inv
  BY MapStart, FormatNumbersStart, OwnersStart, CopyDataStart, DeviceStart
<1>3. FtlShape /\ FtlShape' /\ SpareFound /\ Inv /\ [Next]_vars => Inv' /\ DeviceStep
  <2> SUFFICES ASSUME FtlShape, FtlShape', SpareFound, Inv, [Next]_vars
               PROVE  Inv' /\ DeviceStep
    OBVIOUS
  <2>1. MapInv' /\ FormatNumbers' /\ Owners' /\ SpentType'
    BY <1>1, MapSoundStep, FormatNumbersStep, OwnersStep, SpentStep
  <2>2. CopyData'
    BY <1>1, CopyDataStep
  <2>3. DeviceInv' /\ DeviceStep
    BY <1>1, <2>1, DeviceInvStep
  <2> QED
    BY <2>1, <2>2, <2>3
<1>4. Init /\ FtlShape => Device!Init
  BY DeviceStart
<1>5. Spec => []FtlShape
  BY FtlShapeAlways
<1> HIDE DEF Inv
<1>6. Spec /\ []SpareFound => Device!Init /\ [][Device!Next]_<<Disk, Request, LastAnswer>>
  BY <1>2, <1>3, <1>4, <1>5, PTL DEF Spec, DeviceStep
<1> QED
  BY <1>6 DEF ImplementsBlockDevice, Device!Spec


\* ftl.c, on a chip whose sectors do not wear, without any condition on spare blocks: no
\* block is lost to a copy when nothing fails and the power stays; the disk keeps its size,
\* whatever fails; a copy that does not fail is complete wherever the power is cut; and the
\* layer is an array of sectors when neither happens.
THEOREM UnwornLosesNothing ==
    ASSUME MaxWears = 0
    PROVE  /\ Sound => (Spec => []NoOrphan)
           /\ Spec => []FullCapacity
           /\ MaxFaults = 0 => (Spec => []CopyComplete)
           /\ Sound => (Spec => ImplementsBlockDevice)
<1>1. Spec => []SpareFound
  BY NoWearAlways, NoWearSpare, FtlShapeAlways, PTL
<1>2. ASSUME Sound
      PROVE  Spec => []NoOrphan
  <2>1. Spec /\ []SpareFound => []NoOrphan
    BY <1>2, NoBlockOrphaned
  <2> QED
    BY <1>1, <2>1, PTL
<1>3. Spec => []FullCapacity
  <2>1. Spec /\ []SpareFound => []FullCapacity
    BY CapacityKept
  <2> QED
    BY <1>1, <2>1, PTL
<1>4. ASSUME MaxFaults = 0
      PROVE  Spec => []CopyComplete
  <2>1. Spec /\ []SpareFound => []CopyComplete
    BY <1>4, CopiesComplete
  <2> QED
    BY <1>1, <2>1, PTL
<1>5. ASSUME Sound
      PROVE  Spec => ImplementsBlockDevice
  <2>1. Spec /\ []SpareFound => ImplementsBlockDevice
    BY <1>5, FtlImplementsBlockDevice
  <2> QED
    BY <1>1, <2>1, PTL
<1> QED
  BY <1>2, <1>3, <1>4, <1>5
=============================================================================
