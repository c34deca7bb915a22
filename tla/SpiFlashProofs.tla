--------------------------- MODULE SpiFlashProofs ---------------------------
(***************************************************************************)
(* Proofs about SpiFlash for every size of chip, sector, page and disk      *)
(* sector, all data and any number of writes, glyphs read in between, and   *)
(* power cuts.                                                              *)
(***************************************************************************)
EXTENDS SpiFlash, SequenceTheorems, TLAPS

\* Where W25QXX_Write is: the calls that are still to be made have bytes and lie in the
\* chip, and so does what is still to be programmed.
CallsFit ==
    /\ pc = "idle" <=> calls = << >>
    /\ \A i \in DOMAIN calls :
          Len(calls[i].data) > 0 /\ calls[i].at + Len(calls[i].data) <= Size
ProgFits == pc = "prog" => Len(prog.data) > 0 /\ prog.at + Len(prog.data) <= Size

\* What was copied, or found blank, when a glyph was being read is garbled.
Suspect == IF pc = "erase" \/ erased THEN Sector ELSE Named(Part)
MixedIsGarbled == mixed => pc \in {"erase", "prog"} /\ Suspect \subseteq garbled
Harmed == damaged \cup garbled

\* The calls follow one another upwards, and carry what the caller asked for.
CallsApart ==
    \A i, j \in DOMAIN calls : i < j => calls[i].at + Len(calls[i].data) <= calls[j].at
Asked ==
    \A i \in DOMAIN calls : \A a \in Named(calls[i]) :
        want[a] = calls[i].data[a - calls[i].at + 1]

\* What a byte holds that is not being programmed: what it held before the write, as
\* long as the call that names it has not come back.
Due(a) == IF a \in Pending THEN before[a] ELSE want[a]
Rewritten == IF pc # "prog" THEN {} ELSE IF erased THEN Sector ELSE Named(Part)
Elsewhere == \A a \in Addr \ (Harmed \cup Rewritten) : flash[a] = Due(a)

\* W25QXX_BUF holds the sector that is about to be erased.
SectorCopied == pc = "erase" /\ ~ mixed => \A a \in Sector : buf[a % SectorSize] = flash[a]

\* The bytes that are being programmed: those up to prog.at hold what they must, the
\* others are blank and their value is in prog.
Target(a) == IF erased THEN buf[a % SectorSize] ELSE want[a]
HalfWay(a) ==
    IF a < prog.at THEN flash[a] = Target(a)
    ELSE flash[a] = Blank /\ prog.data[a - prog.at + 1] = Target(a)
RightTarget(a) ==
    /\ a \in Named(Part) => Target(a) = want[a]
    /\ a \notin Named(Part) \cup Harmed => Target(a) = Due(a)
Programming ==
    pc = "prog" =>
        /\ Named(prog) = {a \in Rewritten : a >= prog.at}
        /\ \A a \in Rewritten : (~ mixed \/ erased => HalfWay(a)) /\ RightTarget(a)

-----------------------------------------------------------------------------
(* Sizes and places.                                                        *)

LEMMA Sizes ==
    /\ Sectors \in Nat \ {0} /\ SectorSize \in Nat \ {0} /\ PageSize \in Nat \ {0}
    /\ DiskSector \in Nat \ {0}
    /\ Size \in Nat \ {0} /\ 0 \in Addr /\ Addr \subseteq Nat
<1>1. /\ Sectors \in Nat \ {0} /\ SectorSize \in Nat \ {0} /\ PageSize \in Nat \ {0}
      /\ DiskSector \in Nat \ {0}
  BY GeometryAssumption
<1>2. \A m, n \in Nat \ {0} : m * n \in Nat \ {0}
  OBVIOUS
<1>3. Size \in Nat \ {0}
  BY <1>1, <1>2 DEF Size
<1> QED
  BY <1>1, <1>3 DEF Addr

LEMMA Division ==
    ASSUME NEW x \in Nat, NEW n \in Nat \ {0}
    PROVE  /\ x \div n \in Nat /\ x % n \in 0 .. (n - 1)
           /\ x = n * (x \div n) + (x % n)
OBVIOUS

LEMMA ProductGrows ==
    ASSUME NEW a \in Nat, NEW b \in Nat, NEW c \in Nat, a <= b
    PROVE  a * c <= b * c /\ a * c \in Nat /\ b * c \in Nat
<1>1. PICK d \in Nat : b = a + d
  <2>1. b - a \in Nat /\ b = a + (b - a)
    OBVIOUS
  <2> QED
    BY <2>1
<1>2. b * c = a * c + d * c
  BY <1>1
<1>3. a * c \in Nat /\ d * c \in Nat
  BY <1>1
<1> QED
  BY <1>2, <1>3

LEMMA Offset ==
    ASSUME NEW a \in Nat, NEW b \in Nat, NEW s \in Nat, NEW n \in Nat
    PROVE  /\ s <= a - b <=> b + s <= a
           /\ a - b < s + n <=> a < b + s + n
           /\ b <= a /\ a < b + n => a - b \in Nat /\ a - b < n /\ a = b + (a - b)
OBVIOUS

LEMMA Onward ==
    ASSUME NEW a \in Nat, NEW b \in Nat, NEW n \in Nat, NEW m \in Nat,
           b + n <= a, a < b + m
    PROVE  a - (b + n) + 1 \in 1 .. (m - n) /\ n + (a - (b + n) + 1) = a - b + 1
OBVIOUS

\* The numbers from q * n on, up to (q + 1) * n.
LEMMA OneBlock ==
    ASSUME NEW n \in Nat \ {0}, NEW q \in Nat, NEW x \in Nat
    PROVE  /\ q * n \in Nat
           /\ q * n <= x /\ x < q * n + n <=> x \div n = q
           /\ x \div n = q => x % n = x - q * n
<1> DEFINE u == x \div n
           r == x % n
<1>1. u \in Nat /\ r \in 0 .. (n - 1) /\ x = n * u + r
  BY Division
<1> SUFFICES /\ q * n \in Nat
             /\ q * n <= x /\ x < q * n + n <=> u = q
             /\ u = q => r = x - q * n
  OBVIOUS
<1> HIDE DEF u, r
<1>2. /\ n * u = u * n /\ u * n \in Nat /\ q * n \in Nat
      /\ (u + 1) * n = u * n + n /\ (q + 1) * n = q * n + n
  BY <1>1
<1>3. CASE u = q
  BY <1>1, <1>2, <1>3
<1>4. CASE u < q
  <2>1. (u + 1) * n <= q * n
    BY <1>1, <1>4, ProductGrows
  <2>2. x < q * n
    BY <1>1, <1>2, <2>1
  <2> QED
    BY <1>1, <1>2, <1>4, <2>2
<1>5. CASE q < u
  <2>1. (q + 1) * n <= u * n
    BY <1>1, <1>5, ProductGrows
  <2>2. x >= q * n + n
    BY <1>1, <1>2, <2>1
  <2> QED
    BY <1>1, <1>2, <1>5, <2>2
<1> QED
  BY <1>1, <1>3, <1>4, <1>5

\* The sector of an address lies in the chip.
LEMMA SectorOf ==
    ASSUME NEW x \in Addr
    PROVE  /\ x \div SectorSize \in Nat /\ (x \div SectorSize) * SectorSize \in Nat
           /\ (x \div SectorSize) * SectorSize <= x
           /\ x < (x \div SectorSize) * SectorSize + SectorSize
           /\ (x \div SectorSize) * SectorSize + SectorSize <= Size
           /\ x % SectorSize = x - (x \div SectorSize) * SectorSize
<1>1. x \in Nat /\ x < Size /\ SectorSize \in Nat \ {0} /\ Sectors \in Nat
      /\ Size = Sectors * SectorSize
  BY Sizes DEF Addr, Size
<1>2. x \div SectorSize \in Nat
  BY <1>1, Division
<1> DEFINE q == x \div SectorSize
<1>3. /\ q * SectorSize \in Nat /\ q * SectorSize <= x /\ x < q * SectorSize + SectorSize
      /\ x % SectorSize = x - q * SectorSize
  BY <1>1, <1>2, OneBlock
<1> HIDE DEF q
<1>4. q \in Nat
  BY <1>2 DEF q
<1>5. q + 1 <= Sectors
  <2>1. SUFFICES ASSUME Sectors <= q
                 PROVE  FALSE
    BY <1>1, <1>4
  <2>2. Sectors * SectorSize <= q * SectorSize
    BY <1>1, <1>4, <2>1, ProductGrows
  <2> QED
    BY <1>1, <1>3, <2>2
<1>6. (q + 1) * SectorSize <= Sectors * SectorSize
  BY <1>1, <1>4, <1>5, ProductGrows
<1>7. (q + 1) * SectorSize = q * SectorSize + SectorSize
  BY <1>1, <1>4
<1>8. q * SectorSize + SectorSize <= Size
  BY <1>1, <1>6, <1>7
<1> QED
  BY <1>3, <1>4, <1>8 DEF q

-----------------------------------------------------------------------------
(* Pieces of what is written.                                               *)

LEMMA CutIs ==
    ASSUME NEW c, c.at \in Nat, Len(c.data) \in Nat \ {0}, NEW size \in Nat \ {0}
    PROVE  /\ Cut(c, size) \in Nat \ {0}
           /\ Cut(c, size) <= Len(c.data) /\ Cut(c, size) <= size - (c.at % size)
<1> DEFINE x == Len(c.data)
           y == size - (c.at % size)
<1>1. x \in Nat \ {0} /\ y \in Nat \ {0}
  <2>1. c.at % size \in 0 .. (size - 1)
    BY Division
  <2> QED
    BY <2>1
<1>2. \E m \in {x, y} : \A z \in {x, y} : m <= z
  BY <1>1
<1>3. Min({x, y}) \in {x, y} /\ \A z \in {x, y} : Min({x, y}) <= z
  BY <1>2 DEF Min
<1>4. Cut(c, size) = Min({x, y})
  BY DEF Cut
<1> HIDE DEF x, y
<1>5. Cut(c, size) \in Nat \ {0} /\ Cut(c, size) <= x /\ Cut(c, size) <= y
  BY <1>1, <1>3, <1>4
<1> QED
  BY <1>5 DEF x, y

LEMMA ChunkFields ==
    ASSUME NEW c \in Chunk
    PROVE  c.at \in Addr /\ c.at \in Nat /\ c.data \in Seq(Byte) /\ Len(c.data) \in Nat
<1>1. c.at \in Addr /\ c.data \in Seq(Byte)
  BY DEF Chunk
<1>2. Len(c.data) \in Nat
  BY <1>1
<1>3. c.at \in Nat
  BY <1>1, Sizes
<1> QED
  BY <1>1, <1>2, <1>3

LEMMA FirstIs ==
    ASSUME NEW c \in Chunk, NEW n \in Nat \ {0}, n <= Len(c.data)
    PROVE  /\ First(c, n) \in Chunk /\ First(c, n).at = c.at /\ Len(First(c, n).data) = n
           /\ \A k \in 1 .. n : First(c, n).data[k] = c.data[k]
<1>1. c.at \in Addr /\ c.data \in Seq(Byte) /\ Len(c.data) \in Nat
  BY ChunkFields
<1>2. /\ SubSeq(c.data, 1, n) \in Seq(Byte) /\ Len(SubSeq(c.data, 1, n)) = n
      /\ \A k \in 1 .. n : SubSeq(c.data, 1, n)[k] = c.data[k]
  BY <1>1, SubSeqProperties
<1> QED
  BY <1>1, <1>2 DEF First, Chunk

LEMMA RestIs ==
    ASSUME NEW c \in Chunk, NEW n \in Nat \ {0}, n < Len(c.data),
           c.at + Len(c.data) <= Size
    PROVE  /\ Rest(c, n) \in Chunk /\ Rest(c, n).at = c.at + n
           /\ Len(Rest(c, n).data) = Len(c.data) - n
           /\ \A k \in 1 .. (Len(c.data) - n) : Rest(c, n).data[k] = c.data[n + k]
<1>1. c.at \in Addr /\ c.data \in Seq(Byte) /\ Len(c.data) \in Nat /\ c.at \in Nat
  BY ChunkFields
<1>2. /\ SubSeq(c.data, n + 1, Len(c.data)) \in Seq(Byte)
      /\ Len(SubSeq(c.data, n + 1, Len(c.data))) = Len(c.data) - n
      /\ \A k \in 1 .. (Len(c.data) - n) :
            SubSeq(c.data, n + 1, Len(c.data))[k] = c.data[n + k]
  BY <1>1, SubSeqProperties
<1>3. c.at + n \in Addr
  BY <1>1, Sizes DEF Addr
<1> QED
  BY <1>1, <1>2, <1>3 DEF Rest, Chunk

LEMMA NamedBytes ==
    ASSUME NEW c \in Chunk, NEW a
    PROVE  a \in Named(c) <=> a \in Nat /\ c.at <= a /\ a < c.at + Len(c.data)
<1>1. c.at \in Nat /\ Len(c.data) \in Nat
  BY ChunkFields
<1> QED
  BY <1>1 DEF Named

\* Storing and programming keep a memory of bytes one.
LEMMA MemoryType ==
    ASSUME NEW D, NEW f \in [D -> Byte], NEW at \in Nat, NEW d \in Seq(Byte)
    PROVE  LET c == [at |-> at, data |-> d] IN
           Stored(f, c) \in [D -> Byte] /\ Programmed(f, c) \in [D -> Byte]
<1> DEFINE c == [at |-> at, data |-> d]
<1>1. ASSUME NEW a \in Named(c)
      PROVE  c.data[a - c.at + 1] \in Byte
  <2>1. Len(d) \in Nat /\ a \in at .. (at + Len(d) - 1)
    BY DEF Named
  <2>2. a - at + 1 \in 1 .. Len(d)
    BY <2>1
  <2> QED
    BY <2>2
<1>2. Stored(f, c) \in [D -> Byte]
  BY <1>1 DEF Stored
<1>3. Programmed(f, c) \in [D -> Byte]
  BY <1>1 DEF Programmed, Byte
<1> QED
  BY <1>2, <1>3

-----------------------------------------------------------------------------
(* The calls of W25QXX_Write that a write is made of.                       *)

LEMMA WholeSectors ==
    ASSUME NEW x \in Nat, NEW n \in Nat \ {0}, x % n = 0
    PROVE  x \div n \in Nat /\ x = (x \div n) * n
<1>1. x \div n \in Nat /\ x = n * (x \div n) + (x % n)
  BY Division
<1> DEFINE q == x \div n
           r == x % n
<1> HIDE DEF q, r
<1>2. r = 0 /\ q \in Nat /\ x = n * q + r
  BY <1>1 DEF q, r
<1>3. x = q * n
  BY <1>2
<1> QED
  BY <1>2, <1>3 DEF q

LEMMA SectorCallIs ==
    ASSUME NEW c \in Chunk, Len(c.data) % DiskSector = 0, c.at + Len(c.data) <= Size,
           NEW i \in 1 .. (Len(c.data) \div DiskSector)
    PROVE  LET m == (i - 1) * DiskSector IN
           /\ m \in Nat /\ m + DiskSector <= Len(c.data)
           /\ SectorCalls(c)[i] \in Chunk /\ SectorCalls(c)[i].at = c.at + m
           /\ Len(SectorCalls(c)[i].data) = DiskSector
           /\ \A k \in 1 .. DiskSector : SectorCalls(c)[i].data[k] = c.data[m + k]
<1> DEFINE m == (i - 1) * DiskSector
           n == Len(c.data) \div DiskSector
<1>1. /\ c.at \in Nat /\ c.data \in Seq(Byte) /\ Len(c.data) \in Nat
      /\ DiskSector \in Nat \ {0}
  BY ChunkFields, Sizes
<1>2. n \in Nat /\ Len(c.data) = n * DiskSector
  BY <1>1, WholeSectors
<1>3. i - 1 \in Nat /\ (i - 1) + 1 = i /\ i \in Nat /\ i <= n
  <2>1. i \in 1 .. n
    OBVIOUS
  <2> HIDE DEF n
  <2> QED
    BY <1>2, <2>1
<1> HIDE DEF n
<1>4. m \in Nat /\ i * DiskSector = m + DiskSector
  BY <1>1, <1>3
<1>5. i * DiskSector <= n * DiskSector
  BY <1>1, <1>2, <1>3, ProductGrows
<1>6. SectorCalls(c)[i] = [at |-> c.at + m, data |-> SubSeq(c.data, m + 1, i * DiskSector)]
  BY DEF SectorCalls
<1> HIDE DEF m
<1>7. m + DiskSector <= Len(c.data)
  <2>1. PICK l \in Nat : l = n * DiskSector
    BY <1>1, <1>2
  <2> QED
    BY <1>1, <1>2, <1>4, <1>5, <2>1
<1>8. /\ SubSeq(c.data, m + 1, m + DiskSector) \in Seq(Byte)
      /\ Len(SubSeq(c.data, m + 1, m + DiskSector)) = DiskSector
      /\ \A k \in 1 .. DiskSector : SubSeq(c.data, m + 1, m + DiskSector)[k] = c.data[m + k]
  BY <1>1, <1>4, <1>7, SubSeqProperties
<1>9. c.at + m \in Addr
  BY <1>1, <1>4, <1>7, Sizes DEF Addr
<1>10. SectorCalls(c)[i] = [at |-> c.at + m, data |-> SubSeq(c.data, m + 1, m + DiskSector)]
  BY <1>4, <1>6
<1>11. SectorCalls(c)[i] \in Chunk
  BY <1>8, <1>9, <1>10 DEF Chunk
<1> QED
  BY <1>4, <1>7, <1>8, <1>10, <1>11 DEF m

\* The calls cs write c together, piece after piece.
Makes(cs, c) ==
    /\ cs \in Seq(Chunk) /\ cs # << >>
    /\ \A i \in DOMAIN cs :
          /\ Len(cs[i].data) > 0 /\ cs[i].at >= c.at
          /\ cs[i].at + Len(cs[i].data) <= c.at + Len(c.data)
          /\ \A k \in 1 .. Len(cs[i].data) : cs[i].data[k] = c.data[(cs[i].at - c.at) + k]
    /\ \A i, j \in DOMAIN cs : i < j => cs[i].at + Len(cs[i].data) <= cs[j].at
    /\ \A a \in Named(c) : \E i \in DOMAIN cs : a \in Named(cs[i])

\* One call for all bytes, or one for each sector of the disk.
LEMMA NewCalls ==
    ASSUME NEW c \in Chunk, Len(c.data) > 0, c.at + Len(c.data) <= Size, NEW cs,
           cs = <<c>> \/ (Len(c.data) % DiskSector = 0 /\ cs = SectorCalls(c))
    PROVE  Makes(cs, c)
<1>1. c.at \in Nat /\ c.data \in Seq(Byte) /\ Len(c.data) \in Nat /\ DiskSector \in Nat \ {0}
  BY ChunkFields, Sizes
<1>2. CASE cs = <<c>>
  <2>1. cs \in Seq(Chunk) /\ cs # << >> /\ DOMAIN cs = {1} /\ cs[1] = c
    BY <1>2
  <2> QED
    BY <1>1, <2>1 DEF Makes
<1>3. CASE Len(c.data) % DiskSector = 0 /\ cs = SectorCalls(c)
  <2> DEFINE n == Len(c.data) \div DiskSector
             at(i) == (i - 1) * DiskSector
  <2>1. n \in Nat /\ Len(c.data) = n * DiskSector
    BY <1>1, <1>3, WholeSectors
  <2>2. n > 0
    <3> HIDE DEF n
    <3>1. n = 0 => Len(c.data) = 0
      BY <1>1, <2>1
    <3> QED
      BY <2>1, <3>1
  <2>3. DOMAIN cs = 1 .. n
    BY <1>3 DEF SectorCalls
  <2>4. ASSUME NEW i \in 1 .. n
        PROVE  /\ at(i) \in Nat /\ at(i) + DiskSector <= Len(c.data)
               /\ cs[i] \in Chunk /\ cs[i].at = c.at + at(i)
               /\ Len(cs[i].data) = DiskSector
               /\ \A k \in 1 .. DiskSector : cs[i].data[k] = c.data[at(i) + k]
    BY <1>3, SectorCallIs
  <2>5. cs \in Seq(Chunk) /\ cs # << >>
    <3>1. cs = [i \in 1 .. n |-> cs[i]]
      BY <1>3 DEF SectorCalls
    <3>2. cs \in [1 .. n -> Chunk]
      BY <2>4, <3>1
    <3> QED
      BY <2>1, <2>2, <2>3, <3>2
  <2>6. ASSUME NEW i \in 1 .. n, NEW j \in 1 .. n, i < j
        PROVE  at(i) + DiskSector <= at(j)
    <3>1. i \in Nat /\ j - 1 \in Nat /\ i - 1 \in Nat /\ i <= j - 1 /\ i = (i - 1) + 1
      BY <2>1, <2>6
    <3>2. i * DiskSector <= (j - 1) * DiskSector
      BY <1>1, <3>1, ProductGrows
    <3>3. i * DiskSector = at(i) + DiskSector
      BY <1>1, <3>1
    <3> QED
      BY <3>2, <3>3
  <2>7. ASSUME NEW a \in Named(c)
        PROVE  \E i \in 1 .. n : a \in Named(cs[i])
    <3>1. a \in Nat /\ c.at <= a /\ a < c.at + Len(c.data)
      BY NamedBytes
    <3> DEFINE x == a - c.at
               q == x \div DiskSector
    <3>2. x \in Nat /\ x < Len(c.data) /\ a = c.at + x
      BY <1>1, <3>1
    <3> HIDE DEF x
    <3>3. q \in Nat /\ q * DiskSector \in Nat /\ q * DiskSector <= x
          /\ x < q * DiskSector + DiskSector
      BY <1>1, <3>2, Division, OneBlock
    <3> HIDE DEF q
    <3>4. q < n
      <4> HIDE DEF n
      <4>1. SUFFICES ASSUME n <= q
                     PROVE  FALSE
        BY <2>1, <3>3
      <4>2. n * DiskSector <= q * DiskSector
        BY <1>1, <2>1, <3>3, <4>1, ProductGrows
      <4> QED
        BY <1>1, <2>1, <3>2, <3>3, <4>2
    <3>5. q + 1 \in 1 .. n /\ at(q + 1) = q * DiskSector
      BY <2>1, <3>3, <3>4
    <3> HIDE DEF at, n
    <3>6. /\ cs[q + 1] \in Chunk /\ cs[q + 1].at = c.at + q * DiskSector
          /\ Len(cs[q + 1].data) = DiskSector
      BY <2>4, <3>5
    <3>7. a >= cs[q + 1].at /\ a < cs[q + 1].at + Len(cs[q + 1].data)
      BY <1>1, <3>2, <3>3, <3>6
    <3> QED
      BY <3>1, <3>5, <3>6, <3>7, NamedBytes
  <2> HIDE DEF n, at
  <2>8. ASSUME NEW i \in 1 .. n
        PROVE  /\ Len(cs[i].data) > 0 /\ cs[i].at >= c.at
               /\ cs[i].at + Len(cs[i].data) <= c.at + Len(c.data)
               /\ \A k \in 1 .. Len(cs[i].data) :
                     cs[i].data[k] = c.data[(cs[i].at - c.at) + k]
    <3>1. /\ at(i) \in Nat /\ at(i) + DiskSector <= Len(c.data)
          /\ cs[i].at = c.at + at(i) /\ Len(cs[i].data) = DiskSector
          /\ \A k \in 1 .. DiskSector : cs[i].data[k] = c.data[at(i) + k]
      BY <2>4
    <3>2. cs[i].at - c.at = at(i)
      BY <1>1, <3>1
    <3> QED
      BY <1>1, <3>1, <3>2
  <2>9. ASSUME NEW i \in 1 .. n, NEW j \in 1 .. n, i < j
        PROVE  cs[i].at + Len(cs[i].data) <= cs[j].at
    <3>1. /\ at(i) \in Nat /\ at(j) \in Nat /\ at(i) + DiskSector <= at(j)
          /\ cs[i].at = c.at + at(i) /\ Len(cs[i].data) = DiskSector
          /\ cs[j].at = c.at + at(j)
      BY <2>4, <2>6, <2>9
    <3> QED
      BY <1>1, <3>1
  <2> QED
    BY <2>3, <2>5, <2>7, <2>8, <2>9 DEF Makes
<1> QED
  BY <1>2, <1>3

-----------------------------------------------------------------------------
(* The shape of the state.                                                  *)

SpiShape == SpiTypeOK /\ CallsFit /\ ProgFits

\* The call under way, its sector, and the part of it that falls into the sector.
LEMMA CallUnderWay ==
    ASSUME SpiTypeOK, CallsFit, pc # "idle"
    PROVE  /\ calls # << >> /\ 1 \in DOMAIN calls /\ Len(calls) \in Nat \ {0}
           /\ calls[1] \in Chunk /\ Len(calls[1].data) \in Nat \ {0}
           /\ calls[1].at + Len(calls[1].data) <= Size
<1>1. calls # << >> /\ calls \in Seq(Chunk)
  BY DEF CallsFit, SpiTypeOK
<1>2. 1 \in DOMAIN calls /\ Len(calls) \in Nat \ {0} /\ calls[1] \in Chunk
  BY <1>1
<1>3. Len(calls[1].data) \in Nat
  BY <1>2, ChunkFields
<1>4. Len(calls[1].data) > 0 /\ calls[1].at + Len(calls[1].data) <= Size
  BY <1>2 DEF CallsFit
<1> QED
  BY <1>1, <1>2, <1>3, <1>4

LEMMA SectorUnderWay ==
    ASSUME SpiTypeOK, CallsFit, pc # "idle"
    PROVE  LET B == SecPos * SectorSize IN
           /\ SecPos \in Nat /\ B \in Nat /\ B + SectorSize <= Size /\ B \in Addr
           /\ Sector \subseteq Addr
           /\ \A a : a \in Sector <=> a \in Nat /\ B <= a /\ a < B + SectorSize
           /\ \A a \in Sector : a % SectorSize = a - B
           /\ \A i \in 0 .. (SectorSize - 1) :
                 B + i \in Sector /\ (B + i) % SectorSize = i
           /\ SecOff \in 0 .. (SectorSize - 1) /\ calls[1].at = B + SecOff
<1> DEFINE B == SecPos * SectorSize
<1>1. calls[1].at \in Addr /\ calls[1].at \in Nat /\ SectorSize \in Nat \ {0}
      /\ Size \in Nat
  BY CallUnderWay, ChunkFields, Sizes
<1>2. /\ SecPos \in Nat /\ B \in Nat /\ B <= calls[1].at /\ calls[1].at < B + SectorSize
      /\ B + SectorSize <= Size /\ SecOff = calls[1].at - B
  BY <1>1, SectorOf DEF SecPos, SecOff
<1>3. Sector = B .. (B + SectorSize - 1)
  BY DEF Sector
<1>4. \A a \in Nat : B <= a /\ a < B + SectorSize => a % SectorSize = a - B
  <2>1. ASSUME NEW a \in Nat, B <= a, a < B + SectorSize
        PROVE  a % SectorSize = a - B
    <3>1. a \div SectorSize = SecPos
      BY <1>1, <1>2, <2>1, OneBlock
    <3> QED
      BY <1>1, <1>2, <3>1, OneBlock
  <2> QED
    BY <2>1
<1> HIDE DEF B
<1>5. \A a : a \in Sector <=> a \in Nat /\ B <= a /\ a < B + SectorSize
  BY <1>1, <1>2, <1>3
<1>6. \A i \in 0 .. (SectorSize - 1) : B + i \in Sector /\ (B + i) % SectorSize = i
  <2>1. ASSUME NEW i \in 0 .. (SectorSize - 1)
        PROVE  B + i \in Sector /\ (B + i) % SectorSize = i
    <3>1. B + i \in Nat /\ B <= B + i /\ B + i < B + SectorSize /\ (B + i) - B = i
      BY <1>1, <1>2
    <3>2. (B + i) % SectorSize = (B + i) - B
      BY <1>4, <3>1
    <3> QED
      BY <1>5, <3>1, <3>2
  <2> QED
    BY <2>1
<1>7. Sector \subseteq Addr /\ B \in Addr
  <2>1. \A a \in Nat : a < Size => a \in Addr
    BY <1>1 DEF Addr
  <2>2. \A a \in Sector : a \in Nat /\ a < Size
    BY <1>1, <1>2, <1>5
  <2> QED
    BY <1>1, <1>2, <2>1, <2>2
<1>8. SecOff \in 0 .. (SectorSize - 1) /\ calls[1].at = B + SecOff
  BY <1>1, <1>2
<1>9. \A a \in Sector : a % SectorSize = a - B
  BY <1>4, <1>5
<1> QED
  BY <1>2, <1>5, <1>6, <1>7, <1>8, <1>9 DEF B

LEMMA PartUnderWay ==
    ASSUME SpiTypeOK, CallsFit, pc # "idle"
    PROVE  LET n == Len(Part.data) IN
           /\ n \in Nat \ {0} /\ n <= Len(calls[1].data)
           /\ SecOff + n <= SectorSize
           /\ Part = First(calls[1], n) /\ Part \in Chunk /\ Part.at = calls[1].at
           /\ \A k \in 1 .. n : Part.data[k] = calls[1].data[k]
           /\ Part = calls[1] <=> n = Len(calls[1].data)
           /\ Named(Part) \subseteq Sector
<1> DEFINE c == calls[1]
           m == Cut(c, SectorSize)
<1>1. /\ c \in Chunk /\ Len(c.data) \in Nat \ {0} /\ c.at \in Nat /\ c.data \in Seq(Byte)
      /\ SectorSize \in Nat \ {0}
  BY CallUnderWay, ChunkFields, Sizes
<1> HIDE DEF c
<1>2. m \in Nat \ {0} /\ m <= Len(c.data) /\ m <= SectorSize - (c.at % SectorSize)
  BY <1>1, CutIs
<1>3. SecOff = c.at % SectorSize /\ SecOff \in 0 .. (SectorSize - 1)
  BY SectorUnderWay DEF SecOff, c
<1>4. Part = First(c, m)
  BY DEF Part, c
<1> HIDE DEF m
<1>5. /\ Part \in Chunk /\ Part.at = c.at /\ Len(Part.data) = m
      /\ \A k \in 1 .. m : Part.data[k] = c.data[k]
  BY <1>1, <1>2, <1>4, FirstIs
<1>6. SecOff + m <= SectorSize
  BY <1>1, <1>2, <1>3
<1>7. Part = c <=> m = Len(c.data)
  <2>1. Part = c => m = Len(c.data)
    BY <1>5
  <2>2. ASSUME m = Len(c.data)
        PROVE  Part = c
    <3>1. Part.data \in Seq(Byte)
      BY <1>5, ChunkFields
    <3>2. Part.data = c.data
      BY <1>1, <1>5, <2>2, <3>1, SeqEqual
    <3> QED
      BY <1>1, <1>5, <3>2 DEF Chunk
  <2> QED
    BY <2>1, <2>2
<1>8. Named(Part) \subseteq Sector
  <2>1. SUFFICES ASSUME NEW a \in Named(Part)
                 PROVE  a \in Sector
    OBVIOUS
  <2>2. a \in Nat /\ c.at <= a /\ a < c.at + m
    BY <1>5, <2>1, NamedBytes
  <2>3. PICK b \in Nat : b = SecPos * SectorSize /\ c.at = b + SecOff
    BY SectorUnderWay DEF c
  <2>4. b <= a /\ a < b + SectorSize
    <3>1. SecOff \in Nat /\ m \in Nat /\ SectorSize \in Nat
      BY <1>1, <1>2, <1>3
    <3> HIDE <2>3
    <3>2. c.at = b + SecOff
      BY <2>3
    <3> QED
      BY <1>6, <2>2, <3>1, <3>2
  <2> QED
    BY <2>2, <2>3, <2>4, SectorUnderWay
<1> QED
  BY <1>2, <1>4, <1>5, <1>6, <1>7, <1>8 DEF c

\* c is what the caller asks for, and cs the calls that are made for it.
WrittenBy(c, cs) ==
    /\ Len(c.data) > 0 /\ c.at + Len(c.data) <= Size
    /\ cs = <<c>> \/ (Len(c.data) % DiskSector = 0 /\ cs = SectorCalls(c))
    /\ Begin(c, cs)

LEMMA WriteIs ==
    ASSUME WriteBytes \/ DiskWrite
    PROVE  \E c \in Chunk : \E cs : WrittenBy(c, cs)
<1>1. ASSUME NEW a \in Addr, NEW d \in Data
      PROVE  LET c == [at |-> a, data |-> d] IN c \in Chunk /\ Len(c.data) > 0
  <2>1. d \in Seq(Byte) /\ d # << >>
    BY DataAssumption DEF Byte
  <2>2. Len(d) \in Nat /\ Len(d) # 0
    BY <2>1, EmptySeq, LenProperties
  <2> QED
    BY <2>1, <2>2 DEF Chunk
<1>2. CASE WriteBytes
  <2>1. PICK a \in Addr, d \in Data :
             a + Len(d) <= Size /\ Begin([at |-> a, data |-> d], <<[at |-> a, data |-> d]>>)
    BY <1>2 DEF WriteBytes
  <2> DEFINE c == [at |-> a, data |-> d]
  <2>2. c \in Chunk /\ Len(c.data) > 0 /\ c.at + Len(c.data) <= Size /\ Begin(c, <<c>>)
    BY <1>1, <2>1
  <2> HIDE DEF c
  <2> QED
    BY <2>2 DEF WrittenBy
<1>3. CASE DiskWrite
  <2>1. PICK a \in Addr, d \in Data :
             /\ Len(d) % DiskSector = 0 /\ a + Len(d) <= Size
             /\ Begin([at |-> a, data |-> d], SectorCalls([at |-> a, data |-> d]))
    BY <1>3 DEF DiskWrite
  <2> DEFINE c == [at |-> a, data |-> d]
  <2>2. /\ c \in Chunk /\ Len(c.data) > 0 /\ c.at + Len(c.data) <= Size
        /\ Len(c.data) % DiskSector = 0 /\ Begin(c, SectorCalls(c))
    BY <1>1, <2>1
  <2> HIDE DEF c
  <2> QED
    BY <2>2 DEF WrittenBy
<1> QED
  BY <1>2, <1>3

LEMMA BeginShape ==
    ASSUME SpiShape, WriteBytes \/ DiskWrite
    PROVE  SpiShape'
<1>0. PICK c \in Chunk : \E cs : WrittenBy(c, cs)
  BY WriteIs
<1>1. PICK cs :
               /\ Len(c.data) > 0 /\ c.at + Len(c.data) <= Size
               /\ cs = <<c>> \/ (Len(c.data) % DiskSector = 0 /\ cs = SectorCalls(c))
               /\ Begin(c, cs)
  BY <1>0 DEF WrittenBy
<1>2. /\ cs \in Seq(Chunk) /\ cs # << >>
      /\ \A i \in DOMAIN cs :
            Len(cs[i].data) > 0 /\ cs[i].at + Len(cs[i].data) <= c.at + Len(c.data)
  <2>1. Makes(cs, c)
    BY <1>1, NewCalls
  <2> QED
    BY <2>1 DEF Makes
<1>3. c.at \in Nat /\ Len(c.data) \in Nat /\ c.data \in Seq(Byte) /\ Size \in Nat
  BY ChunkFields, Sizes
<1>4. \A i \in DOMAIN cs : cs[i].at + Len(cs[i].data) <= Size
  <2>1. SUFFICES ASSUME NEW i \in DOMAIN cs
                 PROVE  cs[i].at + Len(cs[i].data) <= Size
    OBVIOUS
  <2>2. cs[i] \in Chunk
    BY <1>2
  <2>3. cs[i].at \in Nat /\ Len(cs[i].data) \in Nat
    BY <2>2, ChunkFields
  <2>4. cs[i].at + Len(cs[i].data) <= c.at + Len(c.data)
    BY <1>2
  <2> QED
    BY <1>1, <1>3, <2>3, <2>4
<1>5. Stored(want, c) \in [Addr -> Byte]
  <2>1. c = [at |-> c.at, data |-> c.data] /\ want \in [Addr -> Byte]
    BY DEF Chunk, SpiShape, SpiTypeOK
  <2> QED
    BY <1>3, <2>1, MemoryType
<1>6. writes' \in 0 .. MaxWrites
  BY <1>1, DataAssumption DEF Begin, SpiShape, SpiTypeOK
<1>7. SpiTypeOK'
  BY <1>1, <1>2, <1>5, <1>6 DEF Begin, SpiShape, SpiTypeOK
<1>8. CallsFit' /\ ProgFits'
  BY <1>1, <1>2, <1>4 DEF Begin, CallsFit, ProgFits
<1> QED
  BY <1>7, <1>8 DEF SpiShape

LEMMA ReadShape ==
    ASSUME SpiShape, ReadSector
    PROVE  SpiShape'
<1>1. /\ pc = "read" /\ UNCHANGED <<flash, calls, want, before, damaged, writes>>
      /\ stream' = -1 /\ erased' = FALSE /\ buf' = SectorRead /\ mixed' \in BOOLEAN
      /\ \/ garbled' = garbled
         \/ garbled' = garbled \cup Sector
         \/ garbled' = garbled \cup Named(Part)
      /\ (pc' = "erase" /\ UNCHANGED prog) \/ (pc' = "prog" /\ prog' = Part)
  BY DEF ReadSector, gvars
<1>2. SpiTypeOK /\ CallsFit /\ flash \in [Addr -> Byte] /\ stream \in {-1} \cup Nat
  BY DEF SpiShape, SpiTypeOK
<1>3. SectorRead \in [0 .. (SectorSize - 1) -> Byte]
  <2>1. ASSUME NEW i \in 0 .. (SectorSize - 1)
        PROVE  /\ SecPos * SectorSize + i \in Addr
               /\ stream # -1 => (stream + 4 + i) % Size \in Addr
    <3>1. SecPos * SectorSize + i \in Addr
      BY <1>1, <1>2, SectorUnderWay
    <3>2. stream # -1 => stream + 4 + i \in Nat
      BY <1>2, Sizes
    <3> QED
      BY <3>1, <3>2, Sizes, Division DEF Addr
  <2> QED
    BY <1>2, <2>1 DEF SectorRead
<1>4. Part \in Chunk /\ Len(Part.data) > 0 /\ Part.at + Len(Part.data) <= Size
  <2>1. /\ Part \in Chunk /\ Len(Part.data) \in Nat \ {0} /\ Part.at = calls[1].at
        /\ Len(Part.data) <= Len(calls[1].data)
    BY <1>1, <1>2, PartUnderWay
  <2>2. /\ calls[1] \in Chunk /\ Len(calls[1].data) \in Nat
        /\ calls[1].at + Len(calls[1].data) <= Size
    BY <1>1, <1>2, CallUnderWay
  <2>3. calls[1].at \in Nat /\ Size \in Nat
    BY <2>2, ChunkFields, Sizes
  <2> QED
    BY <2>1, <2>2, <2>3
<1>8. garbled' \subseteq Addr
  <2>1. Sector \subseteq Addr /\ Named(Part) \subseteq Sector
    BY <1>1, <1>2, SectorUnderWay, PartUnderWay
  <2>2. garbled \subseteq Addr
    BY <1>2 DEF SpiTypeOK
  <2> QED
    BY <1>1, <2>1, <2>2
<1>5. SpiTypeOK'
  BY <1>1, <1>2, <1>3, <1>4, <1>8 DEF SpiTypeOK
<1>6. CallsFit'
  <2>1. pc' # "idle" /\ pc # "idle" /\ UNCHANGED calls
    BY <1>1
  <2> QED
    BY <1>2, <2>1 DEF CallsFit
<1>7. ProgFits'
  <2>1. pc' = "prog" => prog' = Part
    BY <1>1
  <2> QED
    BY <1>4, <2>1 DEF ProgFits
<1> QED
  BY <1>5, <1>6, <1>7 DEF SpiShape

LEMMA EraseShape ==
    ASSUME SpiShape, EraseSector
    PROVE  /\ SpiShape' /\ Len(prog'.data) = SectorSize
           /\ \A k \in 1 .. SectorSize : prog'.data[k] = buf'[k - 1]
<1> DEFINE B == SecPos * SectorSize
<1>1. /\ pc = "erase" /\ UNCHANGED <<calls, stream, gvars>>
      /\ erased' = TRUE /\ pc' = "prog"
      /\ flash' = [a \in Addr |-> IF a \in Sector THEN Blank ELSE flash[a]]
      /\ buf' = Stored(buf, [Part EXCEPT !.at = SecOff])
      /\ prog' = [at |-> B, data |-> [i \in 1 .. SectorSize |-> buf'[i - 1]]]
  BY DEF EraseSector
<1>2. SpiTypeOK /\ CallsFit /\ buf \in [0 .. (SectorSize - 1) -> Byte]
      /\ flash \in [Addr -> Byte]
  BY DEF SpiShape, SpiTypeOK
<1>3. B \in Addr /\ B \in Nat /\ B + SectorSize <= Size /\ SecOff \in Nat
      /\ SectorSize \in Nat \ {0}
  BY <1>1, <1>2, SectorUnderWay, Sizes
<1> HIDE DEF B
<1>4. buf' \in [0 .. (SectorSize - 1) -> Byte]
  <2>1. Part \in Chunk
    BY <1>1, <1>2, PartUnderWay
  <2>2. [Part EXCEPT !.at = SecOff] = [at |-> SecOff, data |-> Part.data]
        /\ Part.data \in Seq(Byte)
    BY <2>1 DEF Chunk
  <2>3. buf' = Stored(buf, [at |-> SecOff, data |-> Part.data])
    BY <1>1, <2>2
  <2> HIDE <1>1
  <2>4. Stored(buf, [at |-> SecOff, data |-> Part.data]) \in [0 .. (SectorSize - 1) -> Byte]
    BY <1>2, <1>3, <2>2, MemoryType
  <2> QED
    BY <2>3, <2>4
<1>5. flash' \in [Addr -> Byte]
  BY <1>1, <1>2 DEF Blank, Byte
<1>6. /\ prog'.at = B /\ prog'.data \in Seq(Byte) /\ Len(prog'.data) = SectorSize
      /\ \A k \in 1 .. SectorSize : prog'.data[k] = buf'[k - 1]
  <2> DEFINE d == [i \in 1 .. SectorSize |-> buf'[i - 1]]
  <2>1. \A i \in 1 .. SectorSize : buf'[i - 1] \in Byte
    BY <1>3, <1>4
  <2>2. d \in [1 .. SectorSize -> Byte]
    BY <2>1
  <2>3. d \in Seq(Byte) /\ Len(d) = SectorSize
    BY <1>3, <2>2
  <2> QED
    BY <1>1, <2>3
<1>7. prog' \in Chunk
  BY <1>1, <1>3, <1>6 DEF Chunk
<1>8. SpiTypeOK'
  BY <1>1, <1>2, <1>4, <1>5, <1>7 DEF SpiTypeOK, gvars
<1>9. CallsFit' /\ ProgFits'
  BY <1>1, <1>2, <1>3, <1>6 DEF CallsFit, ProgFits
<1> QED
  BY <1>6, <1>8, <1>9 DEF SpiShape

\* What is left of the calls when a part is done.
LEMMA AdvanceIs ==
    ASSUME SpiTypeOK, CallsFit, pc # "idle", Advance
    PROVE  LET n == Len(Part.data) IN
           /\ calls' \in Seq(Chunk)
           /\ \/ /\ n = Len(calls[1].data) /\ Len(calls') = Len(calls) - 1
                 /\ \A i \in 1 .. Len(calls') : calls'[i] = calls[i + 1]
              \/ /\ n < Len(calls[1].data) /\ Len(calls') = Len(calls)
                 /\ calls'[1] = Rest(calls[1], n) /\ calls'[1] \in Chunk
                 /\ \A i \in 2 .. Len(calls') : calls'[i] = calls[i]
<1> DEFINE n == Len(Part.data)
<1>1. /\ n \in Nat \ {0} /\ n <= Len(calls[1].data)
      /\ Part = calls[1] <=> n = Len(calls[1].data)
  BY PartUnderWay
<1>2. /\ calls # << >> /\ 1 \in DOMAIN calls /\ Len(calls) \in Nat \ {0}
      /\ calls[1] \in Chunk /\ Len(calls[1].data) \in Nat \ {0}
      /\ calls[1].at + Len(calls[1].data) <= Size /\ calls \in Seq(Chunk)
  BY CallUnderWay DEF SpiTypeOK
<1>3. calls' = IF Part = calls[1] THEN Tail(calls)
               ELSE [calls EXCEPT ![1] = Rest(calls[1], n)]
  BY DEF Advance
<1> HIDE DEF n
<1>4. CASE n = Len(calls[1].data)
  <2>1. calls' = Tail(calls)
    BY <1>1, <1>3, <1>4
  <2>2. /\ Tail(calls) \in Seq(Chunk) /\ Len(Tail(calls)) = Len(calls) - 1
        /\ \A i \in 1 .. Len(Tail(calls)) : Tail(calls)[i] = calls[i + 1]
    BY <1>2
  <2> QED
    BY <1>4, <2>1, <2>2 DEF n
<1>5. CASE n # Len(calls[1].data)
  <2>1. n < Len(calls[1].data)
    BY <1>1, <1>2, <1>5
  <2>2. calls' = [calls EXCEPT ![1] = Rest(calls[1], n)]
    BY <1>1, <1>3, <1>5
  <2>3. Rest(calls[1], n) \in Chunk
    BY <1>1, <1>2, <2>1, RestIs
  <2>4. /\ calls' \in Seq(Chunk) /\ Len(calls') = Len(calls)
        /\ calls'[1] = Rest(calls[1], n)
        /\ \A i \in 2 .. Len(calls) : calls'[i] = calls[i]
    BY <1>2, <2>2, <2>3
  <2> QED
    BY <2>1, <2>3, <2>4 DEF n
<1> QED
  BY <1>4, <1>5

LEMMA AdvanceShape ==
    ASSUME SpiShape, WritePage, Advance
    PROVE  /\ calls' \in Seq(Chunk) /\ CallsFit' /\ ProgFits'
           /\ damaged' \subseteq Addr /\ garbled' \subseteq Addr /\ mixed' = FALSE
<1>1. SpiTypeOK /\ CallsFit /\ pc # "idle"
  BY DEF SpiShape, WritePage
<1> DEFINE n == Len(Part.data)
<1>2. /\ calls' \in Seq(Chunk)
      /\ \/ /\ n = Len(calls[1].data) /\ Len(calls') = Len(calls) - 1
            /\ \A i \in 1 .. Len(calls') : calls'[i] = calls[i + 1]
         \/ /\ n < Len(calls[1].data) /\ Len(calls') = Len(calls)
            /\ calls'[1] = Rest(calls[1], n) /\ calls'[1] \in Chunk
            /\ \A i \in 2 .. Len(calls') : calls'[i] = calls[i]
  BY <1>1, AdvanceIs
<1>3. n \in Nat \ {0}
  BY <1>1, PartUnderWay
<1>4. /\ Len(calls) \in Nat \ {0} /\ calls \in Seq(Chunk)
      /\ calls[1] \in Chunk /\ Len(calls[1].data) \in Nat \ {0}
      /\ calls[1].at \in Nat
      /\ calls[1].at + Len(calls[1].data) <= Size
  BY <1>1, CallUnderWay, ChunkFields DEF SpiTypeOK
<1> HIDE DEF n
<1>5. /\ pc' = IF calls' = << >> THEN "idle" ELSE "read"
      /\ damaged' = damaged \ Named(Part) /\ mixed' = FALSE
      /\ garbled' = IF mixed /\ ~ erased THEN garbled ELSE garbled \ Named(Part)
  BY DEF Advance
<1>6. ASSUME NEW i \in 1 .. Len(calls')
      PROVE  Len(calls'[i].data) > 0 /\ calls'[i].at + Len(calls'[i].data) <= Size
  <2>1. CASE \E j \in 1 .. Len(calls) : calls'[i] = calls[j]
    BY <1>1, <1>4, <2>1 DEF CallsFit
  <2>2. CASE n < Len(calls[1].data) /\ calls'[i] = Rest(calls[1], n)
    <3>1. /\ Rest(calls[1], n).at = calls[1].at + n
          /\ Len(Rest(calls[1], n).data) = Len(calls[1].data) - n
      BY <1>3, <1>4, <2>2, RestIs
    <3>2. n < Len(calls[1].data)
      BY <2>2
    <3>3. /\ Len(Rest(calls[1], n).data) > 0
          /\ Rest(calls[1], n).at + Len(Rest(calls[1], n).data) <= Size
      BY <1>3, <1>4, <3>1, <3>2
    <3>4. calls'[i] = Rest(calls[1], n)
      BY <2>2
    <3> QED
      BY <3>3, <3>4
  <2>3. \/ \E j \in 1 .. Len(calls) : calls'[i] = calls[j]
        \/ n < Len(calls[1].data) /\ calls'[i] = Rest(calls[1], n)
    <3>1. Len(calls') \in Nat
      BY <1>2
    <3>2. CASE Len(calls') = Len(calls) - 1 /\ \A k \in 1 .. Len(calls') : calls'[k] = calls[k + 1]
      <4>1. i + 1 \in 1 .. Len(calls) /\ calls'[i] = calls[i + 1]
        BY <1>4, <3>1, <3>2
      <4> QED
        BY <4>1
    <3>3. CASE n < Len(calls[1].data) /\ Len(calls') = Len(calls) /\ calls'[1] = Rest(calls[1], n)
               /\ \A k \in 2 .. Len(calls') : calls'[k] = calls[k]
      <4>1. i = 1 \/ i \in 2 .. Len(calls')
        BY <3>1
      <4> QED
        BY <3>3, <4>1
    <3> QED
      BY <1>2, <3>2, <3>3
  <2> QED
    BY <2>1, <2>2, <2>3
<1>7. CallsFit' /\ ProgFits'
  BY <1>2, <1>5, <1>6 DEF CallsFit, ProgFits
<1>8. damaged' \subseteq Addr /\ garbled' \subseteq Addr /\ mixed' = FALSE
  BY <1>1, <1>5 DEF SpiTypeOK
<1> QED
  BY <1>2, <1>7, <1>8

\* The page that a turn of W25QXX_Write_NoCheck programs, and what is left to program.
LEMMA PageIs ==
    ASSUME SpiShape, pc = "prog"
    PROVE  LET n == Cut(prog, PageSize) IN
           /\ prog \in Chunk /\ Len(prog.data) \in Nat \ {0} /\ prog.at \in Nat
           /\ prog.at + Len(prog.data) <= Size
           /\ n \in Nat \ {0} /\ n <= Len(prog.data)
           /\ First(prog, n) \in Chunk /\ First(prog, n).at = prog.at
           /\ Len(First(prog, n).data) = n
           /\ \A k \in 1 .. n : First(prog, n).data[k] = prog.data[k]
           /\ n < Len(prog.data) =>
                 /\ Rest(prog, n) \in Chunk /\ Rest(prog, n).at = prog.at + n
                 /\ Len(Rest(prog, n).data) = Len(prog.data) - n
                 /\ \A k \in 1 .. (Len(prog.data) - n) : Rest(prog, n).data[k] = prog.data[n + k]
<1> DEFINE n == Cut(prog, PageSize)
<1>1. prog \in Chunk /\ Len(prog.data) > 0 /\ prog.at + Len(prog.data) <= Size
  BY DEF SpiShape, SpiTypeOK, ProgFits
<1>2. prog.at \in Nat /\ Len(prog.data) \in Nat \ {0} /\ PageSize \in Nat \ {0}
  BY <1>1, ChunkFields, Sizes
<1>3. n \in Nat \ {0} /\ n <= Len(prog.data)
  BY <1>2, CutIs
<1> HIDE DEF n
<1>4. /\ First(prog, n) \in Chunk /\ First(prog, n).at = prog.at
      /\ Len(First(prog, n).data) = n
      /\ \A k \in 1 .. n : First(prog, n).data[k] = prog.data[k]
  BY <1>1, <1>3, FirstIs
<1>5. n < Len(prog.data) =>
         /\ Rest(prog, n) \in Chunk /\ Rest(prog, n).at = prog.at + n
         /\ Len(Rest(prog, n).data) = Len(prog.data) - n
         /\ \A k \in 1 .. (Len(prog.data) - n) : Rest(prog, n).data[k] = prog.data[n + k]
  BY <1>1, <1>3, RestIs
<1> QED
  BY <1>1, <1>2, <1>3, <1>4, <1>5 DEF n

LEMMA PageShape ==
    ASSUME SpiShape, WritePage
    PROVE  SpiShape'
<1> DEFINE n == Cut(prog, PageSize)
<1>1. /\ pc = "prog" /\ flash' = Programmed(flash, First(prog, n))
      /\ UNCHANGED <<stream, want, before, writes>>
      /\ IF n = Len(prog.data) THEN Advance
         ELSE prog' = Rest(prog, n) /\ UNCHANGED <<calls, pc, buf, erased, damaged, mixed, garbled>>
  BY DEF WritePage
<1>2. /\ First(prog, n) \in Chunk /\ n \in Nat \ {0} /\ n <= Len(prog.data)
      /\ Len(prog.data) \in Nat /\ prog.at \in Nat
      /\ prog.at + Len(prog.data) <= Size
      /\ n < Len(prog.data) => /\ Rest(prog, n) \in Chunk /\ Rest(prog, n).at = prog.at + n
                               /\ Len(Rest(prog, n).data) = Len(prog.data) - n
  BY <1>1, PageIs
<1> HIDE DEF n
<1>3. flash' \in [Addr -> Byte]
  <2>1. First(prog, n).at \in Nat /\ First(prog, n).data \in Seq(Byte)
    BY <1>2, ChunkFields
  <2>2. First(prog, n) = [at |-> First(prog, n).at, data |-> First(prog, n).data]
    BY DEF First
  <2>3. flash \in [Addr -> Byte]
    BY DEF SpiShape, SpiTypeOK
  <2>4. Programmed(flash, [at |-> First(prog, n).at, data |-> First(prog, n).data])
            \in [Addr -> Byte]
    BY <2>1, <2>3, MemoryType
  <2> QED
    BY <1>1, <2>2, <2>4
<1>4. CASE n = Len(prog.data)
  <2>1. Advance
    BY <1>1, <1>4
  <2>2. /\ calls' \in Seq(Chunk) /\ CallsFit' /\ ProgFits'
        /\ damaged' \subseteq Addr /\ garbled' \subseteq Addr /\ mixed' = FALSE
    BY <2>1, AdvanceShape
  <2>3. /\ pc' \in {"idle", "read"} /\ erased' = FALSE /\ prog' = NoProg
        /\ buf' = [i \in 0 .. (SectorSize - 1) |-> Blank]
    BY <2>1 DEF Advance
  <2>4. NoProg \in Chunk /\ Blank \in Byte
    BY Sizes DEF NoProg, Chunk, Blank, Byte
  <2>5. SpiTypeOK'
    BY <1>1, <1>3, <2>2, <2>3, <2>4 DEF SpiShape, SpiTypeOK
  <2> QED
    BY <2>2, <2>5 DEF SpiShape
<1>5. CASE n # Len(prog.data)
  <2>1. prog' = Rest(prog, n) /\ UNCHANGED <<calls, pc, buf, erased, damaged, mixed, garbled>>
        /\ n < Len(prog.data)
    BY <1>1, <1>2, <1>5
  <2>2. /\ prog' \in Chunk /\ prog'.at = prog.at + n
        /\ Len(prog'.data) = Len(prog.data) - n
    BY <1>2, <2>1
  <2>3. Len(prog'.data) > 0 /\ prog'.at + Len(prog'.data) <= Size
    BY <1>2, <2>1, <2>2, Sizes
  <2>4. SpiTypeOK'
    BY <1>1, <1>3, <2>1, <2>2 DEF SpiShape, SpiTypeOK
  <2>5. CallsFit' /\ ProgFits'
    BY <2>1, <2>3 DEF SpiShape, CallsFit, ProgFits
  <2> QED
    BY <2>4, <2>5 DEF SpiShape
<1> QED
  BY <1>4, <1>5

LEMMA CutShape ==
    ASSUME SpiShape, PowerCut
    PROVE  SpiShape'
<1>1. /\ calls' = << >> /\ pc' = "idle" /\ prog' = NoProg /\ erased' = FALSE
      /\ buf' = [i \in 0 .. (SectorSize - 1) |-> Blank] /\ stream' = -1
      /\ want' = [a \in Addr |-> IF a \in Pending THEN before[a] ELSE want[a]]
      /\ UNCHANGED <<before, garbled, writes>> /\ mixed' = FALSE
  BY DEF PowerCut, Off
<1>2. NoProg \in Chunk /\ Blank \in Byte
  BY Sizes DEF NoProg, Chunk, Blank, Byte
<1>3. SpiTypeOK /\ CallsFit /\ flash \in [Addr -> Byte] /\ damaged \subseteq Addr
  BY DEF SpiShape, SpiTypeOK
<1>4. flash' \in [Addr -> Byte] /\ damaged' \subseteq Addr
  <2>1. CASE UNCHANGED <<flash, damaged>>
    BY <1>3, <2>1
  <2>2. CASE pc = "erase" /\ ~ UNCHANGED <<flash, damaged>>
    <3>1. PICK as \in SUBSET Sector :
             flash' = [a \in Addr |-> IF a \in as THEN Blank ELSE flash[a]]
      BY <2>2 DEF PowerCut
    <3>2. damaged' = damaged \cup Sector
      BY <2>2 DEF PowerCut
    <3>3. Sector \subseteq Addr
      BY <1>3, <2>2, SectorUnderWay
    <3> QED
      BY <1>2, <1>3, <3>1, <3>2, <3>3
  <2>3. CASE pc = "prog" /\ ~ UNCHANGED <<flash, damaged>>
    <3> DEFINE p == First(prog, Cut(prog, PageSize))
               new == Programmed(flash, p)
    <3>1. PICK as : flash' = [a \in Addr |-> IF a \in as THEN new[a] ELSE flash[a]]
      BY <2>3 DEF PowerCut
    <3>2. damaged' = damaged \cup (IF erased THEN Sector ELSE Named(Part))
      BY <2>3 DEF PowerCut
    <3>3. Sector \subseteq Addr /\ Named(Part) \subseteq Addr
      BY <1>3, <2>3, SectorUnderWay, PartUnderWay
    <3>4. p = [at |-> p.at, data |-> p.data] /\ p.at \in Nat /\ p.data \in Seq(Byte)
      <4>1. p \in Chunk
        BY <2>3, PageIs
      <4>2. p = [at |-> p.at, data |-> p.data]
        BY DEF First
      <4> QED
        BY <4>1, <4>2, ChunkFields
    <3> HIDE DEF p
    <3>5. Programmed(flash, [at |-> p.at, data |-> p.data]) \in [Addr -> Byte]
      BY <1>3, <3>4, MemoryType
    <3>6. new \in [Addr -> Byte]
      BY <3>4, <3>5
    <3> HIDE DEF new
    <3> QED
      BY <1>3, <3>1, <3>2, <3>3, <3>6
  <2> QED
    BY <2>1, <2>2, <2>3 DEF PowerCut
<1>5. SpiTypeOK'
  <2>1. want \in [Addr -> Byte] /\ before \in [Addr -> Byte] /\ writes \in 0 .. MaxWrites
        /\ garbled \subseteq Addr
    BY <1>3 DEF SpiTypeOK
  <2>2. want' \in [Addr -> Byte] /\ before' \in [Addr -> Byte] /\ writes' \in 0 .. MaxWrites
        /\ garbled' \subseteq Addr /\ mixed' \in BOOLEAN
    BY <1>1, <2>1
  <2>3. calls' \in Seq(Chunk) /\ buf' \in [0 .. (SectorSize - 1) -> Byte]
    BY <1>1, <1>2
  <2> QED
    BY <1>1, <1>2, <1>4, <2>2, <2>3 DEF SpiTypeOK
<1>6. CallsFit' /\ ProgFits'
  BY <1>1 DEF CallsFit, ProgFits
<1> QED
  BY <1>5, <1>6 DEF SpiShape

LEMMA SpiShapeStep == SpiShape /\ [Next]_vars => SpiShape'
<1> SUFFICES ASSUME SpiShape, [Next]_vars
             PROVE  SpiShape'
  OBVIOUS
<1>1. CASE GlyphBegin \/ GlyphByte \/ GlyphEnd \/ UNCHANGED vars
  <2>1. /\ UNCHANGED <<wvars, gvars>>
        /\ stream' \in {-1} \cup Nat
    <3>1. UNCHANGED <<wvars, gvars>>
      BY <1>1 DEF GlyphBegin, GlyphByte, GlyphEnd, vars
    <3>2. CASE GlyphBegin \/ GlyphEnd \/ UNCHANGED vars
      BY <3>2, Sizes DEF GlyphBegin, GlyphEnd, vars, SpiShape, SpiTypeOK
    <3>3. CASE GlyphByte
      <4>1. stream \in 0 .. (Size - 2) /\ stream' = stream + 1 /\ Size \in Nat
        BY <3>3, Sizes DEF GlyphByte
      <4>2. stream' \in Nat
        BY <4>1
      <4> QED
        BY <3>1, <4>2
    <3> QED
      BY <1>1, <3>1, <3>2, <3>3
  <2> QED
    BY <2>1 DEF SpiShape, SpiTypeOK, CallsFit, ProgFits, wvars, gvars
<1> QED
  BY <1>1, BeginShape, ReadShape, EraseShape, PageShape, CutShape DEF Next

LEMMA SpiShapeStart == Init => SpiShape
<1> SUFFICES ASSUME Init
             PROVE  SpiShape
  OBVIOUS
<1>1. NoProg \in Chunk /\ Blank \in Byte /\ MaxWrites \in Nat
  BY Sizes, DataAssumption DEF NoProg, Chunk, Blank, Byte
<1>2. flash \in [Addr -> Byte] /\ buf \in [0 .. (SectorSize - 1) -> Byte]
      /\ want = flash /\ before = flash
  BY <1>1 DEF Init
<1>3. /\ calls \in Seq(Chunk) /\ pc = "idle" /\ prog = NoProg /\ erased = FALSE
      /\ stream = -1 /\ damaged = {} /\ mixed = FALSE /\ garbled = {} /\ writes \in 0 .. MaxWrites
  BY <1>1 DEF Init
<1>4. SpiTypeOK
  BY <1>1, <1>2, <1>3 DEF SpiTypeOK
<1> QED
  BY <1>4 DEF Init, SpiShape, CallsFit, ProgFits

LEMMA SpiShapeAlways == Spec => []SpiShape
BY SpiShapeStart, SpiShapeStep, PTL DEF Spec

\* w25qxx.c, diskio.c and usbd_storage_msd.c: the state keeps its shape whatever is
\* written where, and also when a glyph is being read at the same time: no call, page or
\* sector reaches outside the chip or the buffer.
THEOREM SpiTypeCorrect == Spec => []SpiTypeOK
<1>1. SpiShape => SpiTypeOK
  BY DEF SpiShape
<1> QED
  BY <1>1, SpiShapeAlways, PTL

-----------------------------------------------------------------------------
(* The contents of the flash.                                               *)

SpiInv ==
    /\ SpiShape
    /\ MixedIsGarbled
    /\ CallsApart
    /\ Asked
    /\ Elsewhere
    /\ SectorCopied
    /\ Programming

LEMMA SameCalls ==
    ASSUME UNCHANGED calls
    PROVE  /\ Part' = Part /\ Sector' = Sector /\ SecPos' = SecPos /\ SecOff' = SecOff
           /\ Pending' = Pending
BY DEF Part, Sector, SecPos, SecOff, Pending

\* With the same calls the same is due and the calls are in order.
LEMMA SameDue ==
    ASSUME UNCHANGED <<calls, want, before>>
    PROVE  /\ \A a : Due(a)' = Due(a)
           /\ CallsApart => CallsApart'
           /\ Asked => Asked'
<1>1. Pending' = Pending
  BY SameCalls
<1> QED
  BY <1>1 DEF Due, CallsApart, Asked

\* The bytes that are to be written in this sector.
LEMMA PartBytes ==
    ASSUME SpiTypeOK, CallsFit, pc # "idle", NEW a \in Named(Part)
    PROVE  /\ a \in Addr /\ a \in Nat /\ a \in Sector /\ Part.at <= a
           /\ a < Part.at + Len(Part.data)
           /\ a - Part.at + 1 \in 1 .. Len(Part.data)
           /\ a \in Named(calls[1]) /\ a \in Pending
           /\ Asked => Part.data[a - Part.at + 1] = want[a]
<1>1. /\ Part \in Chunk /\ Part.at = calls[1].at /\ Named(Part) \subseteq Sector
      /\ Len(Part.data) \in Nat /\ Len(Part.data) <= Len(calls[1].data)
      /\ \A k \in 1 .. Len(Part.data) : Part.data[k] = calls[1].data[k]
  BY PartUnderWay
<1>2. 1 \in DOMAIN calls /\ calls[1] \in Chunk /\ Len(calls[1].data) \in Nat
      /\ calls[1].at \in Nat
  BY CallUnderWay, ChunkFields
<1>3. a \in Nat /\ Part.at <= a /\ a < Part.at + Len(Part.data)
  BY <1>1, NamedBytes
<1>4. a \in Sector /\ a \in Addr
  BY <1>1, SectorUnderWay
<1>5. a - Part.at + 1 \in 1 .. Len(Part.data)
  BY <1>1, <1>2, <1>3
<1>6. a >= calls[1].at /\ a < calls[1].at + Len(calls[1].data)
  BY <1>1, <1>2, <1>3
<1>7. a \in Named(calls[1])
  BY <1>2, <1>3, <1>6, NamedBytes
<1>8. a \in Pending
  BY <1>2, <1>7 DEF Pending
<1>9. Asked => Part.data[a - Part.at + 1] = want[a]
  <2>1. Asked => want[a] = calls[1].data[a - calls[1].at + 1]
    BY <1>2, <1>7 DEF Asked
  <2> QED
    BY <1>1, <1>5, <2>1
<1> QED
  BY <1>3, <1>4, <1>5, <1>7, <1>8, <1>9

\* A write begins: all that was written before is in the flash, but for what a power cut
\* or a glyph has harmed, and it is what is due.
LEMMA BeginInv ==
    ASSUME SpiInv, WriteBytes \/ DiskWrite
    PROVE  SpiInv'
<1>0. PICK c \in Chunk : \E cs : WrittenBy(c, cs)
  BY WriteIs
<1>1. PICK cs :
               /\ Len(c.data) > 0 /\ c.at + Len(c.data) <= Size
               /\ cs = <<c>> \/ (Len(c.data) % DiskSector = 0 /\ cs = SectorCalls(c))
               /\ Begin(c, cs)
  BY <1>0 DEF WrittenBy
<1>2. /\ pc = "idle" /\ pc' = "read" /\ calls' = cs /\ before' = want
      /\ want' = Stored(want, c) /\ UNCHANGED <<flash, damaged, mixed, garbled>>
  BY <1>1 DEF Begin
<1>3. /\ cs \in Seq(Chunk)
      /\ \A i \in DOMAIN cs :
            /\ Len(cs[i].data) > 0 /\ cs[i].at >= c.at
            /\ cs[i].at + Len(cs[i].data) <= c.at + Len(c.data)
            /\ \A k \in 1 .. Len(cs[i].data) :
                  cs[i].data[k] = c.data[(cs[i].at - c.at) + k]
      /\ \A i, j \in DOMAIN cs : i < j => cs[i].at + Len(cs[i].data) <= cs[j].at
      /\ \A a \in Named(c) : \E i \in DOMAIN cs : a \in Named(cs[i])
  <2>1. Makes(cs, c)
    BY <1>1, NewCalls
  <2> QED
    BY <2>1 DEF Makes
<1>4. c.at \in Nat /\ Len(c.data) \in Nat /\ Size \in Nat
  BY ChunkFields, Sizes
<1>5. SpiShape /\ SpiShape' /\ want \in [Addr -> Byte]
  BY BeginShape DEF SpiInv, SpiShape, SpiTypeOK
<1>6. MixedIsGarbled' /\ SectorCopied' /\ Programming'
  <2>1. ~ mixed
    BY <1>2 DEF SpiInv, MixedIsGarbled
  <2> QED
    BY <1>2, <2>1 DEF MixedIsGarbled, SectorCopied, Programming
<1>7. CallsApart'
  BY <1>2, <1>3 DEF CallsApart
<1>8. Asked'
  <2>1. ASSUME NEW i \in DOMAIN cs, NEW a \in Named(cs[i])
        PROVE  Stored(want, c)[a] = cs[i].data[a - cs[i].at + 1]
    <3>1. cs[i] \in Chunk
      BY <1>3
    <3>2. cs[i].at \in Nat /\ Len(cs[i].data) \in Nat /\ a \in Nat
          /\ cs[i].at <= a /\ a < cs[i].at + Len(cs[i].data)
      BY <3>1, ChunkFields, NamedBytes
    <3>3. cs[i].at >= c.at /\ cs[i].at + Len(cs[i].data) <= c.at + Len(c.data)
      BY <1>3
    <3>4. a >= c.at /\ a < c.at + Len(c.data) /\ a < Size
      BY <1>1, <1>4, <3>2, <3>3
    <3>5. a \in Named(c) /\ a \in Addr
      <4>1. a \in Named(c)
        BY <3>2, <3>4, NamedBytes
      <4>2. a \in Addr
        BY <1>4, <3>2, <3>4 DEF Addr
      <4> QED
        BY <4>1, <4>2
    <3>6. Stored(want, c)[a] = c.data[a - c.at + 1]
      BY <1>5, <3>5 DEF Stored
    <3>7. a - cs[i].at + 1 \in 1 .. Len(cs[i].data)
      BY <3>2
    <3>8. cs[i].data[a - cs[i].at + 1] = c.data[(cs[i].at - c.at) + (a - cs[i].at + 1)]
      BY <1>3, <3>7
    <3>9. (cs[i].at - c.at) + (a - cs[i].at + 1) = a - c.at + 1
      BY <1>4, <3>2
    <3> QED
      BY <3>6, <3>8, <3>9
  <2> QED
    BY <1>2, <2>1 DEF Asked
<1>9. Elsewhere'
  <2>1. SUFFICES ASSUME NEW a \in Addr, a \notin Harmed
                 PROVE  flash[a] = Due(a)'
    BY <1>2 DEF Elsewhere, Harmed
  <2>2. flash[a] = want[a]
    <3>1. calls = << >>
      BY <1>2, <1>5 DEF SpiShape, CallsFit
    <3>2. a \notin Pending
      BY <3>1 DEF Pending
    <3>3. Elsewhere /\ Rewritten = {}
      BY <1>2 DEF SpiInv, Rewritten
    <3> QED
      BY <2>1, <3>2, <3>3 DEF Elsewhere, Due
  <2>3. CASE a \in Named(c)
    <3>1. PICK i \in DOMAIN cs : a \in Named(cs[i])
      BY <1>3, <2>3
    <3>2. a \in Pending'
      BY <1>2, <3>1 DEF Pending
    <3> QED
      BY <1>2, <2>2, <3>2 DEF Due
  <2>4. CASE a \notin Named(c)
    <3>1. Stored(want, c)[a] = want[a]
      BY <1>5, <2>4 DEF Stored
    <3> QED
      BY <1>2, <2>2, <3>1 DEF Due
  <2> QED
    BY <2>3, <2>4
<1> QED
  BY <1>5, <1>6, <1>7, <1>8, <1>9 DEF SpiInv

\* The sector is read: it is copied, or the bytes to be written are blank.
LEMMA ReadInv ==
    ASSUME SpiInv, ReadSector
    PROVE  SpiInv'
<1> DEFINE B == SecPos * SectorSize
<1>1. /\ pc = "read" /\ UNCHANGED <<flash, calls, want, before, damaged>>
      /\ erased' = FALSE /\ buf' = SectorRead /\ mixed' = (stream # -1)
      /\ \/ /\ pc' = "erase"
            /\ garbled' = IF stream = -1 THEN garbled ELSE garbled \cup Sector
         \/ /\ pc' = "prog" /\ prog' = Part /\ ~ NeedsErase(buf')
            /\ garbled' = IF stream = -1 THEN garbled ELSE garbled \cup Named(Part)
  BY DEF ReadSector, gvars
<1>2. SpiShape /\ SpiShape' /\ SpiTypeOK /\ CallsFit /\ Asked /\ CallsApart /\ Elsewhere
  BY ReadShape DEF SpiInv, SpiShape
<1>3. CallsApart' /\ Asked'
  BY <1>1, <1>2, SameDue
<1>4. Part' = Part /\ Sector' = Sector
  BY <1>1, SameCalls
<1>5. ~ mixed' => \A i \in 0 .. (SectorSize - 1) : buf'[i] = flash[B + i]
  BY <1>1 DEF SectorRead
<1>9. MixedIsGarbled'
  BY <1>1, <1>4 DEF MixedIsGarbled, Suspect
<1>10. Harmed \subseteq Harmed'
  BY <1>1 DEF Harmed
<1>6. Elsewhere'
  <2>1. ASSUME NEW a \in Addr, a \notin Harmed'
        PROVE  flash'[a] = Due(a)'
    <3>1. Rewritten = {}
      BY <1>1 DEF Rewritten
    <3>2. flash[a] = Due(a)
      BY <1>2, <1>10, <2>1, <3>1 DEF Elsewhere
    <3>3. Due(a)' = Due(a)
      BY <1>1, SameDue
    <3> QED
      BY <1>1, <3>2, <3>3
  <2> QED
    BY <2>1 DEF Elsewhere
<1>7. SectorCopied'
  <2>1. SUFFICES ASSUME NEW a \in Sector, ~ mixed'
                 PROVE  buf'[a % SectorSize] = flash[a]
    BY <1>1, <1>4 DEF SectorCopied
  <2>2. a % SectorSize \in 0 .. (SectorSize - 1) /\ B + (a % SectorSize) = a
    <3>1. B \in Nat /\ a \in Nat /\ B <= a /\ a < B + SectorSize /\ a % SectorSize = a - B
      BY <1>1, <1>2, SectorUnderWay
    <3>2. SectorSize \in Nat
      BY Sizes
    <3> HIDE DEF B
    <3> QED
      BY <3>1, <3>2
  <2> QED
    BY <1>5, <2>1, <2>2
<1>8. Programming'
  <2>1. SUFFICES ASSUME pc' = "prog"
                 PROVE  /\ Named(prog') = {a \in Rewritten' : a >= prog'.at}
                        /\ \A a \in Rewritten' : (~ mixed' => HalfWay(a)') /\ RightTarget(a)'
    BY <1>1 DEF Programming
  <2>2. prog' = Part /\ ~ NeedsErase(buf') /\ Rewritten' = Named(Part)
    BY <1>1, <1>4, <2>1 DEF Rewritten
  <2>3. Named(prog') = {a \in Rewritten' : a >= prog'.at}
    BY <1>1, <1>2, <2>2, PartBytes
  <2>4. ASSUME NEW a \in Named(Part)
        PROVE  (~ mixed' => HalfWay(a)') /\ RightTarget(a)'
    <3>1. /\ a \in Nat /\ Part.at <= a /\ a < Part.at + Len(Part.data)
          /\ Part.data[a - Part.at + 1] = want[a]
      BY <1>1, <1>2, PartBytes
    <3>2. ~ mixed' => flash[a] = Blank
      <4>1. /\ Len(Part.data) \in Nat /\ Part.at \in Nat /\ Part.at = B + SecOff
            /\ SecOff \in Nat /\ B \in Nat /\ SecOff + Len(Part.data) <= SectorSize
            /\ SectorSize \in Nat
        <5>1. Part \in Chunk /\ Part.at = calls[1].at /\ SecOff + Len(Part.data) <= SectorSize
          BY <1>1, <1>2, PartUnderWay
        <5>2. SecOff \in 0 .. (SectorSize - 1) /\ calls[1].at = B + SecOff /\ B \in Nat
          BY <1>1, <1>2, SectorUnderWay
        <5>3. SecOff \in Nat /\ SectorSize \in Nat
          BY <5>2, Sizes
        <5> QED
          BY <5>1, <5>2, <5>3, ChunkFields
      <4> DEFINE i == a - Part.at
      <4> HIDE DEF B
      <4>2. i \in 0 .. (Len(Part.data) - 1) /\ SecOff + i \in 0 .. (SectorSize - 1)
            /\ B + (SecOff + i) = a
        <5>1. a \in Nat /\ Part.at <= a /\ a < Part.at + Len(Part.data)
          BY <3>1
        <5>2. i \in Nat /\ i < Len(Part.data) /\ a = Part.at + i
          BY <4>1, <5>1, Offset
        <5> HIDE DEF i
        <5>3. i \in 0 .. (Len(Part.data) - 1)
          BY <4>1, <5>2
        <5>4. SecOff + i \in Nat /\ SecOff + i < SectorSize
          BY <4>1, <5>2
        <5>5. SecOff + i \in 0 .. (SectorSize - 1)
          BY <4>1, <5>4
        <5>6. B + (SecOff + i) = a
          BY <4>1, <5>2
        <5> QED
          BY <5>3, <5>5, <5>6
      <4> HIDE DEF i
      <4>3. buf'[SecOff + i] = Blank
        BY <2>2, <4>2 DEF NeedsErase
      <4> QED
        BY <1>5, <4>2, <4>3 DEF B
    <3>3. Target(a)' = want[a]
      BY <1>1 DEF Target
    <3>4. ~ mixed' => HalfWay(a)'
      <4>1. ~ (a < Part.at)
        BY <1>1, <1>2, <3>1, PartUnderWay, ChunkFields
      <4> QED
        BY <1>1, <2>2, <3>1, <3>2, <3>3, <4>1 DEF HalfWay
    <3>5. RightTarget(a)'
      BY <1>1, <1>4, <3>3 DEF RightTarget
    <3> QED
      BY <3>4, <3>5
  <2> QED
    BY <2>2, <2>3, <2>4
<1> QED
  BY <1>2, <1>3, <1>6, <1>7, <1>8, <1>9 DEF SpiInv

\* The sector is erased: what it held is in W25QXX_BUF, with the bytes to be written.
LEMMA EraseInv ==
    ASSUME SpiInv, EraseSector
    PROVE  SpiInv'
<1> DEFINE B == SecPos * SectorSize
<1>1. /\ pc = "erase" /\ UNCHANGED <<calls, want, before, damaged, mixed, garbled>>
      /\ erased' = TRUE /\ pc' = "prog"
      /\ flash' = [a \in Addr |-> IF a \in Sector THEN Blank ELSE flash[a]]
      /\ buf' = Stored(buf, [Part EXCEPT !.at = SecOff])
      /\ prog'.at = B
  BY DEF EraseSector, gvars
<1>2. SpiShape /\ SpiShape' /\ SpiTypeOK /\ CallsFit /\ Asked /\ CallsApart /\ Elsewhere
      /\ MixedIsGarbled /\ SectorCopied /\ buf \in [0 .. (SectorSize - 1) -> Byte]
      /\ \A k \in 1 .. SectorSize : prog'.data[k] = buf'[k - 1]
  BY EraseShape DEF SpiInv, SpiShape, SpiTypeOK
<1>3. CallsApart' /\ Asked' /\ SectorCopied' /\ Harmed' = Harmed
  BY <1>1, <1>2, SameDue DEF SectorCopied, Harmed
<1>4. Part' = Part /\ Sector' = Sector /\ Rewritten' = Sector /\ Rewritten = {}
  BY <1>1, SameCalls DEF Rewritten
<1>13. MixedIsGarbled' /\ (mixed => Sector \subseteq Harmed)
  BY <1>1, <1>2, <1>4 DEF MixedIsGarbled, Suspect, Harmed
<1>5. \A a \in Addr : a \notin Harmed => flash[a] = Due(a)
  BY <1>2, <1>4 DEF Elsewhere
<1>6. \A a : Due(a)' = Due(a)
  BY <1>1, SameDue
<1>7. Elsewhere'
  BY <1>1, <1>3, <1>4, <1>5, <1>6 DEF Elsewhere
<1>8. /\ B \in Nat /\ SectorSize \in Nat \ {0} /\ SecOff \in Nat /\ calls[1].at = B + SecOff
      /\ Sector \subseteq Addr
      /\ \A a \in Sector : a \in Nat /\ B <= a /\ a < B + SectorSize /\ a % SectorSize = a - B
  <2>1. SecOff \in 0 .. (SectorSize - 1) /\ SectorSize \in Nat \ {0}
    BY <1>1, <1>2, SectorUnderWay, Sizes
  <2>2. SecOff \in Nat
    BY <2>1
  <2> QED
    BY <1>1, <1>2, <2>1, <2>2, SectorUnderWay
<1>9. Part \in Chunk /\ Part.at = B + SecOff /\ Len(Part.data) \in Nat
      /\ Named(Part) \subseteq Sector
  BY <1>1, <1>2, <1>8, PartUnderWay
<1>10. Named(prog') = {a \in Rewritten' : a >= prog'.at}
  <2>1. Len(prog'.data) = SectorSize
    BY <1>2, EraseShape
  <2> HIDE DEF B
  <2>2. \A a : a \in Named(prog') <=> a \in Nat /\ B <= a /\ a < B + SectorSize
    BY <1>1, <1>8, <2>1 DEF Named
  <2>3. \A a : a \in Sector <=> a \in Nat /\ B <= a /\ a < B + SectorSize
    BY <1>1, <1>2, SectorUnderWay DEF B
  <2>4. \A a \in Sector : a >= prog'.at
    BY <1>1, <1>8
  <2> QED
    BY <1>4, <2>2, <2>3, <2>4
<1>11. ASSUME NEW a \in Sector
       PROVE  HalfWay(a)' /\ RightTarget(a)'
  <2>1. a \in Addr /\ a \in Nat /\ B <= a /\ a < B + SectorSize /\ a % SectorSize = a - B
    BY <1>8
  <2>2. Target(a)' = buf'[a - B]
    BY <1>1, <2>1 DEF Target
  <2>3. a - B \in 0 .. (SectorSize - 1) /\ a - B + 1 \in 1 .. SectorSize
        /\ (a - B + 1) - 1 = a - B /\ ~ (a < B)
    <3> HIDE DEF B
    <3> QED
      BY <1>8, <2>1
  <2>4. HalfWay(a)'
    <3>1. prog'.data[a - B + 1] = buf'[a - B]
      BY <1>2, <2>3
    <3>2. flash'[a] = Blank
      BY <1>1, <2>1
    <3> QED
      BY <1>1, <2>2, <2>3, <3>1, <3>2 DEF HalfWay
  <2> DEFINE p == [Part EXCEPT !.at = SecOff]
  <2>5. p.at = SecOff /\ p.data = Part.data
    BY <1>9 DEF Chunk
  <2>6. a - B \in Named(p) <=> a \in Named(Part)
    <3>1. a - B \in Named(p) <=> SecOff <= a - B /\ a - B < SecOff + Len(Part.data)
      <4> DEFINE x == a - B
      <4>1. Named(p) = SecOff .. (SecOff + Len(Part.data) - 1)
        BY <2>5 DEF Named
      <4>2. SecOff \in Nat /\ Len(Part.data) \in Nat
        BY <1>8, <1>9
      <4>3. x \in Nat
        BY <2>3, <1>8
      <4> HIDE DEF x
      <4>4. x \in Named(p) <=> SecOff <= x /\ x < SecOff + Len(Part.data)
        BY <4>1, <4>2, <4>3
      <4> QED
        BY <4>4 DEF x
    <3>2. a \in Named(Part) <=> Part.at <= a /\ a < Part.at + Len(Part.data)
      BY <1>9, <2>1, NamedBytes
    <3>3. /\ SecOff <= a - B <=> Part.at <= a
          /\ a - B < SecOff + Len(Part.data) <=> a < Part.at + Len(Part.data)
      <4>1. /\ B \in Nat /\ SecOff \in Nat /\ Part.at = B + SecOff
            /\ Len(Part.data) \in Nat /\ a \in Nat
        BY <1>8, <1>9
      <4> HIDE DEF B
      <4>2. /\ SecOff <= a - B <=> B + SecOff <= a
            /\ a - B < SecOff + Len(Part.data) <=> a < B + SecOff + Len(Part.data)
        BY <4>1, Offset
      <4> QED
        BY <4>1, <4>2
    <3> QED
      BY <3>1, <3>2, <3>3
  <2>7. buf'[a - B] = IF a - B \in Named(p) THEN Part.data[a - B - SecOff + 1] ELSE buf[a - B]
    BY <1>1, <1>2, <2>3, <2>5 DEF Stored
  <2>8. a \in Named(Part) => Target(a)' = want[a]
    <3>1. a - Part.at = a - B - SecOff
      <4> HIDE DEF B
      <4> QED
        BY <1>8, <1>9, <2>1
    <3>2. a \in Named(Part) => Part.data[a - Part.at + 1] = want[a]
      BY <1>1, <1>2, PartBytes
    <3> QED
      BY <2>2, <2>6, <2>7, <3>1, <3>2
  <2>9. a \notin Named(Part) /\ a \notin Harmed => Target(a)' = Due(a)
    <3>1. a \notin Harmed => buf[a % SectorSize] = flash[a]
      BY <1>1, <1>2, <1>13 DEF SectorCopied
    <3> QED
      BY <1>5, <2>1, <2>2, <2>6, <2>7, <3>1
  <2>10. RightTarget(a)'
    BY <1>1, <1>3, <1>4, <1>6, <2>8, <2>9 DEF RightTarget
  <2> QED
    BY <2>4, <2>10
<1>12. Programming'
  BY <1>4, <1>10, <1>11 DEF Programming
<1> QED
  BY <1>2, <1>3, <1>7, <1>12, <1>13 DEF SpiInv

\* Programming a page: its bytes, blank until now, get their values; no others change.
LEMMA PageBytes ==
    ASSUME SpiShape, Programming, WritePage
    PROVE  LET n == Cut(prog, PageSize) IN
           /\ \A a \in Addr : a \notin Rewritten => flash'[a] = flash[a]
           /\ \A a \in Rewritten : a \in Addr
           /\ ~ mixed \/ erased => \A a \in Rewritten :
                 IF a < prog.at + n THEN flash'[a] = Target(a)
                 ELSE /\ flash'[a] = Blank /\ prog.at <= a /\ a < prog.at + Len(prog.data)
                      /\ prog.data[a - prog.at + 1] = Target(a)
<1> DEFINE n == Cut(prog, PageSize)
           p == First(prog, n)
<1>1. pc = "prog" /\ flash' = Programmed(flash, p)
  BY DEF WritePage
<1>2. /\ prog \in Chunk /\ Len(prog.data) \in Nat \ {0} /\ prog.at \in Nat
      /\ prog.at + Len(prog.data) <= Size
      /\ n \in Nat \ {0} /\ n <= Len(prog.data)
      /\ p \in Chunk /\ p.at = prog.at /\ Len(p.data) = n
      /\ \A k \in 1 .. n : p.data[k] = prog.data[k]
  BY <1>1, PageIs
<1> HIDE DEF n, p
<1>3. /\ Named(prog) = {a \in Rewritten : a >= prog.at}
      /\ ~ mixed \/ erased => \A a \in Rewritten : HalfWay(a)
      /\ flash \in [Addr -> Byte] /\ SpiTypeOK /\ CallsFit
  BY <1>1 DEF Programming, SpiShape, SpiTypeOK
<1>4. ASSUME NEW a \in Rewritten
      PROVE  a \in Addr /\ a \in Nat
  <2>1. a \in Addr
    BY <1>1, <1>3, SectorUnderWay, PartBytes DEF Rewritten
  <2> QED
    BY <2>1, Sizes
<1>5. ASSUME NEW a \in Addr
      PROVE  flash'[a] = IF a \in Named(p) THEN flash[a] \cap p.data[a - p.at + 1]
                         ELSE flash[a]
  BY <1>1, <1>3 DEF Programmed
<1>6. ASSUME NEW a \in Named(p)
      PROVE  a \in Rewritten
  <2>1. a \in Nat /\ prog.at <= a /\ a < prog.at + n
    BY <1>2, NamedBytes
  <2>2. a < prog.at + Len(prog.data)
    BY <1>2, <2>1
  <2>3. a \in Named(prog)
    BY <1>2, <2>1, <2>2, NamedBytes
  <2> QED
    BY <1>3, <2>3
<1>7. ASSUME NEW a \in Addr, a \notin Rewritten
      PROVE  flash'[a] = flash[a]
  BY <1>5, <1>6, <1>7
<1>8. ASSUME NEW a \in Rewritten, ~ mixed \/ erased
      PROVE  IF a < prog.at + n THEN flash'[a] = Target(a)
             ELSE /\ flash'[a] = Blank /\ prog.at <= a /\ a < prog.at + Len(prog.data)
                  /\ prog.data[a - prog.at + 1] = Target(a)
  <2>1. a \in Addr /\ a \in Nat
    BY <1>4
  <2>2. a \in Named(p) <=> prog.at <= a /\ a < prog.at + n
    BY <1>2, <2>1, NamedBytes
  <2>3. CASE a < prog.at
    <3>1. flash[a] = Target(a)
      BY <1>3, <1>8, <2>3 DEF HalfWay
    <3>2. a \notin Named(p) /\ a < prog.at + n
      BY <1>2, <2>1, <2>2, <2>3
    <3> QED
      BY <1>5, <2>1, <3>1, <3>2
  <2>4. CASE prog.at <= a
    <3>1. flash[a] = Blank /\ prog.data[a - prog.at + 1] = Target(a)
      <4>1. ~ (a < prog.at)
        BY <1>2, <2>1, <2>4
      <4> QED
        BY <1>3, <1>8, <4>1 DEF HalfWay
    <3>2. a < prog.at + Len(prog.data)
      <4>1. a \in Named(prog)
        BY <1>3, <2>4
      <4> QED
        BY <1>2, <4>1, NamedBytes
    <3>3. CASE a < prog.at + n
      <4>1. a - prog.at + 1 \in 1 .. n /\ a - prog.at + 1 \in 1 .. Len(prog.data)
        BY <1>2, <2>1, <2>4, <3>3
      <4>2. p.data[a - p.at + 1] = Target(a)
        BY <1>2, <3>1, <4>1
      <4>3. prog.data[a - prog.at + 1] \in Byte
        <5>1. prog.data \in Seq(Byte)
          BY <1>2, ChunkFields
        <5> QED
          BY <1>2, <4>1, <5>1
      <4>4. Target(a) \subseteq Blank
        BY <3>1, <4>3 DEF Byte, Blank
      <4>5. flash'[a] = Blank \cap Target(a)
        BY <1>5, <2>1, <2>2, <2>4, <3>1, <3>3, <4>2
      <4> QED
        BY <3>3, <4>4, <4>5
    <3>4. CASE ~ (a < prog.at + n)
      <4>1. flash'[a] = flash[a]
        BY <1>5, <2>1, <2>2, <3>4
      <4> QED
        BY <2>4, <3>1, <3>2, <3>4, <4>1
    <3> QED
      BY <3>3, <3>4
  <2> QED
    BY <1>2, <2>1, <2>3, <2>4
<1> QED
  BY <1>4, <1>7, <1>8 DEF n

\* A page that is not the last one of what W25QXX_Write_NoCheck has been given.
LEMMA PageInv ==
    ASSUME SpiInv, WritePage, Cut(prog, PageSize) # Len(prog.data)
    PROVE  SpiInv'
<1> DEFINE n == Cut(prog, PageSize)
<1>1. /\ pc = "prog" /\ prog' = Rest(prog, n)
      /\ UNCHANGED <<calls, pc, buf, erased, damaged, mixed, garbled, want, before>>
  BY DEF WritePage
<1>2. SpiShape /\ SpiShape' /\ Asked /\ CallsApart /\ Elsewhere /\ MixedIsGarbled
      /\ Programming /\ SectorCopied
  BY PageShape DEF SpiInv
<1>3. /\ \A a \in Addr : a \notin Rewritten => flash'[a] = flash[a]
      /\ \A a \in Rewritten : a \in Addr
      /\ ~ mixed \/ erased => \A a \in Rewritten :
            IF a < prog.at + n THEN flash'[a] = Target(a)
            ELSE /\ flash'[a] = Blank /\ prog.at <= a /\ a < prog.at + Len(prog.data)
                 /\ prog.data[a - prog.at + 1] = Target(a)
  BY <1>2, PageBytes
<1>4. /\ prog \in Chunk /\ Len(prog.data) \in Nat \ {0} /\ prog.at \in Nat
      /\ n \in Nat \ {0} /\ n < Len(prog.data)
      /\ prog' \in Chunk /\ prog'.at = prog.at + n
      /\ Len(prog'.data) = Len(prog.data) - n
      /\ \A k \in 1 .. (Len(prog.data) - n) : prog'.data[k] = prog.data[n + k]
  <2>1. /\ prog \in Chunk /\ Len(prog.data) \in Nat \ {0} /\ prog.at \in Nat
        /\ n \in Nat \ {0} /\ n <= Len(prog.data)
        /\ n < Len(prog.data) =>
              /\ Rest(prog, n) \in Chunk /\ Rest(prog, n).at = prog.at + n
              /\ Len(Rest(prog, n).data) = Len(prog.data) - n
              /\ \A k \in 1 .. (Len(prog.data) - n) :
                    Rest(prog, n).data[k] = prog.data[n + k]
    BY <1>1, <1>2, PageIs
  <2>2. n # Len(prog.data)
    OBVIOUS
  <2> HIDE DEF n
  <2>3. n < Len(prog.data)
    BY <2>1, <2>2
  <2> QED
    BY <1>1, <2>1, <2>3
<1> HIDE DEF n
<1>5. /\ Part' = Part /\ Sector' = Sector /\ Rewritten' = Rewritten
      /\ \A a : Due(a)' = Due(a)
      /\ \A a : Target(a)' = Target(a)
      /\ \A a : RightTarget(a)' <=> RightTarget(a)
      /\ Harmed' = Harmed
  <2>1. Part' = Part /\ Sector' = Sector
    BY <1>1, SameCalls
  <2>2. \A a : Due(a)' = Due(a)
    BY <1>1, SameDue
  <2>3. \A a : Target(a)' = Target(a)
    BY <1>1 DEF Target
  <2>4. Rewritten' = Rewritten
    BY <1>1, <2>1 DEF Rewritten
  <2>6. Harmed' = Harmed
    BY <1>1 DEF Harmed
  <2>5. \A a : RightTarget(a)' <=> RightTarget(a)
    BY <1>1, <2>1, <2>2, <2>3, <2>6 DEF RightTarget
  <2> QED
    BY <2>1, <2>2, <2>3, <2>4, <2>5, <2>6
<1>6. MixedIsGarbled' /\ CallsApart' /\ Asked' /\ SectorCopied'
  BY <1>1, <1>2, <1>5, SameDue DEF MixedIsGarbled, Suspect, SectorCopied
<1>7. Elsewhere'
  <2>1. ASSUME NEW a \in Addr, a \notin Harmed, a \notin Rewritten
        PROVE  flash'[a] = Due(a)'
    <3>1. flash[a] = Due(a)
      BY <1>2, <2>1 DEF Elsewhere
    <3>2. flash'[a] = flash[a]
      BY <1>3, <2>1
    <3> QED
      BY <1>5, <3>1, <3>2
  <2> QED
    BY <1>1, <1>5, <2>1 DEF Elsewhere
<1>8. Named(prog') = {a \in Rewritten : a >= prog'.at}
  <2>1. Named(prog) = {a \in Rewritten : a >= prog.at}
    BY <1>1, <1>2 DEF Programming
  <2>2. ASSUME NEW a
        PROVE  a \in Named(prog') <=> a \in Named(prog) /\ a >= prog.at + n
    <3>1. a \in Named(prog') <=> a \in Nat /\ prog.at + n <= a
                                 /\ a < prog.at + n + (Len(prog.data) - n)
      BY <1>4, NamedBytes
    <3>2. a \in Named(prog) <=> a \in Nat /\ prog.at <= a /\ a < prog.at + Len(prog.data)
      BY <1>4, NamedBytes
    <3> QED
      BY <1>4, <3>1, <3>2
  <2>3. ASSUME NEW a \in Rewritten
        PROVE  a >= prog.at + n => a >= prog.at
    <3>1. a \in Nat
      BY <1>3, Sizes
    <3>2. prog.at \in Nat /\ n \in Nat
      BY <1>4
    <3> QED
      BY <3>1, <3>2
  <2> QED
    BY <1>4, <2>1, <2>2, <2>3
<1>9. ASSUME NEW a \in Rewritten, ~ mixed \/ erased
      PROVE  HalfWay(a)'
  <2>1. a \in Nat
    BY <1>3, Sizes
  <2> DEFINE t == Target(a)
  <2>4. Target(a)' = t /\ prog'.at = prog.at + n
    BY <1>4, <1>5
  <2>5. IF a < prog.at + n THEN flash'[a] = t
        ELSE /\ flash'[a] = Blank /\ prog.at <= a /\ a < prog.at + Len(prog.data)
             /\ prog.data[a - prog.at + 1] = t
    BY <1>3, <1>9
  <2> HIDE DEF t
  <2>2. CASE a < prog.at + n
    BY <2>2, <2>4, <2>5 DEF HalfWay
  <2>3. CASE ~ (a < prog.at + n)
    <3>1. /\ flash'[a] = Blank /\ prog.at <= a /\ a < prog.at + Len(prog.data)
          /\ prog.data[a - prog.at + 1] = t
      BY <2>3, <2>5
    <3> DEFINE k == a - (prog.at + n) + 1
    <3>2. k \in 1 .. (Len(prog.data) - n) /\ n + k = a - prog.at + 1
      BY <1>4, <2>1, <2>3, <3>1
    <3>3. prog'.data[k] = t
      <4> HIDE DEF k
      <4> QED
        BY <1>4, <3>1, <3>2
    <3>4. prog'.data[a - prog'.at + 1] = t
      BY <2>4, <3>3
    <3>5. ~ (a < prog'.at)
      BY <2>3, <2>4
    <3> QED
      BY <2>4, <3>1, <3>4, <3>5 DEF HalfWay
  <2> QED
    BY <2>2, <2>3
<1>10. Programming'
  BY <1>1, <1>2, <1>5, <1>8, <1>9 DEF Programming
<1> QED
  BY <1>2, <1>6, <1>7, <1>10 DEF SpiInv

\* A part is done: its bytes are no longer pending, all others still are, and the calls
\* are still in order.
LEMMA AdvancePending ==
    ASSUME SpiTypeOK, CallsFit, CallsApart, Asked, pc # "idle", Advance, UNCHANGED want
    PROVE  /\ \A a : a \in Pending' <=> a \in Pending /\ a \notin Named(Part)
           /\ CallsApart' /\ Asked'
<1> DEFINE n == Len(Part.data)
           at(i) == calls[i].at
           end(i) == calls[i].at + Len(calls[i].data)
<1>1. /\ calls' \in Seq(Chunk)
      /\ \/ /\ n = Len(calls[1].data) /\ Len(calls') = Len(calls) - 1
            /\ \A i \in 1 .. Len(calls') : calls'[i] = calls[i + 1]
         \/ /\ n < Len(calls[1].data) /\ Len(calls') = Len(calls)
            /\ calls'[1] = Rest(calls[1], n) /\ calls'[1] \in Chunk
            /\ \A i \in 2 .. Len(calls') : calls'[i] = calls[i]
  BY AdvanceIs
<1>2. n \in Nat \ {0} /\ Part \in Chunk /\ Part.at = calls[1].at
  BY PartUnderWay
<1>3. /\ calls \in Seq(Chunk) /\ Len(calls) \in Nat \ {0} /\ Len(calls') \in Nat
      /\ DOMAIN calls = 1 .. Len(calls) /\ DOMAIN calls' = 1 .. Len(calls')
      /\ calls[1] \in Chunk /\ 1 \in DOMAIN calls
      /\ calls[1].at + Len(calls[1].data) <= Size
  BY <1>1, CallUnderWay DEF SpiTypeOK
<1>4. ASSUME NEW i \in 1 .. Len(calls)
      PROVE  /\ calls[i] \in Chunk /\ at(i) \in Nat /\ end(i) \in Nat /\ at(i) < end(i)
             /\ Len(calls[i].data) \in Nat
             /\ \A a : a \in Named(calls[i]) <=> a \in Nat /\ at(i) <= a /\ a < end(i)
             /\ \A a \in Named(calls[i]) : want[a] = calls[i].data[a - at(i) + 1]
  <2>1. calls[i] \in Chunk
    BY <1>3
  <2>2. at(i) \in Nat /\ Len(calls[i].data) \in Nat /\ Len(calls[i].data) > 0
    BY <1>3, <2>1, ChunkFields DEF CallsFit
  <2>3. end(i) \in Nat /\ at(i) < end(i)
    BY <2>2
  <2>4. \A a : a \in Named(calls[i]) <=> a \in Nat /\ at(i) <= a /\ a < end(i)
    BY <2>1, NamedBytes
  <2>5. \A a \in Named(calls[i]) : want[a] = calls[i].data[a - at(i) + 1]
    BY <1>3 DEF Asked
  <2> QED
    BY <2>1, <2>2, <2>3, <2>4, <2>5
<1>5. ASSUME NEW i \in 1 .. Len(calls), NEW a \in Named(calls[i])
      PROVE  want[a] = calls[i].data[a - at(i) + 1]
  BY <1>4
<1>6. \A i, j \in 1 .. Len(calls) : i < j => end(i) <= at(j)
  BY <1>3 DEF CallsApart
<1>7. \A a : a \in Pending <=> \E i \in 1 .. Len(calls) : a \in Named(calls[i])
  BY <1>3 DEF Pending
<1>8. \A a : a \in Pending' <=> \E i \in 1 .. Len(calls') : a \in Named(calls'[i])
  BY <1>3 DEF Pending
<1>9. \A a : a \in Named(Part) <=> a \in Nat /\ at(1) <= a /\ a < at(1) + n
  BY <1>2, NamedBytes
<1>10. Len(calls[1].data) \in Nat /\ at(1) \in Nat /\ end(1) = at(1) + Len(calls[1].data)
  BY <1>3, <1>4
<1> HIDE DEF n, at, end
<1>11. ASSUME NEW i \in 2 .. Len(calls), NEW a \in Named(calls[i])
       PROVE  a \in Nat /\ end(1) <= a
  <2>1. i \in 1 .. Len(calls) /\ 1 \in 1 .. Len(calls) /\ 1 < i
    BY <1>3
  <2>2. end(1) <= at(i) /\ end(1) \in Nat /\ at(i) \in Nat
    BY <1>4, <1>6, <2>1
  <2>3. a \in Nat /\ at(i) <= a
    BY <1>4, <2>1
  <2> QED
    BY <2>2, <2>3
<1>12. CASE /\ n = Len(calls[1].data) /\ Len(calls') = Len(calls) - 1
            /\ \A i \in 1 .. Len(calls') : calls'[i] = calls[i + 1]
  <2>1. \A i \in 1 .. Len(calls') : i + 1 \in 1 .. Len(calls) /\ i + 1 \in 2 .. Len(calls)
                                    /\ calls'[i] = calls[i + 1]
    BY <1>3, <1>12
  <2>2. \A i \in 2 .. Len(calls) : i - 1 \in 1 .. Len(calls') /\ (i - 1) + 1 = i
    BY <1>3, <1>12
  <2>3. \A a : a \in Named(Part) <=> a \in Named(calls[1])
    BY <1>3, <1>4, <1>9, <1>10, <1>12
  <2>4. ASSUME NEW a
        PROVE  a \in Pending' <=> a \in Pending /\ a \notin Named(Part)
    <3>1. ASSUME a \in Pending'
          PROVE  a \in Pending /\ a \notin Named(Part)
      <4>1. PICK i \in 2 .. Len(calls) : a \in Named(calls[i])
        BY <1>8, <2>1, <3>1
      <4>2. a \in Pending
        BY <1>3, <1>7, <4>1
      <4>3. a \in Nat /\ end(1) <= a
        BY <1>11, <4>1
      <4>4. a \notin Named(Part)
        BY <1>9, <1>10, <1>12, <4>3
      <4> QED
        BY <4>2, <4>4
    <3>2. ASSUME a \in Pending, a \notin Named(Part)
          PROVE  a \in Pending'
      <4>1. PICK i \in 1 .. Len(calls) : a \in Named(calls[i])
        BY <1>7, <3>2
      <4>2. i # 1
        BY <2>3, <3>2, <4>1
      <4>3. i \in 2 .. Len(calls)
        BY <1>3, <4>1, <4>2
      <4>4. a \in Named(calls'[i - 1]) /\ i - 1 \in 1 .. Len(calls')
        BY <2>1, <2>2, <4>1, <4>3
      <4> QED
        BY <1>8, <4>4
    <3> QED
      BY <3>1, <3>2
  <2>5. CallsApart'
    <3>1. ASSUME NEW i \in 1 .. Len(calls'), NEW j \in 1 .. Len(calls'), i < j
          PROVE  calls'[i].at + Len(calls'[i].data) <= calls'[j].at
      <4>1. i + 1 \in 1 .. Len(calls) /\ j + 1 \in 1 .. Len(calls) /\ i + 1 < j + 1
        BY <2>1, <3>1, <1>3
      <4>2. end(i + 1) <= at(j + 1)
        BY <1>6, <4>1
      <4> QED
        BY <2>1, <4>2 DEF at, end
    <3> QED
      BY <1>3, <3>1 DEF CallsApart
  <2>6. Asked'
    <3>1. ASSUME NEW i \in 1 .. Len(calls'), NEW a \in Named(calls'[i])
          PROVE  want[a] = calls'[i].data[a - calls'[i].at + 1]
      <4>1. i + 1 \in 1 .. Len(calls) /\ calls'[i] = calls[i + 1]
        BY <2>1
      <4>2. a \in Named(calls[i + 1])
        BY <4>1
      <4>3. want[a] = calls[i + 1].data[a - at(i + 1) + 1]
        BY <1>5, <4>1, <4>2
      <4> QED
        BY <4>1, <4>3 DEF at
    <3> QED
      BY <1>3, <3>1 DEF Asked
  <2> QED
    BY <2>4, <2>5, <2>6
<1>13. CASE /\ n < Len(calls[1].data) /\ Len(calls') = Len(calls)
            /\ calls'[1] = Rest(calls[1], n) /\ calls'[1] \in Chunk
            /\ \A i \in 2 .. Len(calls') : calls'[i] = calls[i]
  <2> DEFINE r == Rest(calls[1], n)
  <2>1. /\ r \in Chunk /\ r.at = at(1) + n /\ Len(r.data) = Len(calls[1].data) - n
        /\ \A k \in 1 .. (Len(calls[1].data) - n) : r.data[k] = calls[1].data[n + k]
    BY <1>2, <1>3, <1>13, RestIs DEF at
  <2>2. /\ calls'[1] = r /\ 1 \in 1 .. Len(calls') /\ Len(calls') = Len(calls)
        /\ \A i \in 2 .. Len(calls') : calls'[i] = calls[i]
    BY <1>3, <1>13
  <2> HIDE DEF r
  <2>3. r.at + Len(r.data) = end(1)
    BY <1>2, <1>10, <2>1
  <2>4. \A a : a \in Named(r) <=> a \in Nat /\ at(1) + n <= a /\ a < end(1)
    BY <2>1, <2>3, NamedBytes
  <2>5. ASSUME NEW a
        PROVE  a \in Named(r) <=> a \in Named(calls[1]) /\ a \notin Named(Part)
    <3>1. a \in Named(calls[1]) <=> a \in Nat /\ at(1) <= a /\ a < end(1)
      BY <1>3, <1>4
    <3>2. a \in Named(Part) <=> a \in Nat /\ at(1) <= a /\ a < at(1) + n
      BY <1>9
    <3>3. a \in Named(r) <=> a \in Nat /\ at(1) + n <= a /\ a < end(1)
      BY <2>4
    <3>4. at(1) \in Nat /\ n \in Nat /\ end(1) \in Nat
      BY <1>2, <1>3, <1>4
    <3> QED
      BY <3>1, <3>2, <3>3, <3>4
  <2>6. ASSUME NEW a
        PROVE  a \in Pending' <=> a \in Pending /\ a \notin Named(Part)
    <3>1. ASSUME a \in Pending'
          PROVE  a \in Pending /\ a \notin Named(Part)
      <4>1. PICK i \in 1 .. Len(calls') : a \in Named(calls'[i])
        BY <1>8, <3>1
      <4>2. CASE i = 1
        BY <1>3, <1>7, <2>2, <2>5, <4>1, <4>2
      <4>3. CASE i # 1
        <5>1. i \in 2 .. Len(calls) /\ a \in Named(calls[i])
          BY <1>3, <2>2, <4>1, <4>3
        <5>2. a \in Nat /\ end(1) <= a
          BY <1>11, <5>1
        <5>3. at(1) + n < end(1) /\ at(1) + n \in Nat /\ end(1) \in Nat
          BY <1>2, <1>3, <1>10, <1>13
        <5>4. a \notin Named(Part)
          BY <1>9, <5>2, <5>3
        <5> QED
          BY <1>3, <1>7, <5>1, <5>4
      <4> QED
        BY <4>2, <4>3
    <3>2. ASSUME a \in Pending, a \notin Named(Part)
          PROVE  a \in Pending'
      <4>1. PICK i \in 1 .. Len(calls) : a \in Named(calls[i])
        BY <1>7, <3>2
      <4>2. CASE i = 1
        BY <1>8, <2>2, <2>5, <3>2, <4>1, <4>2
      <4>3. CASE i # 1
        <5>1. i \in 2 .. Len(calls') /\ i \in 1 .. Len(calls')
          BY <1>3, <2>2, <4>1, <4>3
        <5> QED
          BY <1>8, <2>2, <4>1, <5>1
      <4> QED
        BY <4>2, <4>3
    <3> QED
      BY <3>1, <3>2
  <2>7. CallsApart'
    <3>1. ASSUME NEW i \in 1 .. Len(calls'), NEW j \in 1 .. Len(calls'), i < j
          PROVE  calls'[i].at + Len(calls'[i].data) <= calls'[j].at
      <4>1. i \in 1 .. Len(calls) /\ j \in 2 .. Len(calls') /\ j \in 1 .. Len(calls)
        BY <1>3, <2>2, <3>1
      <4>2. end(i) <= at(j) /\ calls'[j] = calls[j]
        BY <1>6, <2>2, <3>1, <4>1
      <4>3. calls'[i].at + Len(calls'[i].data) = end(i)
        <5>1. CASE i = 1
          BY <2>2, <2>3, <5>1
        <5>2. CASE i # 1
          <6>1. i \in 2 .. Len(calls')
            BY <1>3, <5>2
          <6> QED
            BY <2>2, <6>1 DEF end
        <5> QED
          BY <5>1, <5>2
      <4> QED
        BY <4>2, <4>3 DEF at
    <3> QED
      BY <1>3, <3>1 DEF CallsApart
  <2>8. Asked'
    <3>1. ASSUME NEW i \in 1 .. Len(calls'), NEW a \in Named(calls'[i])
          PROVE  want[a] = calls'[i].data[a - calls'[i].at + 1]
      <4>1. CASE i = 1
        <5>1. calls'[i] = r /\ a \in Named(r) /\ a \in Named(calls[1])
          BY <2>2, <2>5, <4>1
        <5>2. a \in Nat /\ at(1) + n <= a /\ a < end(1)
          BY <2>4, <5>1
        <5>3. want[a] = calls[1].data[a - at(1) + 1]
          BY <1>3, <1>4, <5>1
        <5>4. /\ a - (at(1) + n) + 1 \in 1 .. (Len(calls[1].data) - n)
              /\ n + (a - (at(1) + n) + 1) = a - at(1) + 1
          <6>1. a < at(1) + Len(calls[1].data)
            BY <1>10, <5>2
          <6> QED
            BY <1>2, <1>10, <5>2, <6>1, Onward
        <5>5. r.data[a - (at(1) + n) + 1] = calls[1].data[a - at(1) + 1]
          BY <2>1, <5>4
        <5> QED
          BY <2>1, <5>1, <5>3, <5>5
      <4>2. CASE i # 1
        <5>1. i \in 2 .. Len(calls') /\ i \in 1 .. Len(calls)
          BY <1>3, <2>2, <4>2
        <5>2. calls'[i] = calls[i]
          BY <2>2, <5>1
        <5>3. want[a] = calls[i].data[a - at(i) + 1]
          BY <1>5, <5>1, <5>2
        <5> QED
          BY <5>2, <5>3 DEF at
      <4> QED
        BY <4>1, <4>2
    <3> QED
      BY <1>3, <3>1 DEF Asked
  <2> QED
    BY <2>6, <2>7, <2>8
<1> QED
  BY <1>1, <1>12, <1>13

\* The last page of a part: all of the part is in the flash, and so is what the sector
\* held before it was erased.
LEMMA LastPageInv ==
    ASSUME SpiInv, WritePage, Cut(prog, PageSize) = Len(prog.data)
    PROVE  SpiInv'
<1>1. /\ pc = "prog" /\ Advance /\ UNCHANGED <<stream, want, before>>
  BY DEF WritePage
<1>2. /\ pc' \in {"idle", "read"} /\ damaged' = damaged \ Named(Part)
      /\ garbled' = (IF mixed /\ ~ erased THEN garbled ELSE garbled \ Named(Part))
      /\ ~ mixed'
  BY <1>1 DEF Advance
<1>3. /\ SpiShape /\ SpiShape' /\ SpiTypeOK /\ CallsFit /\ Asked /\ CallsApart /\ Elsewhere
      /\ MixedIsGarbled /\ Programming
  BY PageShape DEF SpiInv, SpiShape
<1>4. /\ \A a : a \in Pending' <=> a \in Pending /\ a \notin Named(Part)
      /\ CallsApart' /\ Asked'
  BY <1>1, <1>3, AdvancePending
<1>5. MixedIsGarbled' /\ SectorCopied' /\ Programming' /\ Rewritten' = {}
  BY <1>1, <1>2 DEF MixedIsGarbled, SectorCopied, Programming, Rewritten
<1>6. \A a \in Rewritten : (~ mixed \/ erased => flash'[a] = Target(a)) /\ RightTarget(a)
  <2>1. ASSUME NEW a \in Rewritten, ~ mixed \/ erased
        PROVE  flash'[a] = Target(a)
    <3>1. IF a < prog.at + Len(prog.data) THEN flash'[a] = Target(a)
          ELSE a < prog.at + Len(prog.data)
      BY <1>3, <2>1, PageBytes
    <3> QED
      BY <3>1
  <2> QED
    BY <1>1, <1>3, <2>1 DEF Programming
<1>7. \A a \in Addr : a \notin Rewritten => flash'[a] = flash[a]
  BY <1>3, PageBytes
<1>8. Named(Part) \subseteq Rewritten
  BY <1>1, <1>3, PartBytes DEF Rewritten
<1>10. mixed /\ ~ erased => Named(Part) \subseteq garbled /\ Rewritten = Named(Part)
  BY <1>1, <1>3 DEF MixedIsGarbled, Suspect, Rewritten
<1>9. Elsewhere'
  <2>1. SUFFICES ASSUME NEW a \in Addr, a \notin Harmed'
                 PROVE  flash'[a] = Due(a)'
    BY DEF Elsewhere
  <2>5. /\ a \notin Harmed \/ a \in Named(Part)
        /\ mixed /\ ~ erased => a \notin Rewritten /\ a \notin Named(Part)
    BY <1>2, <1>10, <2>1 DEF Harmed
  <2>2. Due(a)' = IF a \in Pending /\ a \notin Named(Part) THEN before[a] ELSE want[a]
    BY <1>1, <1>4 DEF Due
  <2>3. CASE a \in Named(Part)
    <3>1. flash'[a] = want[a]
      BY <1>6, <1>8, <2>3, <2>5 DEF RightTarget
    <3> QED
      BY <2>2, <2>3, <3>1
  <2>4. CASE a \notin Named(Part)
    <3>1. Due(a)' = Due(a) /\ a \notin Harmed
      BY <2>2, <2>4, <2>5 DEF Due
    <3>2. CASE a \in Rewritten
      BY <1>6, <2>4, <2>5, <3>1, <3>2 DEF RightTarget
    <3>3. CASE a \notin Rewritten
      BY <1>3, <1>7, <3>1, <3>3 DEF Elsewhere
    <3> QED
      BY <3>2, <3>3
  <2> QED
    BY <2>3, <2>4
<1> QED
  BY <1>3, <1>4, <1>5, <1>9 DEF SpiInv

\* A power cut: nothing is changed but bytes of the sector under way, and those may be
\* damaged; all others hold what is due.
LEMMA CutInv ==
    ASSUME SpiInv, PowerCut
    PROVE  SpiInv'
<1>1. /\ calls' = << >> /\ pc' = "idle"
      /\ want' = [a \in Addr |-> IF a \in Pending THEN before[a] ELSE want[a]]
      /\ garbled' = garbled /\ ~ mixed'
  BY DEF PowerCut, Off
<1>2. /\ SpiShape /\ SpiShape' /\ SpiTypeOK /\ CallsFit /\ Elsewhere /\ Programming
  BY CutShape DEF SpiInv, SpiShape
<1>3. Pending' = {} /\ Rewritten' = {}
  BY <1>1 DEF Pending, Rewritten
<1>4. MixedIsGarbled' /\ CallsApart' /\ Asked' /\ SectorCopied' /\ Programming'
  BY <1>1 DEF MixedIsGarbled, CallsApart, Asked, SectorCopied, Programming
<1>5. \A a \in Addr : Due(a)' = Due(a)
  BY <1>1, <1>3 DEF Due
<1>6. ASSUME NEW a \in Addr, a \notin damaged'
      PROVE  a \notin damaged /\ a \notin Rewritten /\ flash'[a] = flash[a]
  <2>1. CASE pc = "read"
    BY <1>6, <2>1 DEF PowerCut, Rewritten
  <2>2. CASE pc = "erase"
    <3>1. PICK as \in SUBSET Sector :
             flash' = [b \in Addr |-> IF b \in as THEN Blank ELSE flash[b]]
      BY <2>2 DEF PowerCut
    <3>2. damaged' = damaged \cup Sector
      BY <2>2 DEF PowerCut
    <3> QED
      BY <1>6, <2>2, <3>1, <3>2 DEF Rewritten
  <2>3. CASE pc = "prog"
    <3> DEFINE p == First(prog, Cut(prog, PageSize))
               new == Programmed(flash, p)
    <3>1. PICK as \in SUBSET Named(p) :
             flash' = [b \in Addr |-> IF b \in as THEN new[b] ELSE flash[b]]
      BY <2>3 DEF PowerCut
    <3>2. damaged' = damaged \cup Rewritten
      BY <2>3 DEF PowerCut, Rewritten
    <3>3. /\ p \in Chunk /\ p.at = prog.at /\ Len(p.data) <= Len(prog.data)
          /\ Len(p.data) \in Nat /\ Len(prog.data) \in Nat /\ prog.at \in Nat
          /\ prog \in Chunk
      BY <1>2, <2>3, PageIs
    <3>4. Named(prog) \subseteq Rewritten
      BY <1>2, <2>3 DEF Programming
    <3> HIDE DEF p, new
    <3>5. Named(p) \subseteq Named(prog)
      <4>1. SUFFICES ASSUME NEW b \in Named(p)
                     PROVE  b \in Named(prog)
        OBVIOUS
      <4>2. b \in Nat /\ prog.at <= b /\ b < prog.at + Len(p.data)
        BY <3>3, NamedBytes
      <4>3. b < prog.at + Len(prog.data)
        BY <3>3, <4>2
      <4> QED
        BY <3>3, <4>2, <4>3, NamedBytes
    <3> QED
      BY <1>6, <3>1, <3>2, <3>4, <3>5
  <2> QED
    BY <2>1, <2>2, <2>3 DEF PowerCut
<1>7. Elsewhere'
  <2>1. ASSUME NEW a \in Addr, a \notin Harmed'
        PROVE  flash'[a] = Due(a)'
    <3>1. flash[a] = Due(a) /\ flash'[a] = flash[a]
      BY <1>1, <1>2, <1>6, <2>1 DEF Elsewhere, Harmed
    <3> QED
      BY <1>5, <3>1
  <2> QED
    BY <1>3, <2>1 DEF Elsewhere
<1> QED
  BY <1>2, <1>4, <1>7 DEF SpiInv

LEMMA GlyphInv ==
    ASSUME SpiInv, GlyphBegin \/ GlyphByte \/ GlyphEnd \/ UNCHANGED vars
    PROVE  SpiInv'
<1>1. SpiShape'
  <2>1. [Next]_vars
    BY DEF Next
  <2> QED
    BY <2>1, SpiShapeStep DEF SpiInv
<1>2. /\ UNCHANGED <<flash, calls, pc, buf, prog, erased, want, before, damaged, mixed, garbled>>
  BY DEF GlyphBegin, GlyphByte, GlyphEnd, vars, wvars, gvars
<1>3. /\ Part' = Part /\ Sector' = Sector /\ Pending' = Pending
      /\ CallsApart' /\ Asked'
  BY <1>2, SameCalls, SameDue DEF SpiInv
<1>4. Rewritten' = Rewritten /\ MixedIsGarbled' /\ SectorCopied' /\ Harmed' = Harmed
  BY <1>2, <1>3 DEF Rewritten, MixedIsGarbled, Suspect, Harmed, SectorCopied, SpiInv
<1>5. Elsewhere'
  BY <1>2, <1>3, <1>4 DEF SpiInv, Elsewhere, Due
<1>6. \A a : (HalfWay(a)' <=> HalfWay(a)) /\ (RightTarget(a)' <=> RightTarget(a))
  BY <1>2, <1>3, <1>4 DEF HalfWay, RightTarget, Target, Due
<1>7. Programming'
  BY <1>2, <1>4, <1>6 DEF Programming, SpiInv
<1> QED
  BY <1>1, <1>3, <1>4, <1>5, <1>7 DEF SpiInv

LEMMA SpiInvStep == SpiInv /\ [Next]_vars => SpiInv'
<1> SUFFICES ASSUME SpiInv, [Next]_vars
             PROVE  SpiInv'
  OBVIOUS
<1>1. CASE WritePage
  BY <1>1, PageInv, LastPageInv
<1> QED
  BY <1>1, BeginInv, ReadInv, EraseInv, CutInv, GlyphInv DEF Next

LEMMA SpiInvStart == Init => SpiInv
<1> SUFFICES ASSUME Init
             PROVE  SpiInv
  OBVIOUS
<1>1. MixedIsGarbled /\ CallsApart /\ Asked /\ SectorCopied /\ Programming
  BY DEF Init, MixedIsGarbled, CallsApart, Asked, SectorCopied, Programming
<1>2. Elsewhere
  BY DEF Init, Elsewhere, Due, Pending
<1> QED
  BY <1>1, <1>2, SpiShapeStart DEF SpiInv

LEMMA SpiInvAlways == Spec => []SpiInv
BY SpiInvStart, SpiInvStep, PTL DEF Spec

\* w25qxx.c:236-286, diskio.c:152-157: when no write is under way every byte holds what
\* was written to it last, and the bytes that share a sector with it what they held,
\* although sectors are erased as a whole; after a power cut so do all bytes but those of
\* the sector, or of the part of a blank sector, that was under way, and after a write
\* that began in the middle of the reading of a glyph (text.c:46) all but those of its
\* first sector. For every chip, every data, any number of writes, glyphs and cuts.
THEOREM SpiWritten == Spec => []Written
<1>1. SpiInv => Written
  BY DEF SpiInv, SpiShape, CallsFit, Elsewhere, Written, Harmed, Due, Rewritten, Pending
<1> QED
  BY <1>1, SpiInvAlways, PTL

\* w25qxx.c:262-277: in the middle of a write no byte that is not being written is lost:
\* it is in the flash, or in W25QXX_BUF while its sector is erased.
THEOREM SpiNothingLost == Spec => []NothingLost
<1>1. SpiInv => NothingLost
  <2>1. SUFFICES ASSUME SpiInv, NEW a \in Addr, a \notin Harmed, a \notin Pending
                 PROVE  \/ flash[a] = want[a]
                        \/ pc = "prog" /\ erased /\ a \in Sector
                           /\ buf[a % SectorSize] = want[a]
    BY DEF NothingLost, Harmed
  <2>2. Due(a) = want[a]
    BY <2>1 DEF Due
  <2>3. CASE a \notin Rewritten
    BY <2>1, <2>2, <2>3 DEF SpiInv, Elsewhere
  <2>4. CASE a \in Rewritten
    <3>1. pc = "prog" /\ a \notin Named(Part)
      BY <2>1, <2>4, PartBytes DEF Rewritten, SpiInv, SpiShape
    <3>2. erased /\ a \in Sector
      BY <2>4, <3>1 DEF Rewritten
    <3>3. Target(a) = Due(a)
      BY <2>1, <2>4, <3>1 DEF SpiInv, Programming, RightTarget
    <3> QED
      BY <2>2, <3>1, <3>2, <3>3 DEF Target
  <2> QED
    BY <2>3, <2>4
<1> QED
  BY <1>1, SpiInvAlways, PTL
=============================================================================
