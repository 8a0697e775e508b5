------------------------- MODULE Int13GeometryProofs -------------------------
(***************************************************************************)
(* For every disk and whatever stands in the place of its table: a         *)
(* cylinder, head and sector that INT 13,02 accepts is a block of the      *)
(* disk, unless heads times sectors wraps around, which no table of the    *)
(* tools leads to; the guess finds the geometry of a tool that cut the     *)
(* disk at cylinders, so partitions are read where the table says; INT     *)
(* 13,08 reports the last address that INT 13,02 accepts; INT 13,48        *)
(* vouches only for a geometry that reaches all of such partitions.        *)
(***************************************************************************)
EXTENDS Int13Geometry, TLAPS

\* Multiplication by a natural number keeps the order.
LEMMA TimesMonotone ==
  \A a, b, k \in Nat : a <= b => a * k <= b * k
  BY Z3

\* Division rounds down.
LEMMA DivTimes ==
  \A n \in Nat, k \in Nat \ {0} : n \div k \in Nat /\ (n \div k) * k <= n
  BY Z3

\* Products of natural numbers.
LEMMA TimesNat ==
  \A a, b \in Nat : a * b \in Nat
  BY Z3

LEMMA TimesPositive ==
  \A a, b \in Nat \ {0} : a * b \in Nat \ {0}
  BY Z3

\* Quotient and remainder of natural numbers.
LEMMA DivMod ==
  \A a \in Nat, b \in Nat \ {0} : a \div b \in Nat /\ a % b \in 0 .. b - 1
  BY Z3

\* A number that fits into a word is its own remainder.
LEMMA ModSmall ==
  \A a \in Nat, b \in Nat \ {0} : a < b => a % b = a
  BY Z3

\* Words.
LEMMA WordType ==
  /\ Word \in Nat \ {0} /\ Word > 16384
  /\ Capacity32 \in Nat /\ \A n \in Nat : n <= Capacity32 <=> n < Word
  BY GeometryAssumption DEF Capacity32

\* Whole cylinders of k blocks, capped at m, lie within cap blocks.
LEMMA CappedQuotient ==
  ASSUME NEW cap \in Nat, NEW k \in Nat \ {0}, NEW m \in Nat, NEW c,
         c = IF cap \div k > m THEN m ELSE cap \div k
  PROVE  c \in 0 .. m /\ c * k \in Nat /\ c * k <= cap
<1> DEFINE n == cap \div k
<1>1. n \in Nat /\ n * k <= cap
  BY DivTimes
<1>2. c = IF n > m THEN m ELSE n
  OBVIOUS
<1> HIDE DEF n
<1>3. c \in 0 .. m /\ c \in Nat /\ c <= n
  BY <1>1, <1>2
<1>4. c * k \in Nat /\ n * k \in Nat
  BY <1>1, <1>3, TimesNat
<1>5. c * k <= n * k
  BY <1>1, <1>3, TimesMonotone
<1> DEFINE x == c * k
           y == n * k
<1>6. x \in Nat /\ y \in Nat /\ x <= y /\ y <= cap
  BY <1>1, <1>4, <1>5
<1> HIDE DEF x, y
<1>7. x <= cap
  BY <1>6
<1> QED
  BY <1>3, <1>4, <1>7 DEF x

\* What struct int13_data can hold as a geometry.
LEMMA GeometriesType ==
  /\ \A q \in Geometries : /\ q.cylinders \in Nat /\ q.heads \in Nat
                           /\ q.sectors_per_track \in Nat
  /\ \A c \in 0 .. MaxCylinders, h \in Nat, s \in Nat :
        [cylinders |-> c, heads |-> h, sectors_per_track |-> s] \in Geometries
  /\ MaxCylinders \in Nat /\ 0 \in 0 .. MaxCylinders
<1>1. MaxCylinders \in Nat
  BY DEF MaxCylinders
<1> QED
  BY <1>1 DEF Geometries

\* A place in a box of c by h by s is numbered below c * h * s.
LEMMA BoxBound ==
  ASSUME NEW C \in Nat, NEW H \in Nat, NEW S \in Nat,
         NEW c \in Nat, NEW h \in Nat, NEW s \in Nat,
         c < C, h < H, 1 <= s, s <= S
  PROVE  /\ (((c * H) + h) * S) + s - 1 \in Nat
         /\ (((c * H) + h) * S) + s - 1 < C * (H * S)
<1>1. c * H \in Nat /\ C * H \in Nat /\ H * S \in Nat
  BY Z3
<1>2. (c + 1) * H <= C * H
  BY TimesMonotone
<1>3. (c + 1) * H = (c * H) + H
  BY Z3
<1>4. (c * H) + h + 1 <= C * H
  BY <1>1, <1>2, <1>3
<1>5. ((c * H) + h + 1) * S <= (C * H) * S
  BY <1>1, <1>4, TimesMonotone
<1>6. ((c * H) + h + 1) * S = (((c * H) + h) * S) + S
  <2> DEFINE x == (c * H) + h
  <2>1. x \in Nat
    BY <1>1
  <2>2. (x + 1) * S = (x * S) + S
    <3> HIDE DEF x
    <3> QED BY <2>1, Z3
  <2> QED
    BY <2>2
<1>7. (C * H) * S = C * (H * S)
  BY Z3
<1>8. ((c * H) + h) * S \in Nat
  BY <1>1, Z3
<1> QED
  BY <1>5, <1>6, <1>7, <1>8

\* What int13_guess_geometry leaves behind: nothing, whole cylinders of the disk
\* that can be counted in a word, or a product that wrapped around.
Guessed ==
    \/ int13.cylinders = 0
    \/ ~ProductFits
    \/ /\ int13.heads * int13.sectors_per_track \in Nat
       /\ int13.cylinders * (int13.heads * int13.sectors_per_track) <= int13_capacity32

\* The capacity that is counted with fits into a word and is on the disk.
LEMMA CapacityType ==
  ASSUME disk \in Disks
  PROVE  /\ int13_capacity32 \in Nat /\ int13_capacity32 <= disk.blocks
         /\ int13_capacity32 < Word /\ disk.blocks \in Nat
<1>1. disk.blocks \in Nat
  BY GeometryAssumption DEF TypeOfDisk
<1> QED
  BY <1>1, WordType DEF int13_capacity32

ChsType == [head : 0 .. 255, cyl_sector : Nat, cyl : Nat]

\* An address has its type.
LEMMA ChsBytesType ==
  ASSUME NEW c \in Nat, NEW h \in 0 .. 255, NEW s \in Nat
  PROVE  ChsBytes(c, h, s) \in ChsType
<1>1. c \div 256 \in Nat /\ c % 256 \in Nat
  BY SMT
<1>2. ((c \div 256) * 64) + s \in Nat
  BY <1>1, SMT
<1> QED
  BY <1>1, <1>2 DEF ChsBytes, ChsType

\* So has what a tool writes.
LEMMA ToolChsType ==
  ASSUME NEW d, TypeOfDisk(d), NEW n \in Nat
  PROVE  ToolChs(d, n) \in ChsType
<1>1. d.heads \in Nat \ {0} /\ d.sectors \in Nat \ {0} /\ d.heads - 1 \in 0 .. 255
  BY DEF TypeOfDisk
<1>2. d.heads * d.sectors \in Nat \ {0}
  BY <1>1, TimesPositive
<1>3. n \div d.sectors \in Nat /\ n % d.sectors \in 0 .. d.sectors - 1
  BY <1>1, DivMod
<1>4. ToolCylinder(d, n) \in Nat
  <2> DEFINE k == d.heads * d.sectors
  <2>1. k \in Nat \ {0}
    BY <1>2
  <2> HIDE DEF k
  <2>2. n \div k \in Nat
    BY <2>1, DivMod
  <2> QED
    BY <2>2 DEF ToolCylinder, k
<1>5. (n \div d.sectors) % d.heads \in 0 .. 255 /\ (n % d.sectors) + 1 \in Nat
  <2> DEFINE q == n \div d.sectors
             m == n % d.sectors
             h == d.heads
  <2>1. q \in Nat /\ m \in Nat /\ h \in 1 .. 255 /\ h \in Nat \ {0}
    BY <1>1, <1>3 DEF TypeOfDisk
  <2> HIDE DEF q, m, h
  <2>2. q % h \in 0 .. h - 1
    BY <2>1, DivMod
  <2> DEFINE x == q % h
  <2>3. x \in 0 .. h - 1
    BY <2>2
  <2> HIDE DEF x
  <2>4. x \in 0 .. 255 /\ m + 1 \in Nat
    BY <2>1, <2>3
  <2> QED
    BY <2>4 DEF x, q, m, h
<1>6. 1023 \in Nat
  OBVIOUS
<1>7. CASE ToolCylinder(d, n) > 1023
  <2>1. ChsBytes(1023, d.heads - 1, d.sectors) \in ChsType
    BY <1>1 DEF ChsBytes, ChsType
  <2> QED
    BY <1>7, <2>1 DEF ToolChs
<1>8. CASE ~(ToolCylinder(d, n) > 1023)
  <2>1. ChsBytes(ToolCylinder(d, n), (n \div d.sectors) % d.heads, (n % d.sectors) + 1)
          \in ChsType
    BY <1>4, <1>5, ChsBytesType
  <2> QED
    BY <1>8, <2>1 DEF ToolChs
<1> QED
  BY <1>7, <1>8

\* And every entry of the table.
LEMMA EntryType ==
  ASSUME NEW d, TypeOfDisk(d), NEW e \in Entries(d)
  PROVE  e.start \in Nat /\ e.chs_start \in ChsType /\ e.chs_end \in ChsType
<1>1. CASE e = Unused
  <2>1. ChsBytes(0, 0, 0) \in ChsType
    BY ChsBytesType
  <2> QED BY <1>1, <2>1 DEF Unused
<1>2. CASE e = Protective
  <2>1. ChsBytes(0, 0, 2) \in ChsType /\ ChsBytes(1023, 255, 63) \in ChsType
    BY ChsBytesType
  <2> QED BY <1>2, <2>1 DEF Protective
<1>4. CASE e \in d.others
  <2>1. e \in AnyEntry
    BY <1>4 DEF TypeOfDisk
  <2>2. AnyChs \subseteq ChsType
    BY DEF AnyChs, ChsType
  <2>3. e.start \in 0 .. Capacity32 /\ e.chs_start \in AnyChs /\ e.chs_end \in AnyChs
    BY <2>1 DEF AnyEntry
  <2> QED
    BY <2>2, <2>3
<1>3. ASSUME NEW p \in d.cuts \X d.cuts, p[1] < p[2], e = ToolEntry(d, p[1], p[2])
      PROVE  e.start \in Nat /\ e.chs_start \in ChsType /\ e.chs_end \in ChsType
  <2>1. p[1] \in Nat /\ p[2] - 1 \in Nat
    BY <1>3 DEF TypeOfDisk
  <2>2. ToolChs(d, p[1]) \in ChsType /\ ToolChs(d, p[2] - 1) \in ChsType
    BY <2>1, ToolChsType
  <2> QED
    BY <1>3, <2>1, <2>2 DEF ToolEntry
<1> QED
  BY <1>1, <1>2, <1>3, <1>4 DEF Entries

TableType ==
    \A n \in 1 .. 4 : /\ table[n].start \in Nat
                      /\ table[n].chs_start \in ChsType
                      /\ table[n].chs_end \in ChsType

\* The inductive invariant: the types, the table, the geometry, and what an
\* accepted address leads to.
GInv == TypeOK /\ TableType /\ Guessed /\ AcceptedOnDisk

\* It holds when int13_hook starts to guess: nothing has been accepted yet.
LEMMA InitGInv == Init => GInv
<1> SUFFICES ASSUME Init PROVE GInv
  OBVIOUS
<1>1. TypeOK
  <2>1. pc \in {"scan", "caller", "addressed", "parameters", "extended", "undefined"}
    BY DEF Init
  <2>2. int13 \in Geometries
    BY GeometriesType DEF Init
  <2>3. regs \in Registers
    BY DEF Init, NoRegs, Registers
  <2>4. disk \in Disks /\ flags \in BOOLEAN
    BY DEF Init
  <2>5. i \in 1 .. 5 /\ heads \in Nat /\ sectors \in Nat /\ lba \in Nat \cup {Refused}
    BY DEF Init
  <2> QED
    BY <2>1, <2>2, <2>3, <2>4, <2>5 DEF TypeOK
<1>2. TableType
  <2> SUFFICES ASSUME NEW n \in 1 .. 4
               PROVE  table[n].start \in Nat /\ table[n].chs_start \in ChsType
                      /\ table[n].chs_end \in ChsType
    BY DEF TableType
  <2>1. disk \in Disks /\ TypeOfDisk(disk)
    BY GeometryAssumption DEF Init
  <2>2. table[n] \in Entries(disk)
    BY DEF Init, Entries
  <2> QED
    BY <2>1, <2>2, EntryType
<1> QED
  BY <1>1, <1>2 DEF Init, GInv, Guessed, AcceptedOnDisk

\* One turn of the scan keeps the guesses natural numbers.
LEMMA ScanType ==
  ASSUME GInv, int13_guess_geometry_hdd
  PROVE  heads' \in Nat /\ sectors' \in Nat
<1>1. i \in 1 .. 4 /\ ScanEntry /\ heads \in Nat /\ sectors \in Nat
  BY DEF GInv, TypeOK, int13_guess_geometry_hdd
<1> DEFINE p == table[i]
<1>2. /\ p.start \in Nat
      /\ PART_HEAD(p.chs_start) \in Nat /\ PART_SECTOR(p.chs_start) \in Nat
      /\ PART_HEAD(p.chs_end) \in Nat /\ PART_SECTOR(p.chs_end) \in Nat
  <2>1. p.start \in Nat /\ p.chs_start \in ChsType /\ p.chs_end \in ChsType
    BY <1>1 DEF GInv, TableType
  <2>2. \A c \in ChsType : PART_HEAD(c) \in Nat /\ PART_SECTOR(c) \in Nat
    BY DEF ChsType, PART_HEAD, PART_SECTOR
  <2> HIDE DEF p
  <2> QED
    BY <2>1, <2>2
<1>3. \A a \in Int, b \in Nat \ {0} : (a % Word) \div b \in Nat
  <2>1. \A a \in Int, w \in Nat \ {0} : a % w \in Nat
    BY Z3
  <2> QED BY <2>1, WordType, DivMod
<1>4. SectorsFromStart(p, sectors) \in Nat
  BY <1>1, <1>2, <1>3 DEF SectorsFromStart
<1>5. \A a \in Nat, b \in Nat : Larger(a, b) \in Nat
  BY DEF Larger
<1> HIDE DEF p
<1>6. CASE p.type = "none"
  BY <1>1, <1>6 DEF ScanEntry, p
<1>7. CASE p.type # "none"
  <2>1. /\ heads' = Larger(PART_HEAD(p.chs_end) + 1, heads)
        /\ sectors' = Larger(PART_SECTOR(p.chs_end), SectorsFromStart(p, sectors))
    BY <1>1, <1>7 DEF ScanEntry, p
  <2> QED
    BY <1>1, <1>2, <1>4, <1>5, <2>1
<1> QED
  BY <1>6, <1>7

\* A recognised floppy geometry, or the default one.
LEMMA FddGuess ==
  /\ int13_guess_geometry_fdd.heads \in 1 .. 256
  /\ int13_guess_geometry_fdd.sectors \in 1 .. 63
<1> DEFINE match == {q \in int13_fdd_geometries : q[1] * q[2] * q[3] = disk.blocks % Word}
<1>1. CASE match = {}
  BY <1>1 DEF int13_guess_geometry_fdd
<1>2. CASE match # {}
  <2> DEFINE q == CHOOSE q \in match : TRUE
  <2>1. q \in int13_fdd_geometries
    BY <1>2
  <2>2. q[2] \in 1 .. 256 /\ q[3] \in 1 .. 63
    <3> HIDE DEF q
    <3> QED BY <2>1 DEF int13_fdd_geometries
  <2>3. int13_guess_geometry_fdd = [heads |-> q[2], sectors |-> q[3]]
    BY <1>2 DEF int13_guess_geometry_fdd
  <2> HIDE DEF q
  <2> QED
    BY <2>2, <2>3
<1> QED
  BY <1>1, <1>2

\* A guess has a head and a sector.
LEMMA GuessType ==
  ASSUME GInv
  PROVE  GuessedGeometry.heads \in Nat \ {0} /\ GuessedGeometry.sectors \in Nat \ {0}
<1>1. GuessedHdd.heads \in Nat \ {0} /\ GuessedHdd.sectors \in Nat \ {0}
  BY DEF GInv, TypeOK, GuessedHdd
<1>2. /\ int13_guess_geometry_fdd.heads \in Nat \ {0}
      /\ int13_guess_geometry_fdd.sectors \in Nat \ {0}
  BY FddGuess
<1> QED
  BY <1>1, <1>2 DEF GuessedGeometry

\* The end of int13_guess_geometry leaves whole cylinders of the disk, unless the
\* product wraps around.
LEMMA GuessGuessed ==
  ASSUME GInv, int13_guess_geometry
  PROVE  Guessed' /\ int13' \in Geometries
<1> DEFINE g == GuessedGeometry
           k == BlocksPerCyl(g)
<1>1. g.heads \in Nat \ {0} /\ g.sectors \in Nat \ {0}
  BY GuessType
<1>2. int13' = [cylinders |-> Cylinders(k), heads |-> g.heads,
                sectors_per_track |-> g.sectors] /\ disk' = disk /\ k # 0
  BY DEF int13_guess_geometry
<1>3. k = (g.heads * g.sectors) % Word
  BY DEF BlocksPerCyl
<1> HIDE DEF g, k
<1>4. g.heads * g.sectors \in Nat
  BY <1>1, TimesPositive
<1>5. k \in Nat \ {0} /\ (g.heads * g.sectors < Word => k = g.heads * g.sectors)
  <2> DEFINE x == g.heads * g.sectors
  <2>1. x \in Nat /\ k = x % Word
    BY <1>3, <1>4
  <2> HIDE DEF x
  <2>2. k \in Nat /\ (x < Word => k = x)
    BY <2>1, WordType, DivMod, ModSmall
  <2> QED
    BY <1>2, <2>2 DEF x
<1>6. int13_capacity32 \in Nat
  BY CapacityType DEF GInv, TypeOK
<1>7. /\ int13'.cylinders = Cylinders(k) /\ int13'.heads = g.heads
      /\ int13'.sectors_per_track = g.sectors
  BY <1>2
<1>8. /\ Cylinders(k) \in 0 .. MaxCylinders
      /\ Cylinders(k) * k \in Nat /\ Cylinders(k) * k <= int13_capacity32
  <2>1. Cylinders(k) = IF int13_capacity32 \div k > MaxCylinders THEN MaxCylinders
                       ELSE int13_capacity32 \div k
    BY DEF Cylinders
  <2> QED
    BY <1>5, <1>6, <2>1, CappedQuotient, GeometriesType
<1>9. Guessed'
  <2>1. ProductFits' <=> g.heads * g.sectors < Word
    BY <1>7 DEF ProductFits
  <2>2. int13_capacity32' = int13_capacity32
    BY <1>2 DEF int13_capacity32
  <2>3. ASSUME g.heads * g.sectors < Word
        PROVE  /\ int13'.heads * int13'.sectors_per_track \in Nat
               /\ int13'.cylinders * (int13'.heads * int13'.sectors_per_track)
                     <= int13_capacity32
    <3>1. int13'.heads * int13'.sectors_per_track = k
      BY <1>5, <1>7, <2>3, Zenon
    <3>2. int13'.cylinders * (int13'.heads * int13'.sectors_per_track) = Cylinders(k) * k
      BY <1>7, <3>1, Zenon
    <3>3. k \in Nat
      BY <1>5
    <3> QED
      BY <1>8, <3>1, <3>2, <3>3, Zenon
  <2> QED
    BY <2>1, <2>2, <2>3, Zenon DEF Guessed
<1>10. int13' \in Geometries
  <2>1. g.heads \in Nat /\ g.sectors \in Nat
    BY <1>1
  <2> QED
    BY <1>2, <1>8, <2>1, GeometriesType
<1> QED
  BY <1>9, <1>10

\* A block number is a word.
LEMMA LbaType ==
  ASSUME GInv, NEW r \in Registers
  PROVE  /\ Cylinder(r) \in Nat /\ Sector(r) \in Nat /\ r.dh \in Nat
         /\ AddressedLba(r) \in Nat
<1>1. /\ int13.cylinders \in Nat /\ int13.heads \in Nat /\ int13.sectors_per_track \in Nat
  BY GeometriesType DEF GInv, TypeOK
<1>2. r.cl \in Nat /\ r.ch \in Nat /\ r.dh \in Nat
  BY DEF Registers
<1>3. r.cl \div 64 \in Nat /\ r.cl % 64 \in 0 .. 63
  <2>1. \A a \in Nat : a \div 64 \in Nat /\ a % 64 \in 0 .. 63
    BY Z3
  <2> QED
    BY <1>2, <2>1
<1>4. Cylinder(r) \in Nat /\ Sector(r) \in Nat
  BY <1>2, <1>3 DEF Cylinder, Sector
<1> DEFINE x == (Cylinder(r) * int13.heads) + r.dh
           y == x % Word
           z == (y * int13.sectors_per_track) + Sector(r) - 1
<1>5. x \in Nat
  <2>1. Cylinder(r) * int13.heads \in Nat
    BY <1>1, <1>4, TimesNat
  <2> QED BY <1>2, <2>1
<1>6. AddressedLba(r) = z % Word
  BY DEF AddressedLba
<1> HIDE DEF x
<1>7. y \in Nat
  BY <1>5, WordType, DivMod
<1> HIDE DEF y
<1>8. z \in Int
  <2>1. y * int13.sectors_per_track \in Nat
    BY <1>1, <1>7, TimesNat
  <2> QED BY <1>4, <2>1
<1> HIDE DEF z
<1>9. \A a \in Int, w \in Nat \ {0} : a % w \in Nat
  BY Z3
<1> QED
  BY <1>2, <1>4, <1>6, <1>8, <1>9, WordType

\* A number below a word survives two reductions.
LEMMA NestedMod ==
  ASSUME NEW x \in Nat, NEW S \in Nat, NEW s \in Nat, 1 <= s, s <= S,
         (x * S) + s - 1 < Word
  PROVE  (((x % Word) * S) + s - 1) % Word = (x * S) + s - 1
<1>1. x * S \in Nat /\ x * 1 <= x * S
  <2>1. x * S \in Nat
    BY TimesNat
  <2>2. 1 * x <= S * x
    BY TimesMonotone
  <2>3. 1 * x = x * 1 /\ S * x = x * S
    BY Z3
  <2> QED BY <2>1, <2>2, <2>3
<1>2. x * 1 = x
  BY Z3
<1> DEFINE y == x * S
<1>3. y \in Nat /\ x <= y /\ y + s - 1 < Word
  BY <1>1, <1>2
<1>4. x % Word = x
  <2> HIDE DEF y
  <2>1. x < Word
    BY <1>3, WordType
  <2> QED BY <2>1, WordType, ModSmall
<1>5. (y + s - 1) % Word = y + s - 1
  <2> HIDE DEF y
  <2> DEFINE z == y + s - 1
  <2>1. z \in Nat /\ z < Word
    BY <1>3
  <2> HIDE DEF z
  <2>2. z % Word = z
    BY <2>1, WordType, ModSmall
  <2> QED BY <2>2 DEF z
<1> QED
  BY <1>4, <1>5

\* An accepted address is a block of the disk, and the number it has there.
LEMMA AddressOnDisk ==
  ASSUME GInv, ProductFits, NEW r \in Registers, ~AddressRefused(r)
  PROVE  /\ AddressedLba(r) = (((Cylinder(r) * int13.heads) + r.dh)
                                * int13.sectors_per_track) + Sector(r) - 1
         /\ AddressedLba(r) < disk.blocks
<1> DEFINE C == int13.cylinders
           H == int13.heads
           S == int13.sectors_per_track
           c == Cylinder(r)
           h == r.dh
           s == Sector(r)
<1>1. C \in Nat /\ H \in Nat /\ S \in Nat
  BY GeometriesType DEF GInv, TypeOK
<1>2. c \in Nat /\ h \in Nat /\ s \in Nat
  BY LbaType
<1>3. c < C /\ h < H /\ 1 <= s /\ s <= S
  BY <1>1, <1>2 DEF AddressRefused
<1>4. H * S \in Nat /\ C * (H * S) <= int13_capacity32
  <2>1. int13.cylinders # 0
    BY <1>1, <1>2, <1>3
  <2>2. Guessed
    BY DEF GInv
  <2> QED
    BY <2>1, <2>2, Zenon DEF Guessed
<1>5. AddressedLba(r) = (((((c * H) + h) % Word) * S) + s - 1) % Word
  BY DEF AddressedLba
<1>6. /\ int13_capacity32 \in Nat /\ int13_capacity32 <= disk.blocks
      /\ int13_capacity32 < Word /\ disk.blocks \in Nat
  BY CapacityType DEF GInv, TypeOK
<1> HIDE DEF C, H, S, c, h, s
<1>7. /\ (((c * H) + h) * S) + s - 1 \in Nat
      /\ (((c * H) + h) * S) + s - 1 < C * (H * S)
  BY <1>1, <1>2, <1>3, BoxBound
<1> DEFINE x == C * (H * S)
           y == (((c * H) + h) * S) + s - 1
<1>8. x \in Nat /\ y \in Nat /\ y < x /\ x <= int13_capacity32
  BY <1>1, <1>4, <1>7, TimesNat
<1>9. y < Word /\ y < disk.blocks
  <2> HIDE DEF x, y
  <2> QED BY <1>6, <1>8, WordType
<1>10. (((((c * H) + h) % Word) * S) + s - 1) % Word = y
  <2> DEFINE v == (c * H) + h
  <2>1. v \in Nat
    <3>1. c * H \in Nat
      BY <1>1, <1>2, TimesNat
    <3> QED BY <1>2, <3>1
  <2>2. (v * S) + s - 1 < Word
    BY <1>9
  <2> HIDE DEF v
  <2>3. (((v % Word) * S) + s - 1) % Word = (v * S) + s - 1
    BY <1>1, <1>2, <1>3, <2>1, <2>2, NestedMod
  <2> QED BY <2>3 DEF v
<1>11. AddressedLba(r) = y
  BY <1>5, <1>10
<1> QED
  BY <1>9, <1>11 DEF C, H, S, c, h, s

Byte == 0 .. 255
SectorField == 0 .. 63

\* Three bytes make up the registers.
LEMMA RegistersType ==
  \A a, b, c \in Byte : [ch |-> a, cl |-> b, dh |-> c] \in Registers
  BY DEF Registers, Byte

\* Packing an address gives bytes, whatever the cylinder.
LEMMA PackRegsType ==
  \A c \in Nat, h \in Byte, s \in SectorField : PackRegs(c, h, s) \in Registers
<1> SUFFICES ASSUME NEW c \in Nat, NEW h \in Byte, NEW s \in SectorField
             PROVE  PackRegs(c, h, s) \in Registers
  OBVIOUS
<1>1. \A k \in Nat : k % 256 \in 0 .. 255 /\ k \div 256 \in Nat /\ k % 4 \in 0 .. 3
  BY Z3
<1>2. c % 256 \in Byte
  BY <1>1 DEF Byte
<1> DEFINE high == (c \div 256) % 4
<1>3. high \in 0 .. 3
  BY <1>1
<1> HIDE DEF high
<1>4. (high * 64) + s \in Byte
  BY <1>3 DEF Byte, SectorField
<1>5. [ch |-> c % 256, cl |-> (high * 64) + s, dh |-> h] \in Registers
  BY <1>2, <1>4, RegistersType
<1> QED
  BY <1>5 DEF PackRegs, high

\* Addresses in the registers are bytes.
LEMMA AddressesType ==
  ASSUME GInv
  PROVE  Addresses \subseteq Registers
<1> DEFINE Cs == {0, int13.cylinders - 1, int13.cylinders} \cap 0 .. 1023
           Hs == {0, int13.heads - 1, int13.heads} \cap 0 .. 255
           Ss == {0, 1, int13.sectors_per_track, int13.sectors_per_track + 1} \cap 0 .. 63
           Start(n) == PackRegs(PART_CYLINDER(table[n].chs_start),
                                PART_HEAD(table[n].chs_start),
                                PART_SECTOR(table[n].chs_start))
<1>1. Addresses = {PackRegs(c, h, s) : c \in Cs, h \in Hs, s \in Ss}
                  \cup {Start(n) : n \in 1 .. 4}
  BY DEF Addresses
<1>2. Cs \subseteq Nat /\ Hs \subseteq Byte /\ Ss \subseteq SectorField
  BY DEF Byte, SectorField
<1>3. ASSUME NEW n \in 1 .. 4
      PROVE  Start(n) \in Registers
  <2> DEFINE chs == table[n].chs_start
  <2>1. chs \in ChsType
    BY DEF GInv, TableType
  <2>2. chs.head \in Byte /\ chs.cyl_sector \in Nat /\ chs.cyl \in Nat
    BY <2>1 DEF ChsType, Byte
  <2> HIDE DEF chs
  <2>3. \A k \in Nat : k % 64 \in 0 .. 63 /\ k \div 64 \in Nat
    BY Z3
  <2>4. chs.cyl_sector % 64 \in SectorField /\ chs.cyl_sector \div 64 \in Nat
    BY <2>2, <2>3 DEF SectorField
  <2>5. chs.cyl + ((chs.cyl_sector \div 64) * 256) \in Nat
    BY <2>2, <2>4
  <2>6. /\ PART_CYLINDER(chs) \in Nat
        /\ PART_HEAD(chs) \in Byte
        /\ PART_SECTOR(chs) \in SectorField
    BY <2>2, <2>4, <2>5 DEF PART_CYLINDER, PART_HEAD, PART_SECTOR
  <2>7. PackRegs(PART_CYLINDER(chs), PART_HEAD(chs), PART_SECTOR(chs)) \in Registers
    BY <2>6, PackRegsType
  <2> QED
    BY <2>7 DEF chs
<1> HIDE DEF Cs, Hs, Ss, Start
<1>4. \A c \in Cs, h \in Hs, s \in Ss : PackRegs(c, h, s) \in Registers
  BY <1>2, PackRegsType
<1>5. {PackRegs(c, h, s) : c \in Cs, h \in Hs, s \in Ss} \subseteq Registers
  BY <1>4
<1>6. {Start(n) : n \in 1 .. 4} \subseteq Registers
  BY <1>3
<1> QED
  BY <1>1, <1>5, <1>6

\* A step that leaves disk and geometry alone and keeps the rest in its type.
LEMMA TypeKept ==
  ASSUME TypeOK, UNCHANGED <<disk, i, heads, sectors, int13>>,
         pc' \in {"caller", "addressed", "parameters", "extended", "undefined"},
         regs' \in Registers, lba' \in Nat \cup {Refused}, flags' \in BOOLEAN
  PROVE  TypeOK'
<1>1. disk' \in Disks /\ i' \in 1 .. 5 /\ heads' \in Nat /\ sectors' \in Nat
  BY DEF TypeOK
<1>2. int13' \in Geometries
  BY DEF TypeOK
<1>3. pc' \in {"scan", "caller", "addressed", "parameters", "extended", "undefined"}
  OBVIOUS
<1> QED
  BY <1>1, <1>2, <1>3 DEF TypeOK

\* So is the geometry, and the table stays.
LEMMA GuessedKept ==
  ASSUME GInv, UNCHANGED <<disk, table, int13>>
  PROVE  TableType' /\ Guessed' /\ ProductFits' = ProductFits
<1>1. ProductFits' = ProductFits /\ int13_capacity32' = int13_capacity32
  BY DEF ProductFits, int13_capacity32
<1>2. TableType'
  BY DEF GInv, TableType
<1>3. Guessed'
  BY <1>1, Zenon DEF GInv, Guessed
<1> QED
  BY <1>1, <1>2, <1>3

\* INT 13,08 answers in bytes.
LEMMA ParametersType ==
  ASSUME GInv
  PROVE  Parameters \in Registers
<1>1. int13.cylinders \in Nat /\ int13.heads \in Nat /\ int13.sectors_per_track \in Nat
  BY GeometriesType DEF GInv, TypeOK
<1> DEFINE m == (int13.cylinders - 1) % 1024
           S == int13.sectors_per_track
<1>2. \A a \in Int : a % 1024 \in 0 .. 1023 /\ a % 256 \in Byte
  BY Z3 DEF Byte
<1>3. m \in 0 .. 1023
  BY <1>1, <1>2
<1>4. Parameters = [ch |-> m % 256, cl |-> PackedCl(m, S), dh |-> (int13.heads - 1) % 256]
  BY DEF Parameters
<1> HIDE DEF m
<1>5. m % 256 \in Byte /\ (int13.heads - 1) % 256 \in Byte
  BY <1>1, <1>2, <1>3
<1>6. PackedCl(m, S) \in Byte
  <2> DEFINE o == OrBits(m \div 256, (S \div 64) % 4)
  <2>1. m \div 256 \in 0 .. 3
    BY <1>3, Z3
  <2>2. (S \div 64) % 4 \in 0 .. 3 /\ S % 64 \in 0 .. 63
    BY <1>1, Z3
  <2>3. o \in 0 .. 3
    BY <2>1, <2>2 DEF OrBits
  <2>4. PackedCl(m, S) = (o * 64) + (S % 64)
    BY DEF PackedCl
  <2> HIDE DEF o
  <2> QED
    BY <2>2, <2>3, <2>4 DEF Byte
<1> QED
  BY <1>4, <1>5, <1>6, RegistersType

\* Every step keeps the invariant.
LEMMA NextGInv == GInv /\ [Next]_vars => GInv'
<1> SUFFICES ASSUME GInv, [Next]_vars PROVE GInv'
  OBVIOUS
<1>1. CASE int13_guess_geometry_hdd
  <2>1. /\ i' = i + 1 /\ i <= 4 /\ pc = "scan"
        /\ UNCHANGED <<disk, table, pc, int13, regs, lba, flags>>
    BY <1>1 DEF int13_guess_geometry_hdd
  <2>2. TypeOK'
    BY <1>1, <2>1, ScanType DEF GInv, TypeOK
  <2> QED
    BY <2>1, <2>2, GuessedKept DEF GInv, AcceptedOnDisk
<1>2. CASE int13_guess_geometry
  <2>1. pc' = "caller" /\ UNCHANGED <<disk, table, i, heads, sectors, regs, lba, flags>>
    BY <1>2 DEF int13_guess_geometry
  <2>2. Guessed' /\ int13' \in Geometries
    BY <1>2, GuessGuessed
  <2>3. TypeOK
    BY DEF GInv
  <2>4. TypeOK'
    BY <2>1, <2>2, <2>3 DEF TypeOK
  <2> QED
    BY <2>1, <2>2, <2>4 DEF GInv, TableType, AcceptedOnDisk
<1>3. CASE int13_rw_sectors
  <2>1. PICK r \in Addresses :
               /\ regs' = r
               /\ lba' = IF ~disk.small \/ AddressRefused(r) THEN Refused ELSE AddressedLba(r)
    BY <1>3 DEF int13_rw_sectors
  <2>2. r \in Registers
    BY AddressesType
  <2>3. pc' = "addressed" /\ UNCHANGED <<disk, table, i, heads, sectors, int13, flags>>
    BY <1>3 DEF int13_rw_sectors
  <2>4. lba' = Refused \/ (lba' \in Nat /\ (ProductFits => lba' < disk.blocks))
    BY <2>1, <2>2, AddressOnDisk, LbaType
  <2>5. TypeOK'
    <3>1. TypeOK /\ flags \in BOOLEAN
      BY DEF GInv, TypeOK
    <3>2. regs' \in Registers /\ lba' \in Nat \cup {Refused}
      BY <2>1, <2>2, <2>4
    <3> QED
      BY <2>3, <3>1, <3>2, TypeKept
  <2> QED
    BY <2>3, <2>4, <2>5, GuessedKept DEF GInv, AcceptedOnDisk
<1>4. CASE int13_get_parameters
  <2>1. pc' = "parameters" /\ regs' = Parameters
        /\ UNCHANGED <<disk, table, i, heads, sectors, int13, lba, flags>>
    BY <1>4 DEF int13_get_parameters
  <2>2. TypeOK'
    <3>1. TypeOK /\ lba \in Nat \cup {Refused} /\ flags \in BOOLEAN
      BY DEF GInv, TypeOK
    <3> QED
      BY <2>1, <3>1, ParametersType, TypeKept
  <2> QED
    BY <2>1, <2>2, GuessedKept DEF GInv, AcceptedOnDisk
<1>5. CASE int13_get_extended_parameters
  <2>1. /\ pc' = "extended" /\ flags' = ChsValid
        /\ UNCHANGED <<disk, table, i, heads, sectors, int13, regs, lba>>
    BY <1>5 DEF int13_get_extended_parameters
  <2>2. ChsValid \in BOOLEAN
    BY DEF ChsValid
  <2>3. TypeOK'
    <3>1. TypeOK /\ regs \in Registers /\ lba \in Nat \cup {Refused}
      BY DEF GInv, TypeOK
    <3> QED
      BY <2>1, <2>2, <3>1, TypeKept
  <2> QED
    BY <2>1, <2>3, GuessedKept DEF GInv, AcceptedOnDisk
<1>6. CASE Return
  <2>1. /\ pc' = "caller" /\ lba' = Refused /\ flags' = FALSE
        /\ UNCHANGED <<disk, table, i, heads, sectors, int13>>
    BY <1>6 DEF Return
  <2>2. TypeOK'
    <3>1. regs' \in Registers
      BY <1>6 DEF Return, NoRegs, Registers
    <3>2. TypeOK
      BY DEF GInv
    <3> QED
      BY <2>1, <3>1, <3>2, TypeKept
  <2> QED
    BY <2>1, <2>2, GuessedKept DEF GInv, AcceptedOnDisk
<1>7. CASE UNCHANGED vars
  <2>1. UNCHANGED <<disk, table, pc, i, heads, sectors, int13, regs, lba, flags>>
    BY <1>7 DEF vars
  <2>2. TypeOK'
    BY <2>1 DEF GInv, TypeOK
  <2>3. TableType' /\ Guessed' /\ ProductFits' = ProductFits
    BY <2>1, GuessedKept
  <2>4. AcceptedOnDisk'
    BY <2>1, <2>3, Zenon DEF GInv, AcceptedOnDisk
  <2> QED
    BY <2>2, <2>3, <2>4 DEF GInv
<1>8. CASE DivideByZero
  <2>1. /\ pc' = "undefined"
        /\ UNCHANGED <<disk, table, i, heads, sectors, int13, regs, lba, flags>>
    BY <1>8 DEF DivideByZero
  <2>2. TypeOK'
    <3>1. TypeOK /\ lba \in Nat \cup {Refused} /\ flags \in BOOLEAN /\ regs \in Registers
      BY DEF GInv, TypeOK
    <3> QED
      BY <2>1, <3>1, TypeKept
  <2> QED
    BY <2>1, <2>2, GuessedKept DEF GInv, AcceptedOnDisk
<1>9. CASE Undefined
  BY <1>7, <1>9 DEF Undefined
<1> QED
  BY <1>1, <1>2, <1>3, <1>4, <1>5, <1>6, <1>7, <1>8, <1>9 DEF Next

\* Whatever disk is hooked and whatever stands in the place of its partition table, a
\* cylinder, head and sector that INT 13,02 accepts is a block of the disk, unless the
\* product of heads and sectors has wrapped around.
THEOREM AddressesStayOnDisk == Spec => []AcceptedOnDisk
<1>1. GInv => AcceptedOnDisk
  BY DEF GInv
<1> QED
  BY InitGInv, NextGInv, <1>1, PTL DEF Spec

-----------------------------------------------------------------------------
(* Cylinder, head and sector as the digits of a block number.              *)

\* Quotient and remainder make up the number.
LEMMA DivModWhole ==
  \A n \in Nat, k \in Nat \ {0} :
     /\ n \div k \in Nat /\ n % k \in 0 .. k - 1
     /\ n = ((n \div k) * k) + (n % k)
  BY Z3

\* There is only one quotient.
LEMMA QuotientUnique ==
  ASSUME NEW n \in Nat, NEW k \in Nat \ {0}, NEW q \in Nat, NEW r \in Nat,
         n = (q * k) + r, r < k
  PROVE  n \div k = q
<1> DEFINE d == n \div k
           m == n % k
<1>1. d \in Nat /\ m \in Nat /\ m < k /\ n = (d * k) + m
  BY DivModWhole
<1> HIDE DEF d, m
<1>2. CASE d < q
  <2>1. (d + 1) * k <= q * k
    BY <1>1, <1>2, TimesMonotone
  <2>2. (d + 1) * k = (d * k) + k
    BY <1>1, Z3
  <2>3. d * k \in Nat /\ q * k \in Nat
    BY <1>1, TimesNat
  <2> QED BY <1>1, <2>1, <2>2, <2>3
<1>3. CASE q < d
  <2>1. (q + 1) * k <= d * k
    BY <1>1, <1>3, TimesMonotone
  <2>2. (q + 1) * k = (q * k) + k
    BY Z3
  <2>3. d * k \in Nat /\ q * k \in Nat
    BY <1>1, TimesNat
  <2> QED BY <1>1, <2>1, <2>2, <2>3
<1>4. d = q
  BY <1>1, <1>2, <1>3
<1> QED BY <1>4 DEF d

\* The cylinder, head and sector a tool computes are the digits of the block number.
LEMMA ToolDigits ==
  ASSUME NEW n \in Nat, NEW H \in Nat \ {0}, NEW S \in Nat \ {0}
  PROVE  /\ n \div (H * S) \in Nat
         /\ (n \div S) % H \in 0 .. H - 1
         /\ n % S \in 0 .. S - 1
         /\ n = ((((n \div (H * S)) * H) + ((n \div S) % H)) * S) + (n % S)
<1> DEFINE q == n \div S
           s == n % S
           c == q \div H
           h == q % H
           k == H * S
<1>1. q \in Nat /\ s \in 0 .. S - 1 /\ n = (q * S) + s
  BY DivModWhole
<1>2. c \in Nat /\ h \in 0 .. H - 1 /\ q = (c * H) + h
  <2> HIDE DEF q
  <2> QED BY <1>1, DivModWhole
<1>3. k \in Nat \ {0}
  BY TimesPositive
<1>4. n \div k = c
  <2> HIDE DEF q, s, c, h
  <2>1. ((c * H) + h) * S = (c * (H * S)) + (h * S)
    BY <1>2, Z3
  <2>2. h * S \in Nat /\ (h + 1) * S <= H * S /\ (h + 1) * S = (h * S) + S
    <3>1. h + 1 <= H /\ h \in Nat /\ h + 1 \in Nat
      BY <1>2
    <3>2. (h + 1) * S <= H * S
      BY <3>1, TimesMonotone
    <3> QED BY <3>1, <3>2, Z3
  <2> DEFINE r == (h * S) + s
  <2>3. r \in Nat /\ r < k
    <3>1. k = H * S
      OBVIOUS
    <3> DEFINE x == h * S
    <3>2. x \in Nat /\ x + S <= k
      BY <2>2, <3>1
    <3> HIDE DEF x, k
    <3>3. x + s \in Nat /\ x + s < k
      BY <1>1, <1>3, <3>2
    <3> QED BY <3>3 DEF x
  <2>4. n = (c * k) + r
    <3> DEFINE x == h * S
               y == c * k
               z == q * S
    <3>1. x \in Nat /\ y \in Nat /\ z \in Nat /\ n = z + s
      BY <1>1, <1>2, <1>3, <2>2, TimesNat
    <3>2. z = y + x
      BY <1>2, <2>1
    <3> HIDE DEF x, y, z
    <3>3. n = y + (x + s)
      BY <1>1, <3>1, <3>2
    <3> QED BY <3>3 DEF x, y
  <2> HIDE DEF r, k
  <2> QED BY <1>2, <1>3, <2>3, <2>4, QuotientUnique
<1>5. n = (((c * H) + h) * S) + s
  BY <1>1, <1>2
<1> HIDE DEF q, s, c, h, k
<1> QED BY <1>1, <1>2, <1>4, <1>5 DEF q, s, c, h, k

\* So they are for the geometry of the disk.
LEMMA ToolDigitsOf ==
  ASSUME NEW d, TypeOfDisk(d), NEW n \in Nat
  PROVE  /\ ToolCylinder(d, n) \in Nat
         /\ (n \div d.sectors) % d.heads \in 0 .. d.heads - 1
         /\ n % d.sectors \in 0 .. d.sectors - 1
         /\ n = (((ToolCylinder(d, n) * d.heads) + ((n \div d.sectors) % d.heads))
                 * d.sectors) + (n % d.sectors)
<1> DEFINE H == d.heads
           S == d.sectors
<1>1. H \in Nat \ {0} /\ S \in Nat \ {0}
  BY DEF TypeOfDisk
<1>2. ToolCylinder(d, n) = n \div (H * S)
  BY DEF ToolCylinder
<1> HIDE DEF H, S
<1>3. /\ n \div (H * S) \in Nat
      /\ (n \div S) % H \in 0 .. H - 1
      /\ n % S \in 0 .. S - 1
      /\ n = ((((n \div (H * S)) * H) + ((n \div S) % H)) * S) + (n % S)
  BY <1>1, ToolDigits
<1> QED
  BY <1>2, <1>3, Zenon DEF H, S

CylinderField == 0 .. 1023

\* An address survives the packing into the bytes of a partition table entry.
LEMMA ChsRoundTrip ==
  ASSUME NEW c \in CylinderField, NEW h \in Nat, NEW s \in SectorField
  PROVE  /\ PART_CYLINDER(ChsBytes(c, h, s)) = c
         /\ PART_HEAD(ChsBytes(c, h, s)) = h
         /\ PART_SECTOR(ChsBytes(c, h, s)) = s
<1>1. \A a \in 0 .. 3, b \in 0 .. 63 : ((a * 64) + b) % 64 = b /\ ((a * 64) + b) \div 64 = a
  BY Z3
<1>2. c \div 256 \in 0 .. 3 /\ c = (c % 256) + ((c \div 256) * 256)
  BY Z3 DEF CylinderField
<1> DEFINE a == c \div 256
<1>3. ((a * 64) + s) % 64 = s /\ ((a * 64) + s) \div 64 = a
  <2>1. a \in 0 .. 3
    BY <1>2
  <2> HIDE DEF a
  <2> QED BY <1>1, <2>1 DEF SectorField
<1>4. ChsBytes(c, h, s) = [head |-> h, cyl_sector |-> (a * 64) + s, cyl |-> c % 256]
  BY DEF ChsBytes
<1>5. c = (c % 256) + (a * 256)
  BY <1>2
<1> HIDE DEF a
<1> QED BY <1>3, <1>4, <1>5 DEF PART_CYLINDER, PART_HEAD, PART_SECTOR

\* And the packing into the registers.
LEMMA RegsRoundTrip ==
  ASSUME NEW c \in CylinderField, NEW h, NEW s \in SectorField
  PROVE  /\ Cylinder(PackRegs(c, h, s)) = c
         /\ PackRegs(c, h, s).dh = h
         /\ Sector(PackRegs(c, h, s)) = s
<1>1. \A a \in 0 .. 3, b \in 0 .. 63 : ((a * 64) + b) % 64 = b /\ ((a * 64) + b) \div 64 = a
  BY Z3
<1>2. (c \div 256) % 4 = c \div 256 /\ c \div 256 \in 0 .. 3
      /\ c = ((c \div 256) * 256) + (c % 256)
  BY Z3 DEF CylinderField
<1> DEFINE a == c \div 256
<1>3. ((a * 64) + s) % 64 = s /\ ((a * 64) + s) \div 64 = a
  <2>1. a \in 0 .. 3
    BY <1>2
  <2> HIDE DEF a
  <2> QED BY <1>1, <2>1 DEF SectorField
<1>4. PackRegs(c, h, s) = [ch |-> c % 256, cl |-> (a * 64) + s, dh |-> h]
  BY <1>2 DEF PackRegs
<1>5. c = (a * 256) + (c % 256)
  BY <1>2
<1> HIDE DEF a
<1> QED BY <1>3, <1>4, <1>5 DEF Cylinder, Sector

\* What a tool writes for block n decodes to the digits of n, or to the last
\* address there is.
LEMMA ToolChsDecoded ==
  ASSUME NEW d, TypeOfDisk(d), NEW n \in Nat
  PROVE  /\ ToolCylinder(d, n) \in Nat
         /\ ToolCylinder(d, n) <= 1023 =>
              /\ PART_CYLINDER(ToolChs(d, n)) = ToolCylinder(d, n)
              /\ PART_HEAD(ToolChs(d, n)) = (n \div d.sectors) % d.heads
              /\ PART_SECTOR(ToolChs(d, n)) = (n % d.sectors) + 1
         /\ ToolCylinder(d, n) > 1023 =>
              /\ PART_CYLINDER(ToolChs(d, n)) = 1023
              /\ PART_HEAD(ToolChs(d, n)) = d.heads - 1
              /\ PART_SECTOR(ToolChs(d, n)) = d.sectors
         /\ PART_HEAD(ToolChs(d, n)) \in 0 .. d.heads - 1
         /\ PART_SECTOR(ToolChs(d, n)) \in 1 .. d.sectors
<1> DEFINE H == d.heads
           S == d.sectors
           h == (n \div S) % H
           s == n % S
           c == ToolCylinder(d, n)
<1>1. H \in 1 .. 255 /\ S \in 1 .. 63 /\ H \in Nat \ {0} /\ S \in Nat \ {0}
  BY DEF TypeOfDisk
<1>2. c \in Nat /\ h \in 0 .. H - 1 /\ s \in 0 .. S - 1
  BY ToolDigitsOf
<1>3. ToolChs(d, n) = IF c > 1023 THEN ChsBytes(1023, H - 1, S) ELSE ChsBytes(c, h, s + 1)
  BY DEF ToolChs
<1> HIDE DEF H, S, h, s, c
<1>4. H - 1 \in 0 .. H - 1 /\ S \in 1 .. S /\ s + 1 \in 1 .. S
  BY <1>1, <1>2
<1>5. /\ H - 1 \in Nat /\ S \in SectorField /\ 1023 \in CylinderField
      /\ h \in Nat /\ s + 1 \in SectorField
  BY <1>1, <1>2 DEF SectorField, CylinderField
<1>6. CASE c > 1023
  <2>1. ToolChs(d, n) = ChsBytes(1023, H - 1, S)
    BY <1>3, <1>6
  <2>2. /\ PART_CYLINDER(ChsBytes(1023, H - 1, S)) = 1023
        /\ PART_HEAD(ChsBytes(1023, H - 1, S)) = H - 1
        /\ PART_SECTOR(ChsBytes(1023, H - 1, S)) = S
    BY <1>5, ChsRoundTrip
  <2>3. /\ PART_CYLINDER(ToolChs(d, n)) = 1023
        /\ PART_HEAD(ToolChs(d, n)) = H - 1
        /\ PART_SECTOR(ToolChs(d, n)) = S
    BY <2>1, <2>2
  <2>4. ~(c <= 1023)
    BY <1>2, <1>6
  <2> QED
    BY <1>2, <1>4, <1>6, <2>3, <2>4 DEF H, S, c
<1>7. CASE ~(c > 1023)
  <2>1. c \in CylinderField
    BY <1>2, <1>7 DEF CylinderField
  <2>2. ToolChs(d, n) = ChsBytes(c, h, s + 1)
    BY <1>3, <1>7
  <2>3. /\ PART_CYLINDER(ChsBytes(c, h, s + 1)) = c
        /\ PART_HEAD(ChsBytes(c, h, s + 1)) = h
        /\ PART_SECTOR(ChsBytes(c, h, s + 1)) = s + 1
    BY <1>5, <2>1, ChsRoundTrip
  <2>4. /\ PART_CYLINDER(ToolChs(d, n)) = c
        /\ PART_HEAD(ToolChs(d, n)) = h
        /\ PART_SECTOR(ToolChs(d, n)) = s + 1
    BY <2>2, <2>3
  <2> QED
    BY <1>2, <1>4, <1>7, <2>4 DEF H, S, c, h, s
<1> QED
  BY <1>6, <1>7

\* The sectors that the start of an entry gives away are those of the tool.
LEMMA StartGivesSectors ==
  ASSUME NEW d, TypeOfDisk(d), NEW e \in Entries(d), e.type # "other", NEW old
  PROVE  SectorsFromStart(e, old) \in {old, d.sectors}
<1>1. CASE e = Unused
  <2>1. PART_HEAD(e.chs_start) = 0
    BY <1>1 DEF Unused, ChsBytes, PART_HEAD, PART_SECTOR
  <2> QED BY <2>1 DEF SectorsFromStart
<1>2. CASE e = Protective
  <2>1. PART_HEAD(e.chs_start) = 0
    BY <1>2 DEF Protective, ChsBytes, PART_HEAD, PART_SECTOR
  <2> QED BY <2>1 DEF SectorsFromStart
<1>3. ASSUME NEW p \in d.cuts \X d.cuts, p[1] < p[2], e = ToolEntry(d, p[1], p[2])
      PROVE  SectorsFromStart(e, old) \in {old, d.sectors}
  <2> DEFINE n == p[1]
             H == d.heads
             S == d.sectors
             h == (n \div S) % H
             s == n % S
  <2>1. n \in Nat /\ n < Word /\ H \in Nat \ {0} /\ S \in Nat \ {0}
    <3>1. n \in 0 .. Capacity32 /\ H \in Nat \ {0} /\ S \in Nat \ {0}
      BY DEF TypeOfDisk
    <3> QED BY <3>1, WordType
  <2>2. e.start = n /\ e.chs_start = ToolChs(d, n)
    BY <1>3 DEF ToolEntry
  <2>3. /\ ToolCylinder(d, n) \in Nat
        /\ PART_CYLINDER(ToolChs(d, n)) = 0 =>
             ToolCylinder(d, n) = 0
             /\ PART_HEAD(ToolChs(d, n)) = h /\ PART_SECTOR(ToolChs(d, n)) = s + 1
    <3>1. ToolCylinder(d, n) \in Nat
      BY <2>1, ToolChsDecoded
    <3>2. CASE ToolCylinder(d, n) > 1023
      <4>1. PART_CYLINDER(ToolChs(d, n)) = 1023
        BY <2>1, <3>2, ToolChsDecoded, SMTT(30)
      <4> QED BY <3>1, <4>1
    <3>3. CASE ToolCylinder(d, n) <= 1023
      BY <2>1, <3>1, <3>3, ToolChsDecoded, SMTT(30)
    <3> QED BY <3>1, <3>2, <3>3
  <2>4. CASE PART_CYLINDER(e.chs_start) = 0 /\ PART_HEAD(e.chs_start) # 0
    <3>1. ToolCylinder(d, n) = 0 /\ PART_HEAD(e.chs_start) = h /\ h # 0
          /\ PART_SECTOR(e.chs_start) = s + 1
      BY <2>2, <2>3, <2>4
    <3>2. /\ h \in 0 .. H - 1 /\ s \in 0 .. S - 1
          /\ n = (((ToolCylinder(d, n) * H) + h) * S) + s
      BY <2>1, ToolDigitsOf
    <3>3. SectorsFromStart(e, old) = ((n + 1 - (s + 1)) % Word) \div h
      BY <2>2, <2>4, <3>1 DEF SectorsFromStart
    <3> HIDE DEF n, H, S, h, s
    <3>4. n = (h * S) + s
      BY <2>1, <3>1, <3>2, Z3
    <3>5. n + 1 - (s + 1) = (S * h) + 0 /\ S * h \in Nat
      BY <2>1, <3>2, <3>4, Z3
    <3>6. ((n + 1 - (s + 1)) % Word) \div h = S
      <4> DEFINE m == n + 1 - (s + 1)
      <4>1. m = (S * h) + 0 /\ m \in Nat /\ h \in Nat \ {0} /\ 0 < h /\ S \in Nat
            /\ m < Word
        BY <2>1, <3>1, <3>2, <3>5, WordType
      <4> HIDE DEF m
      <4>3. m % Word = m
        BY <4>1, WordType, ModSmall
      <4>2. (m % Word) \div h = S
        BY <4>1, <4>3, QuotientUnique
      <4> QED BY <4>2 DEF m
    <3> QED BY <3>3, <3>6 DEF S
  <2>5. CASE ~(PART_CYLINDER(e.chs_start) = 0 /\ PART_HEAD(e.chs_start) # 0)
    BY <2>5 DEF SectorsFromStart
  <2> QED BY <2>4, <2>5
<1>4. e \notin d.others
  BY DEF TypeOfDisk, AnyEntry
<1> QED
  BY <1>1, <1>2, <1>3, <1>4 DEF Entries

\* The end of an entry has at most 256 heads and 63 sectors.
LEMMA EndOfEntry ==
  ASSUME NEW d, TypeOfDisk(d), NEW e \in Entries(d)
  PROVE  PART_HEAD(e.chs_end) \in 0 .. 255 /\ PART_SECTOR(e.chs_end) \in 0 .. 63
<1>1. CASE e = Unused
  BY <1>1 DEF Unused, ChsBytes, PART_HEAD, PART_SECTOR
<1>2. CASE e = Protective
  BY <1>2 DEF Protective, ChsBytes, PART_HEAD, PART_SECTOR
<1>3. ASSUME NEW p \in d.cuts \X d.cuts, p[1] < p[2], e = ToolEntry(d, p[1], p[2])
      PROVE  PART_HEAD(e.chs_end) \in 0 .. 255 /\ PART_SECTOR(e.chs_end) \in 0 .. 63
  <2> DEFINE n == p[2] - 1
  <2>1. n \in Nat /\ d.heads \in 1 .. 255 /\ d.sectors \in 1 .. 63
    BY <1>3 DEF TypeOfDisk
  <2>2. e.chs_end = ToolChs(d, n)
    BY <1>3 DEF ToolEntry
  <2> HIDE DEF n
  <2>3. /\ PART_HEAD(ToolChs(d, n)) \in 0 .. d.heads - 1
        /\ PART_SECTOR(ToolChs(d, n)) \in 1 .. d.sectors
    BY <2>1, ToolChsDecoded
  <2> DEFINE a == PART_HEAD(ToolChs(d, n))
             b == PART_SECTOR(ToolChs(d, n))
             H == d.heads
             S == d.sectors
  <2>4. a \in 0 .. H - 1 /\ b \in 1 .. S /\ H \in 1 .. 255 /\ S \in 1 .. 63
    BY <2>1, <2>3
  <2> HIDE DEF a, b, H, S
  <2>5. a \in 0 .. 255 /\ b \in 0 .. 63
    BY <2>4
  <2> QED BY <2>2, <2>5 DEF a, b
<1>4. CASE e \in d.others
  <2>1. e.chs_end \in AnyChs
    BY <1>4 DEF TypeOfDisk, AnyEntry
  <2>2. e.chs_end.head \in 0 .. 255 /\ e.chs_end.cyl_sector \in Nat
    BY <2>1 DEF AnyChs
  <2>3. \A n \in Nat : n % 64 \in 0 .. 63
    BY Z3
  <2> QED
    BY <2>2, <2>3 DEF PART_HEAD, PART_SECTOR
<1> QED
  BY <1>1, <1>2, <1>3, <1>4 DEF Entries

-----------------------------------------------------------------------------
(* The scan of the table and what the guess leaves for the calls.          *)

\* The table is what a tool left on a hard disk of sectors.
TableWritten ==
    \A n \in 1 .. 4 : /\ table[n] \in Entries(disk)
                      /\ (disk.fdd \/ ~disk.small) => table[n] = Unused

\* Nothing but tools wrote the table.
NoOther == \A n \in 1 .. 4 : table[n].type # "other"

\* Every entry in use is the tool's and ends with a cylinder.
EndsAligned ==
    \A n \in 1 .. 4 :
        /\ table[n].type \in {"none", "used"}
        /\ table[n].type = "used" =>
              /\ PART_HEAD(table[n].chs_end) = disk.heads - 1
              /\ PART_SECTOR(table[n].chs_end) = disk.sectors

\* What the scan has found: nothing that does not fit, and on an aligned disk the
\* geometry of the tool from the first entry in use on.
Scanned ==
    /\ heads \in 0 .. 256
    /\ NoOther => sectors \in 0 .. 63
    /\ EndsAligned =>
         \/ /\ heads = 0 /\ sectors = 0
            /\ \A n \in 1 .. 4 : n < i => table[n].type = "none"
         \/ heads = disk.heads /\ sectors = disk.sectors

\* What the guess leaves for the calls.
Settled ==
    /\ ~disk.small => /\ int13.cylinders = 0 /\ int13.heads = 0
                      /\ int13.sectors_per_track = 0
    /\ pc \in {"scan", "undefined"} => disk.small
    /\ pc = "undefined" => ~NoOther
    /\ (pc \notin {"scan", "undefined"} /\ disk.small) =>
         /\ int13.heads \in 1 .. 256 /\ int13.sectors_per_track \in Nat \ {0}
         /\ NoOther => int13.sectors_per_track \in 1 .. 63
         /\ int13.cylinders = Cylinders((int13.heads * int13.sectors_per_track) % Word)
         /\ ~disk.fdd => /\ i = 5
                         /\ int13.heads = GuessedHdd.heads
                         /\ int13.sectors_per_track = GuessedHdd.sectors

\* What a call answered.
Answered ==
    /\ pc = "parameters" => regs = Parameters
    /\ pc = "extended" => flags = ChsValid
    /\ pc = "addressed" =>
         lba = IF ~disk.small \/ AddressRefused(regs) THEN Refused ELSE AddressedLba(regs)

\* The inductive invariant of the guess.
GuessInv == GInv /\ TableWritten /\ Scanned /\ Settled /\ Answered

\* It holds before the scan.
LEMMA InitGuessInv == Init => GuessInv
<1> SUFFICES ASSUME Init PROVE GuessInv
  OBVIOUS
<1>1. GInv
  BY InitGInv
<1>2. TableWritten
  BY DEF Init, TableWritten, Entries
<1>3. Scanned
  BY DEF Init, Scanned
<1>4. Settled
  BY DEF Init, Settled
<1>5. Answered
  BY DEF Init, Answered
<1> QED
  BY <1>1, <1>2, <1>3, <1>4, <1>5 DEF GuessInv

\* The disk has its type.
LEMMA DiskType ==
  ASSUME GInv
  PROVE  /\ TypeOfDisk(disk) /\ disk.blocks \in Nat
         /\ disk.heads \in 1 .. 255 /\ disk.sectors \in 1 .. 63
<1>1. TypeOfDisk(disk)
  BY GeometryAssumption DEF GInv, TypeOK
<1> QED
  BY <1>1 DEF TypeOfDisk

\* An entry is unused, protective, what the tool wrote for two of its cuts, or
\* something else.
LEMMA EntryCases ==
  ASSUME NEW d, TypeOfDisk(d), NEW e \in Entries(d)
  PROVE  /\ e.type \in {"none", "protective", "used", "other"}
         /\ e.type = "used" =>
              \E a, b \in 0 .. d.blocks : a < b /\ e = ToolEntry(d, a, b)
<1>1. CASE e = Unused
  BY <1>1 DEF Unused
<1>2. CASE e = Protective
  BY <1>2 DEF Protective
<1>3. ASSUME NEW p \in d.cuts \X d.cuts, p[1] < p[2], e = ToolEntry(d, p[1], p[2])
      PROVE  /\ e.type = "used"
             /\ \E a, b \in 0 .. d.blocks : a < b /\ e = ToolEntry(d, a, b)
  <2>1. p[1] \in 0 .. d.blocks /\ p[2] \in 0 .. d.blocks
    BY DEF TypeOfDisk
  <2>2. e.type = "used"
    BY <1>3 DEF ToolEntry
  <2> QED
    BY <1>3, <2>1, <2>2
<1>4. CASE e \in d.others
  <2>1. e.type = "other"
    BY <1>4 DEF TypeOfDisk, AnyEntry
  <2> QED BY <2>1
<1> QED
  BY <1>1, <1>2, <1>3, <1>4 DEF Entries

\* One turn of the scan.
LEMMA ScanStep ==
  ASSUME GuessInv, int13_guess_geometry_hdd
  PROVE  Scanned'
<1>1. /\ i \in 1 .. 4 /\ ScanEntry /\ i' = i + 1
      /\ UNCHANGED <<disk, table>>
      /\ heads \in 0 .. 256 /\ sectors \in Nat /\ (NoOther => sectors \in 0 .. 63)
  BY DEF GuessInv, GInv, TypeOK, Scanned, int13_guess_geometry_hdd
<1> DEFINE p == table[i]
           a == PART_HEAD(p.chs_end)
           b == PART_SECTOR(p.chs_end)
           c == SectorsFromStart(p, sectors)
           H == disk.heads
           S == disk.sectors
<1>2. TypeOfDisk(disk) /\ H \in 1 .. 255 /\ S \in 1 .. 63
  BY DiskType DEF GuessInv
<1>3. p \in Entries(disk)
  BY <1>1 DEF GuessInv, TableWritten
<1>4. a \in 0 .. 255 /\ b \in 0 .. 63 /\ (p.type # "other" => c \in {sectors, S})
  BY <1>2, <1>3, EndOfEntry, StartGivesSectors
<1>5. EndsAligned' = EndsAligned /\ NoOther' = NoOther
  BY <1>1 DEF EndsAligned, NoOther
<1>6. /\ EndsAligned => /\ p.type \in {"none", "used"}
                        /\ p.type = "used" => a = H - 1 /\ b = S
                        /\ NoOther
      /\ NoOther => p.type # "other"
  BY <1>1 DEF EndsAligned, NoOther
<1>7. EndsAligned =>
         \/ /\ heads = 0 /\ sectors = 0
            /\ \A n \in 1 .. 4 : n < i => table[n].type = "none"
         \/ heads = H /\ sectors = S
  BY DEF GuessInv, Scanned
<1>8. /\ p.type = "none" => heads' = heads /\ sectors' = sectors
      /\ p.type # "none" => heads' = Larger(a + 1, heads) /\ sectors' = Larger(b, c)
  BY <1>1 DEF ScanEntry
<1>9. p = table[i]
  OBVIOUS
<1> HIDE DEF p, a, b, c, H, S
<1>10. CASE p.type = "none"
  <2>1. heads' \in 0 .. 256 /\ (NoOther' => sectors' \in 0 .. 63)
    BY <1>1, <1>5, <1>8, <1>10
  <2>2. ASSUME NEW n \in 1 .. 4, n < i', \A k \in 1 .. 4 : k < i => table[k].type = "none"
        PROVE  table'[n].type = "none"
    <3>1. n < i \/ n = i
      BY <1>1, <2>2
    <3> QED BY <1>1, <1>9, <1>10, <2>2, <3>1
  <2>3. EndsAligned' =>
         \/ /\ heads' = 0 /\ sectors' = 0
            /\ \A n \in 1 .. 4 : n < i' => table'[n].type = "none"
         \/ heads' = H /\ sectors' = S
    BY <1>5, <1>7, <1>8, <1>10, <2>2
  <2>4. H = disk'.heads /\ S = disk'.sectors
    BY <1>1 DEF H, S
  <2> QED BY <2>1, <2>3, <2>4 DEF Scanned
<1>11. CASE p.type # "none"
  <2>1. heads' = Larger(a + 1, heads) /\ sectors' = Larger(b, c)
    BY <1>8, <1>11
  <2>2. heads' \in 0 .. 256
    BY <1>1, <1>4, <2>1 DEF Larger
  <2>3. NoOther => sectors' \in 0 .. 63
    BY <1>1, <1>2, <1>4, <1>6, <2>1 DEF Larger
  <2>4. ASSUME EndsAligned
        PROVE  heads' = H /\ sectors' = S
    <3>1. a = H - 1 /\ b = S
      BY <1>6, <1>11, <2>4
    <3>2. heads \in {0, H} /\ sectors \in {0, S}
      BY <1>7, <2>4
    <3>3. c \in {sectors, S}
      BY <1>4, <1>6, <2>4
    <3> QED
      BY <1>2, <2>1, <3>1, <3>2, <3>3 DEF Larger
  <2>5. H = disk'.heads /\ S = disk'.sectors
    BY <1>1 DEF H, S
  <2> QED BY <1>5, <2>2, <2>3, <2>4, <2>5 DEF Scanned
<1> QED
  BY <1>10, <1>11

\* What is guessed from a table of tools fits into INT 13 calls.
LEMMA GuessFits ==
  ASSUME GuessInv
  PROVE  /\ GuessedGeometry.heads \in 1 .. 256 /\ GuessedGeometry.sectors \in Nat \ {0}
         /\ NoOther => GuessedGeometry.sectors \in 1 .. 63
<1>1. /\ GuessedHdd.heads \in 1 .. 256 /\ GuessedHdd.sectors \in Nat \ {0}
      /\ NoOther => GuessedHdd.sectors \in 1 .. 63
  BY DEF GuessInv, GInv, TypeOK, Scanned, GuessedHdd
<1> QED
  BY <1>1, FddGuess DEF GuessedGeometry

\* Heads and sectors that fit have a product that does.
LEMMA SmallProduct ==
  ASSUME NEW h \in 1 .. 256, NEW s \in 1 .. 63
  PROVE  h * s \in Nat \ {0} /\ h * s < Word /\ (h * s) % Word = h * s
<1>1. h * s \in Nat \ {0} /\ h * s <= 16128
  <2>1. h \in Nat \ {0} /\ s \in Nat \ {0} /\ h <= 256 /\ s <= 63
    OBVIOUS
  <2>2. h * s <= 256 * s
    BY <2>1, TimesMonotone
  <2>3. h * s \in Nat \ {0}
    BY <2>1, TimesPositive
  <2> DEFINE x == h * s
  <2> HIDE DEF x
  <2>4. x <= 256 * s /\ x \in Nat
    BY <2>2, <2>3 DEF x
  <2>5. x <= 16128
    BY <2>1, <2>4
  <2> QED BY <2>3, <2>5 DEF x
<1> DEFINE x == h * s
<1>2. x \in Nat \ {0} /\ x <= 16128
  BY <1>1
<1> HIDE DEF x
<1>3. x < Word /\ x % Word = x
  BY <1>2, WordType, ModSmall
<1> QED BY <1>2, <1>3 DEF x

\* The end of the guess.
LEMMA GuessSettles ==
  ASSUME GuessInv, int13_guess_geometry
  PROVE  Settled'
<1> DEFINE g == GuessedGeometry
<1>1. /\ g.heads \in 1 .. 256 /\ g.sectors \in Nat \ {0}
      /\ NoOther => g.sectors \in 1 .. 63
  BY GuessFits
<1>2. /\ int13' = [cylinders |-> Cylinders(BlocksPerCyl(g)), heads |-> g.heads,
                   sectors_per_track |-> g.sectors]
      /\ pc' = "caller" /\ pc = "scan" /\ (disk.fdd \/ i = 5)
      /\ UNCHANGED <<disk, table, i, heads, sectors>>
  BY DEF int13_guess_geometry
<1>3. disk.small
  BY <1>2 DEF GuessInv, Settled
<1>4. ~disk.fdd => g = GuessedHdd
  BY DEF GuessedGeometry
<1> HIDE DEF g
<1>5. /\ int13'.cylinders = Cylinders((g.heads * g.sectors) % Word)
      /\ int13'.heads = g.heads /\ int13'.sectors_per_track = g.sectors
  BY <1>2 DEF BlocksPerCyl
<1>6. NoOther' = NoOther
  BY <1>2 DEF NoOther
<1>7. GuessedHdd' = GuessedHdd
  BY <1>2 DEF GuessedHdd
<1>8. int13'.cylinders = Cylinders((int13.heads * int13.sectors_per_track) % Word)'
  <2>1. Cylinders((int13.heads * int13.sectors_per_track) % Word)'
          = Cylinders((g.heads * g.sectors) % Word)
    BY <1>2, <1>5 DEF Cylinders, int13_capacity32
  <2> QED BY <1>5, <2>1
<1>9. /\ int13'.heads \in 1 .. 256 /\ int13'.sectors_per_track \in Nat \ {0}
      /\ NoOther' => int13'.sectors_per_track \in 1 .. 63
  BY <1>1, <1>5, <1>6
<1>10. ~disk'.fdd => /\ i' = 5
                     /\ int13'.heads = GuessedHdd'.heads
                     /\ int13'.sectors_per_track = GuessedHdd'.sectors
  BY <1>2, <1>4, <1>5, <1>7
<1> QED
  BY <1>2, <1>3, <1>8, <1>9, <1>10 DEF Settled

\* A division by zero comes from a table that tools alone did not write.
LEMMA ZeroNotFromTools ==
  ASSUME GuessInv, DivideByZero
  PROVE  ~NoOther
<1>1. (GuessedGeometry.heads * GuessedGeometry.sectors) % Word = 0
  BY DEF DivideByZero, BlocksPerCyl
<1> SUFFICES ASSUME NoOther PROVE FALSE
  OBVIOUS
<1>2. GuessedGeometry.heads \in 1 .. 256 /\ GuessedGeometry.sectors \in 1 .. 63
  BY GuessFits
<1>3. /\ GuessedGeometry.heads * GuessedGeometry.sectors \in Nat \ {0}
      /\ (GuessedGeometry.heads * GuessedGeometry.sectors) % Word
            = GuessedGeometry.heads * GuessedGeometry.sectors
  BY <1>2, SmallProduct
<1> QED
  BY <1>1, <1>3

\* A step that leaves the disk and the geometry alone.
LEMMA GeometryKept ==
  ASSUME GuessInv, pc # "scan", pc' # "scan", pc' = "undefined" <=> pc = "undefined",
         UNCHANGED <<disk, table, i, heads, sectors, int13>>
  PROVE  TableWritten' /\ Scanned' /\ Settled'
<1>1. TableWritten'
  BY DEF GuessInv, TableWritten
<1>2. EndsAligned' = EndsAligned /\ NoOther' = NoOther
  BY DEF EndsAligned, NoOther
<1>3. Scanned'
  BY <1>2 DEF GuessInv, Scanned
<1>4. /\ Cylinders((int13.heads * int13.sectors_per_track) % Word)'
           = Cylinders((int13.heads * int13.sectors_per_track) % Word)
      /\ GuessedHdd' = GuessedHdd
  BY DEF Cylinders, int13_capacity32, GuessedHdd
<1>5. Settled'
  BY <1>2, <1>4 DEF GuessInv, Settled
<1> QED
  BY <1>1, <1>3, <1>5

\* Every step keeps the invariant of the guess.
LEMMA NextGuessInv == GuessInv /\ [Next]_vars => GuessInv'
<1> SUFFICES ASSUME GuessInv, [Next]_vars PROVE GuessInv'
  OBVIOUS
<1>0. GInv'
  BY NextGInv DEF GuessInv
<1>1. CASE int13_guess_geometry_hdd
  <2>1. UNCHANGED <<disk, table, pc, int13, regs, lba, flags>> /\ pc = "scan"
    BY <1>1 DEF int13_guess_geometry_hdd
  <2>2. TableWritten'
    BY <2>1 DEF GuessInv, TableWritten
  <2>3. Scanned'
    BY <1>1, ScanStep
  <2>4. Settled' /\ Answered'
    BY <2>1 DEF GuessInv, Settled, Answered
  <2> QED
    BY <1>0, <2>2, <2>3, <2>4 DEF GuessInv
<1>2. CASE int13_guess_geometry
  <2>1. UNCHANGED <<disk, table, i, heads, sectors>> /\ pc' = "caller"
    BY <1>2 DEF int13_guess_geometry
  <2>2. TableWritten'
    BY <2>1 DEF GuessInv, TableWritten
  <2>3. EndsAligned' = EndsAligned /\ NoOther' = NoOther
    BY <2>1 DEF EndsAligned, NoOther
  <2>4. Scanned'
    BY <2>1, <2>3 DEF GuessInv, Scanned
  <2>5. Settled'
    BY <1>2, GuessSettles
  <2>6. Answered'
    BY <2>1 DEF Answered
  <2> QED
    BY <1>0, <2>2, <2>4, <2>5, <2>6 DEF GuessInv
<1>3. CASE int13_rw_sectors
  <2>1. /\ UNCHANGED <<disk, table, i, heads, sectors, int13, flags>>
        /\ pc = "caller" /\ pc' = "addressed"
    BY <1>3 DEF int13_rw_sectors
  <2>2. TableWritten' /\ Scanned' /\ Settled'
    BY <2>1, GeometryKept
  <2>3. PICK r \in Addresses :
               /\ regs' = r
               /\ lba' = IF ~disk.small \/ AddressRefused(r) THEN Refused ELSE AddressedLba(r)
    BY <1>3 DEF int13_rw_sectors
  <2>4. /\ AddressRefused(regs)' = AddressRefused(r)
        /\ AddressedLba(regs)' = AddressedLba(r)
    BY <2>1, <2>3 DEF AddressRefused, AddressedLba, Cylinder, Sector
  <2>5. Answered'
    BY <2>1, <2>3, <2>4 DEF Answered
  <2> QED
    BY <1>0, <2>2, <2>5 DEF GuessInv
<1>4. CASE int13_get_parameters
  <2>1. /\ UNCHANGED <<disk, table, i, heads, sectors, int13, lba, flags>>
        /\ pc = "caller" /\ pc' = "parameters" /\ regs' = Parameters
    BY <1>4 DEF int13_get_parameters
  <2>2. TableWritten' /\ Scanned' /\ Settled'
    BY <2>1, GeometryKept
  <2>3. Parameters' = Parameters
    BY <2>1 DEF Parameters
  <2>4. Answered'
    BY <2>1, <2>3 DEF Answered
  <2> QED
    BY <1>0, <2>2, <2>4 DEF GuessInv
<1>5. CASE int13_get_extended_parameters
  <2>1. /\ UNCHANGED <<disk, table, i, heads, sectors, int13, regs, lba>>
        /\ pc = "caller" /\ pc' = "extended" /\ flags' = ChsValid
    BY <1>5 DEF int13_get_extended_parameters
  <2>2. TableWritten' /\ Scanned' /\ Settled'
    BY <2>1, GeometryKept
  <2>3. ChsValid' = ChsValid
    BY <2>1 DEF ChsValid
  <2>4. Answered'
    BY <2>1, <2>3 DEF Answered
  <2> QED
    BY <1>0, <2>2, <2>4 DEF GuessInv
<1>6. CASE Return
  <2>1. /\ UNCHANGED <<disk, table, i, heads, sectors, int13>>
        /\ pc \notin {"scan", "undefined"} /\ pc' = "caller"
    BY <1>6 DEF Return
  <2>2. TableWritten' /\ Scanned' /\ Settled'
    BY <2>1, GeometryKept
  <2>3. Answered'
    BY <2>1 DEF Answered
  <2> QED
    BY <1>0, <2>2, <2>3 DEF GuessInv
<1>7. CASE UNCHANGED vars
  <2>1. UNCHANGED <<disk, table, pc, i, heads, sectors, int13, regs, lba, flags>>
    BY <1>7 DEF vars
  <2>2. CASE pc = "scan"
    <3>1. TableWritten' /\ EndsAligned' = EndsAligned /\ NoOther' = NoOther
      BY <2>1 DEF GuessInv, TableWritten, EndsAligned, NoOther
    <3>2. Scanned'
      BY <2>1, <3>1 DEF GuessInv, Scanned
    <3>3. Settled' /\ Answered'
      BY <2>1, <2>2 DEF GuessInv, Settled, Answered
    <3> QED BY <1>0, <3>1, <3>2, <3>3 DEF GuessInv
  <2>3. CASE pc # "scan"
    <3>1. TableWritten' /\ Scanned' /\ Settled'
      BY <2>1, <2>3, GeometryKept
    <3>2. /\ Parameters' = Parameters /\ ChsValid' = ChsValid
          /\ AddressRefused(regs)' = AddressRefused(regs)
          /\ AddressedLba(regs)' = AddressedLba(regs)
      BY <2>1 DEF Parameters, ChsValid, AddressRefused, AddressedLba, Cylinder, Sector
    <3>3. Answered'
      BY <2>1, <3>2 DEF GuessInv, Answered
    <3> QED BY <1>0, <3>1, <3>3 DEF GuessInv
  <2> QED BY <2>2, <2>3
<1>8. CASE DivideByZero
  <2>1. /\ UNCHANGED <<disk, table, i, heads, sectors, int13, regs, lba, flags>>
        /\ pc = "scan" /\ pc' = "undefined"
    BY <1>8 DEF DivideByZero
  <2>2. TableWritten'
    BY <2>1 DEF GuessInv, TableWritten
  <2>3. EndsAligned' = EndsAligned /\ NoOther' = NoOther
    BY <2>1 DEF EndsAligned, NoOther
  <2>4. Scanned'
    BY <2>1, <2>3 DEF GuessInv, Scanned
  <2>5. ~NoOther'
    BY <1>8, <2>3, ZeroNotFromTools
  <2>6. Settled' /\ Answered'
    BY <2>1, <2>5 DEF GuessInv, Settled, Answered
  <2> QED
    BY <1>0, <2>2, <2>4, <2>6 DEF GuessInv
<1>9. CASE Undefined
  BY <1>7, <1>9 DEF Undefined
<1> QED
  BY <1>1, <1>2, <1>3, <1>4, <1>5, <1>6, <1>7, <1>8, <1>9 DEF Next

\* The invariant of the guess always holds.
LEMMA GuessInvariant == Spec => []GuessInv
  BY InitGuessInv, NextGuessInv, PTL DEF Spec

-----------------------------------------------------------------------------
(* What callers rely on.                                                   *)

\* On an aligned disk the geometry is the tool's.
LEMMA AlignedGuess ==
  ASSUME GuessInv, pc # "scan", Aligned
  PROVE  /\ disk.small /\ ~disk.fdd
         /\ int13.heads = disk.heads /\ int13.sectors_per_track = disk.sectors
         /\ int13.cylinders = Cylinders(disk.heads * disk.sectors)
<1>1. PICK m \in 1 .. 4 : table[m].type = "used"
  BY DEF Aligned, UsedEntries
<1>2. disk.small /\ ~disk.fdd
  BY <1>1 DEF GuessInv, TableWritten, Unused
<1>0. NoOther
  BY DEF Aligned, ToolWroteAll, NoOther
<1>3. EndsAligned
  <2>1. ASSUME NEW n \in 1 .. 4, table[n].type = "used"
        PROVE  table[n] \in UsedEntries
    BY <2>1 DEF UsedEntries
  <2> QED BY <2>1 DEF EndsAligned, Aligned, ToolWroteAll
<1>4. /\ i = 5 /\ int13.heads = GuessedHdd.heads
      /\ int13.sectors_per_track = GuessedHdd.sectors
      /\ int13.cylinders = Cylinders((int13.heads * int13.sectors_per_track) % Word)
  BY <1>0, <1>2 DEF GuessInv, Settled
<1>5. heads = disk.heads /\ sectors = disk.sectors
  <2>1. m < i
    BY <1>4
  <2> QED BY <1>1, <1>3, <2>1 DEF GuessInv, Scanned
<1>6. heads # 0 /\ sectors # 0
  <2>1. disk.heads \in 1 .. 255 /\ disk.sectors \in 1 .. 63
    BY DiskType DEF GuessInv
  <2> QED BY <1>5, <2>1
<1>7. GuessedHdd.heads = heads /\ GuessedHdd.sectors = sectors
  BY <1>6 DEF GuessedHdd
<1>8. (disk.heads * disk.sectors) % Word = disk.heads * disk.sectors
  <2>1. disk.heads \in 1 .. 256 /\ disk.sectors \in 1 .. 63
    BY DiskType DEF GuessInv
  <2> QED BY <2>1, SmallProduct
<1> QED
  BY <1>2, <1>4, <1>5, <1>7, <1>8

\* If the tool ended its entries with cylinders, int13_guess_geometry finds the
\* tool's heads and sectors, whatever else is in the four entries.
THEOREM ToolGeometryRecovered == Spec => []GuessRecoversTool
<1>1. GuessInv => GuessRecoversTool
  BY AlignedGuess DEF GuessRecoversTool
<1> QED
  BY GuessInvariant, <1>1, PTL

\* A table in which tools alone have written leads to a geometry that fits into
\* INT 13 calls, and not to a division by zero.
THEOREM ToolTablesFit == Spec => []WrittenTableFits
<1>1. ASSUME GuessInv, NoOther, pc # "scan"
      PROVE  /\ pc # "undefined"
             /\ int13.heads <= 256 /\ int13.sectors_per_track <= 63
  <2>1. pc # "undefined"
    BY <1>1 DEF GuessInv, Settled
  <2>2. CASE disk.small
    <3>1. int13.heads \in 1 .. 256 /\ int13.sectors_per_track \in 1 .. 63
      BY <1>1, <2>1, <2>2 DEF GuessInv, Settled
    <3> QED BY <2>1, <3>1
  <2>3. CASE ~disk.small
    BY <1>1, <2>1, <2>3 DEF GuessInv, Settled
  <2> QED BY <2>2, <2>3
<1>2. GuessInv => WrittenTableFits
  BY <1>1 DEF WrittenTableFits, NoOther
<1> QED
  BY GuessInvariant, <1>2, PTL

CylinderCount == 1 .. 1024
HeadCount == 1 .. 256

\* The values that INT 13,08 puts into the registers.
LEMMA LastAddress ==
  ASSUME NEW C \in CylinderCount, NEW H \in HeadCount, NEW S \in SectorField
  PROVE  /\ C - 1 \in CylinderField
         /\ [ch |-> ((C - 1) % 1024) % 256,
             cl |-> PackedCl((C - 1) % 1024, S),
             dh |-> (H - 1) % 256] = PackRegs(C - 1, H - 1, S)
<1>1. (C - 1) % 1024 = C - 1 /\ (H - 1) % 256 = H - 1 /\ C - 1 \in CylinderField
  BY Z3 DEF CylinderField, CylinderCount, HeadCount
<1> DEFINE a == (C - 1) \div 256
<1>2. a \in 0 .. 3
  BY Z3 DEF CylinderCount
<1>3. (S \div 64) % 4 = 0 /\ S % 64 = S
  BY Z3 DEF SectorField
<1>4. PackedCl(C - 1, S) = (a * 64) + S
  BY <1>3 DEF PackedCl, OrBits
<1> HIDE DEF a
<1>5. a % 4 = a
  BY <1>2, Z3
<1>6. PackedCl((C - 1) % 1024, S) = ((((C - 1) \div 256) % 4) * 64) + S
  BY <1>1, <1>4, <1>5 DEF a
<1> QED
  BY <1>1, <1>6 DEF PackRegs

\* INT 13,08 reports the last address INT 13,02 accepts, and it is the end of the
\* last whole cylinder, for a guess of at most 63 sectors.
THEOREM ParametersNameLast == Spec => []ParametersAreLast
<1>1. ASSUME GuessInv, pc = "parameters", int13.cylinders > 0,
             int13.sectors_per_track <= 63
      PROVE  /\ ~AddressRefused(regs)
             /\ AddressedLba(regs) =
                   (int13.cylinders * int13.heads * int13.sectors_per_track) - 1
  <2> DEFINE C == int13.cylinders
             H == int13.heads
             S == int13.sectors_per_track
  <2>1. regs = Parameters /\ disk.small
    <3>1. C \in Nat /\ C # 0
      BY <1>1, GeometriesType DEF GuessInv, GInv, TypeOK
    <3> QED BY <1>1, <3>1 DEF GuessInv, Answered, Settled
  <2>2. H \in 1 .. 256 /\ S \in 1 .. 63
    <3>1. H \in 1 .. 256 /\ S \in Nat \ {0} /\ S <= 63
      BY <1>1, <2>1 DEF GuessInv, Settled
    <3> HIDE DEF H, S
    <3> QED BY <3>1
  <2>3. C \in 1 .. 1024
    <3>1. int13 \in Geometries
      BY <1>1 DEF GuessInv, GInv, TypeOK
    <3>2. C \in 0 .. 1024
      BY <3>1 DEF Geometries, MaxCylinders
    <3>3. C > 0
      BY <1>1
    <3> HIDE DEF C
    <3> QED BY <3>2, <3>3
  <2>4. regs = [ch |-> ((C - 1) % 1024) % 256,
                cl |-> PackedCl((C - 1) % 1024, S),
                dh |-> (H - 1) % 256]
    BY <2>1 DEF Parameters
  <2>5. AddressRefused(regs) <=> \/ Cylinder(regs) >= C \/ regs.dh >= H
                                 \/ Sector(regs) < 1 \/ Sector(regs) > S
    BY DEF AddressRefused
  <2>0. GInv /\ regs \in Registers
    BY <1>1 DEF GuessInv, GInv, TypeOK
  <2>11. ProductFits <=> H * S < Word
    BY DEF ProductFits
  <2> HIDE DEF C, H, S
  <2>6. S \in SectorField
    BY <2>2 DEF SectorField
  <2>7. regs = PackRegs(C - 1, H - 1, S) /\ C - 1 \in CylinderField
    <3>1. C \in CylinderCount /\ H \in HeadCount
      BY <2>2, <2>3 DEF CylinderCount, HeadCount
    <3> QED
      BY <2>4, <2>6, <3>1, LastAddress
  <2>8. Cylinder(regs) = C - 1 /\ regs.dh = H - 1 /\ Sector(regs) = S
    <3> DEFINE c == C - 1
               h == H - 1
    <3>1. c \in CylinderField /\ regs = PackRegs(c, h, S)
      BY <2>7
    <3> HIDE DEF c, h
    <3>2. Cylinder(regs) = c /\ regs.dh = h /\ Sector(regs) = S
      BY <2>6, <3>1, RegsRoundTrip
    <3> QED BY <3>2 DEF c, h
  <2>9. ~AddressRefused(regs)
    BY <2>2, <2>3, <2>5, <2>8
  <2>10. ((((C - 1) * H) + (H - 1)) * S) + S - 1 = (C * H * S) - 1
    <3>1. ((C - 1) * H) + (H - 1) = (C * H) - 1 /\ C * H \in Int
      BY <2>2, <2>3, Z3
    <3> DEFINE x == C * H
    <3>2. x \in Int /\ ((C - 1) * H) + (H - 1) = x - 1
      BY <3>1
    <3> HIDE DEF x
    <3>3. ((x - 1) * S) + S - 1 = (x * S) - 1
      BY <2>2, <3>2, Z3
    <3> QED BY <3>2, <3>3 DEF x
  <2>12. ProductFits
    BY <2>2, <2>11, SmallProduct
  <2>13. AddressedLba(regs) = (((Cylinder(regs) * H) + regs.dh) * S) + Sector(regs) - 1
    BY <2>0, <2>9, <2>12, AddressOnDisk DEF H, S
  <2>14. AddressedLba(regs) = (C * H * S) - 1
    BY <2>8, <2>10, <2>13, Zenon
  <2> QED
    BY <2>9, <2>14 DEF C, H, S
<1>2. GuessInv => ParametersAreLast
  BY <1>1 DEF ParametersAreLast
<1> QED
  BY GuessInvariant, <1>2, PTL

\* Division keeps the order.
LEMMA DivMonotone ==
  ASSUME NEW a \in Nat, NEW b \in Nat, NEW k \in Nat \ {0}, a <= b
  PROVE  a \div k <= b \div k
<1> DEFINE x == a \div k
           y == b \div k
           r == b % k
<1>1. x \in Nat /\ x * k <= a
  BY DivTimes
<1>2. y \in Nat /\ r \in 0 .. k - 1 /\ b = (y * k) + r
  BY DivModWhole
<1> HIDE DEF x, y, r
<1> SUFFICES ASSUME y + 1 <= x PROVE FALSE
  BY <1>1, <1>2 DEF x, y
<1>3. (y + 1) * k <= x * k /\ (y + 1) * k = (y * k) + k
  BY <1>1, <1>2, TimesMonotone, Z3
<1>4. x * k \in Nat /\ y * k \in Nat
  BY <1>1, <1>2, TimesNat
<1> QED
  BY <1>1, <1>2, <1>3, <1>4

\* A cylinder that ends on the disk is counted.
LEMMA CylinderCounted ==
  ASSUME NEW k \in Nat \ {0}, NEW B \in Nat, NEW c \in Nat, (c + 1) * k <= B
  PROVE  c < B \div k
<1>1. (c + 1) * k \in Nat /\ (c + 1) * k = ((c + 1) * k) + 0 /\ 0 < k
  BY TimesNat
<1> DEFINE m == (c + 1) * k
<1>2. m \div k = c + 1
  BY <1>1, QuotientUnique
<1>3. m \div k <= B \div k
  <2>1. m \in Nat /\ m <= B
    BY <1>1
  <2> HIDE DEF m
  <2> QED BY <2>1, DivMonotone
<1>4. B \div k \in Nat
  BY DivMod
<1> DEFINE y == B \div k
<1>5. y \in Nat /\ c + 1 <= y
  BY <1>2, <1>3, <1>4
<1> HIDE DEF y
<1>6. c < y
  BY <1>5
<1> QED
  BY <1>6 DEF y

\* An entry that ends with a cylinder ends in a cylinder that is counted, unless that
\* is past 1023.
LEMMA EndCounted ==
  ASSUME NEW d, TypeOfDisk(d), NEW a \in 0 .. d.blocks, NEW b \in 0 .. d.blocks, a < b,
         PART_HEAD(ToolChs(d, b - 1)) = d.heads - 1,
         PART_SECTOR(ToolChs(d, b - 1)) = d.sectors
  PROVE  LET k == d.heads * d.sectors
             x == ToolCylinder(d, a)
             y == ToolCylinder(d, b - 1)
             z == d.blocks \div k
         IN  /\ x \in Nat /\ y \in Nat /\ z \in Nat /\ x <= y /\ y <= z
             /\ y <= 1023 => y < z /\ b = (y + 1) * k
<1> DEFINE H == d.heads
           S == d.sectors
           B == d.blocks
           k == H * S
           e == b - 1
           x == ToolCylinder(d, a)
           y == ToolCylinder(d, e)
           z == B \div k
<1>1. H \in Nat \ {0} /\ S \in Nat \ {0} /\ B \in Nat
  BY DEF TypeOfDisk
<1>2. a \in Nat /\ b \in Nat /\ e \in Nat /\ a <= e /\ b = e + 1 /\ b <= B /\ e <= B
  BY <1>1
<1>3. x = a \div k /\ y = e \div k
  BY DEF ToolCylinder
<1>4. /\ y <= 1023 => H - 1 = (e \div S) % H /\ S = (e % S) + 1
  <2>1. e \in Nat /\ PART_HEAD(ToolChs(d, e)) = H - 1 /\ PART_SECTOR(ToolChs(d, e)) = S
    BY <1>2
  <2> HIDE DEF e
  <2>2. y <= 1023 => /\ PART_HEAD(ToolChs(d, e)) = (e \div d.sectors) % d.heads
                     /\ PART_SECTOR(ToolChs(d, e)) = (e % d.sectors) + 1
    BY <2>1, ToolChsDecoded
  <2> QED BY <2>1, <2>2
<1> HIDE DEF H, S, B, e, x, y
<1>6. k \in Nat \ {0}
  BY <1>1, TimesPositive
<1>7. x \in Nat /\ y \in Nat /\ z \in Nat
  <2>1. a \in Nat /\ e \in Nat
    BY <1>2
  <2> HIDE DEF k
  <2>2. \A n \in Nat : n \div k \in Nat
    BY <1>6, DivMod
  <2> QED BY <1>1, <1>3, <2>1, <2>2
<1>8. x <= y /\ y <= z
  <2>1. a \in Nat /\ e \in Nat /\ a <= e /\ e <= B
    BY <1>2
  <2> HIDE DEF k
  <2>2. a \div k <= e \div k
    BY <1>6, <2>1, DivMonotone, SMTT(30)
  <2>3. e \div k <= B \div k
    BY <1>1, <1>6, <2>1, DivMonotone
  <2> QED BY <1>3, <2>2, <2>3
<1>9. CASE y > 1023
  <2>1. ~(y <= 1023)
    BY <1>7, <1>9
  <2> QED BY <1>7, <1>8, <2>1 DEF x, y, z, k, H, S, B, e
<1>10. CASE ~(y > 1023)
  <2>1. H - 1 = (e \div S) % H /\ S = (e % S) + 1
    <3>1. y <= 1023
      BY <1>7, <1>10
    <3> QED BY <1>4, <3>1
  <2>2. e = (((y * H) + ((e \div S) % H)) * S) + (e % S)
    <3>1. e \in Nat
      BY <1>2
    <3> QED BY <3>1, ToolDigitsOf DEF y, H, S
  <2>3. e % S = S - 1
    <3>1. e % S \in Int
      BY <1>1, <1>2, DivMod
    <3> DEFINE r == e % S
    <3>2. r \in Int /\ S = r + 1
      BY <2>1, <3>1
    <3> HIDE DEF r
    <3>3. r = S - 1
      BY <1>1, <3>2
    <3> QED BY <3>3 DEF r
  <2>4. e = (((y * H) + (H - 1)) * S) + (S - 1)
    BY <2>1, <2>2, <2>3
  <2>5. (((y * H) + (H - 1)) * S) + (S - 1) = ((y + 1) * (H * S)) - 1
    <3>1. (y * H) + (H - 1) = ((y + 1) * H) - 1 /\ (y + 1) * H \in Int
      BY <1>1, <1>7, Z3
    <3> DEFINE m == (y + 1) * H
    <3>2. m \in Int /\ (y * H) + (H - 1) = m - 1
      BY <3>1
    <3> HIDE DEF m
    <3>3. ((m - 1) * S) + (S - 1) = (m * S) - 1
      BY <1>1, <3>2, Z3
    <3>4. ((y + 1) * H) * S = (y + 1) * (H * S)
      BY <1>1, <1>7, Z3
    <3> QED BY <3>2, <3>3, <3>4 DEF m
  <2>6. (y + 1) * k <= B /\ b = (y + 1) * k
    <3> DEFINE t == (y + 1) * k
    <3>1. t \in Nat
      <4> HIDE DEF k
      <4>1. k \in Nat /\ y + 1 \in Nat
        BY <1>6, <1>7
      <4> QED BY <4>1, TimesNat
    <3>2. e = t - 1
      BY <2>4, <2>5
    <3> HIDE DEF t
    <3>3. t <= B /\ b = t
      BY <1>1, <1>2, <3>1, <3>2
    <3> QED BY <3>3 DEF t
  <2>7. y < z
    <3> HIDE DEF k
    <3> QED BY <1>1, <1>6, <1>7, <2>6, CylinderCounted
  <2> QED BY <1>7, <1>8, <2>6, <2>7 DEF x, y, z, k, H, S, B, e
<1> QED
  BY <1>9, <1>10

\* So it starts in one.
LEMMA StartCounted ==
  ASSUME NEW d, TypeOfDisk(d), NEW a \in 0 .. d.blocks, NEW b \in 0 .. d.blocks, a < b,
         PART_HEAD(ToolChs(d, b - 1)) = d.heads - 1,
         PART_SECTOR(ToolChs(d, b - 1)) = d.sectors,
         ToolCylinder(d, a) <= 1023
  PROVE  ToolCylinder(d, a) < d.blocks \div (d.heads * d.sectors)
<1> DEFINE k == d.heads * d.sectors
           x == ToolCylinder(d, a)
           y == ToolCylinder(d, b - 1)
           z == d.blocks \div k
<1>1. /\ x \in Nat /\ y \in Nat /\ z \in Nat /\ x <= y /\ y <= z
      /\ y <= 1023 => y < z
  BY EndCounted
<1>2. x <= 1023
  OBVIOUS
<1> HIDE DEF x, y, z
<1>3. x < z
  BY <1>1, <1>2
<1> QED BY <1>3 DEF x, z

\* When INT 13,48 calls the geometry valid on a disk whose entries end with
\* cylinders, all of every partition is within the geometry.
THEOREM ValidGeometryReaches == Spec => []ValidReachesPartitions
<1>1. ASSUME GuessInv, pc = "extended", flags, Aligned, disk.blocks <= Capacity32,
             NEW p \in UsedEntries
      PROVE  p.start + p.length <= int13.cylinders * int13.heads * int13.sectors_per_track
  <2> DEFINE C == int13.cylinders
             H == disk.heads
             S == disk.sectors
             k == H * S
             q == disk.blocks \div k
  <2>1. /\ int13.heads = H /\ int13.sectors_per_track = S /\ C = Cylinders(k)
    BY <1>1, AlignedGuess
  <2>2. /\ TypeOfDisk(disk) /\ H \in 1 .. 255 /\ S \in 1 .. 63
    BY <1>1, DiskType DEF GuessInv
  <2>3. p \in Entries(disk) /\ p.type = "used"
    BY <1>1 DEF UsedEntries, GuessInv, TableWritten
  <2>4. PICK a \in 0 .. disk.blocks, b \in 0 .. disk.blocks :
               a < b /\ p = ToolEntry(disk, a, b)
    BY <2>2, <2>3, EntryCases
  <2>5. p.start = a /\ p.length = b - a /\ p.chs_end = ToolChs(disk, b - 1)
    BY <2>4 DEF ToolEntry
  <2>6. PART_HEAD(ToolChs(disk, b - 1)) = H - 1 /\ PART_SECTOR(ToolChs(disk, b - 1)) = S
    BY <1>1, <2>5 DEF Aligned
  <2> DEFINE y == ToolCylinder(disk, b - 1)
  <2>7. /\ y \in Nat /\ q \in Nat /\ y <= q
        /\ y <= 1023 => y < q /\ b = (y + 1) * k
    BY <2>2, <2>4, <2>6, EndCounted
  <2>8. C < 1024 /\ C = IF q > 1024 THEN 1024 ELSE q
    <3>1. flags = ChsValid
      BY <1>1 DEF GuessInv, Answered
    <3>2. ChsValid => C < 1024
      BY SMT DEF ChsValid
    <3>3. int13_capacity32 = disk.blocks
      BY <1>1 DEF int13_capacity32
    <3>4. C = IF q > 1024 THEN 1024 ELSE q
      BY <2>1, <3>3 DEF Cylinders, MaxCylinders
    <3> QED BY <1>1, <3>1, <3>2, <3>4
  <2>9. b \in Nat /\ p.start + p.length = b
    <3>1. disk.blocks \in Nat
      BY <1>1, DiskType DEF GuessInv
    <3> QED BY <2>4, <2>5, <3>1
  <2>10. H \in Nat /\ S \in Nat /\ k \in Nat
    <3>1. H \in Nat /\ S \in Nat
      BY <2>2
    <3> QED BY <3>1, TimesNat
  <2>11. C * H * S = C * k
    <3>1. C \in Nat
      BY <1>1, GeometriesType DEF GuessInv, GInv, TypeOK
    <3> HIDE DEF C, H, S
    <3> QED BY <2>10, <3>1, Z3
  <2> HIDE DEF C, H, S, k, q, y
  <2>12. C = q /\ y + 1 <= C /\ C \in Nat /\ b = (y + 1) * k
    BY <2>7, <2>8
  <2>13. (y + 1) * k <= C * k
    BY <2>7, <2>10, <2>12, TimesMonotone
  <2>14. b <= C * H * S
    BY <2>11, <2>12, <2>13
  <2> QED
    BY <2>1, <2>9, <2>14 DEF C
<1>2. GuessInv => ValidReachesPartitions
  BY <1>1 DEF ValidReachesPartitions
<1> QED
  BY GuessInvariant, <1>2, PTL

\* On a disk whose entries end with cylinders, INT 13,02 for the address of a
\* partition in the table reads the block where the table says it starts.
THEOREM PartitionsAreReadable == Spec => []PartitionsReadable
<1>1. ASSUME GuessInv, pc = "addressed", Aligned, NEW p \in UsedEntries,
             ToolCylinder(disk, p.start) <= 1023, disk.blocks <= Capacity32,
             regs = PackRegs(PART_CYLINDER(p.chs_start), PART_HEAD(p.chs_start),
                             PART_SECTOR(p.chs_start))
      PROVE  lba = p.start
  <2> DEFINE H == disk.heads
             S == disk.sectors
             k == H * S
  <2>1. /\ disk.small /\ int13.heads = H /\ int13.sectors_per_track = S
        /\ int13.cylinders = Cylinders(k)
    BY <1>1, AlignedGuess
  <2>2. /\ TypeOfDisk(disk) /\ H \in 1 .. 255 /\ S \in 1 .. 63 /\ disk.blocks \in Nat
        /\ H \in Nat \ {0} /\ S \in Nat \ {0}
    <3>1. TypeOfDisk(disk) /\ H \in 1 .. 255 /\ S \in 1 .. 63 /\ disk.blocks \in Nat
      BY <1>1, DiskType DEF GuessInv
    <3> HIDE DEF H, S
    <3> QED BY <3>1
  <2>3. p \in Entries(disk) /\ p.type = "used"
    BY <1>1 DEF UsedEntries, GuessInv, TableWritten
  <2>4. PICK a \in 0 .. disk.blocks, b \in 0 .. disk.blocks :
               a < b /\ p = ToolEntry(disk, a, b)
    BY <2>2, <2>3, EntryCases
  <2>5. p.start = a /\ p.chs_start = ToolChs(disk, a) /\ p.chs_end = ToolChs(disk, b - 1)
    BY <2>4 DEF ToolEntry
  <2>6. PART_HEAD(ToolChs(disk, b - 1)) = H - 1 /\ PART_SECTOR(ToolChs(disk, b - 1)) = S
    BY <1>1, <2>5 DEF Aligned
  <2> DEFINE c == ToolCylinder(disk, a)
             h == (a \div S) % H
             s == a % S
             t == s + 1
  <2>7. a \in Nat /\ c \in Nat /\ c <= 1023
    <3>1. a \in Nat /\ c <= 1023
      BY <1>1, <2>2, <2>5, SMTT(30)
    <3>2. c \in Nat
      BY <2>2, <3>1, ToolDigitsOf
    <3> QED BY <3>1, <3>2
  <2>8. c < disk.blocks \div k
    BY <2>2, <2>4, <2>6, <2>7, StartCounted
  <2>9. regs = PackRegs(c, h, t)
    <3>1. /\ PART_CYLINDER(ToolChs(disk, a)) = c
          /\ PART_HEAD(ToolChs(disk, a)) = h
          /\ PART_SECTOR(ToolChs(disk, a)) = t
      BY <2>2, <2>7, ToolChsDecoded
    <3> QED BY <1>1, <2>5, <3>1
  <2>10. /\ h \in 0 .. H - 1 /\ s \in 0 .. S - 1
         /\ a = (((c * H) + h) * S) + s
    BY <2>2, <2>7, ToolDigitsOf, SMTT(30)
  <2>11. c < int13.cylinders
    <3>1. int13_capacity32 = disk.blocks
      BY <1>1 DEF int13_capacity32
    <3> DEFINE q == disk.blocks \div k
    <3>2. int13.cylinders = IF q > 1024 THEN 1024 ELSE q
      BY <2>1, <3>1 DEF Cylinders, MaxCylinders
    <3>3. q \in Nat /\ c < q
      <4>1. k \in Nat \ {0}
        BY <2>2, TimesPositive
      <4> HIDE DEF k
      <4> QED BY <2>2, <2>8, <4>1, DivMod
    <3> HIDE DEF q, c
    <3> QED BY <2>7, <3>2, <3>3
  <2>12. lba = IF AddressRefused(regs) THEN Refused ELSE AddressedLba(regs)
    BY <1>1, <2>1 DEF GuessInv, Answered
  <2>13. AddressRefused(regs) <=> \/ Cylinder(regs) >= int13.cylinders
                                  \/ regs.dh >= H
                                  \/ Sector(regs) < 1 \/ Sector(regs) > S
    BY <2>1 DEF AddressRefused
  <2>22. GInv /\ regs \in Registers /\ ProductFits
    <3>1. GInv /\ regs \in Registers
      BY <1>1 DEF GuessInv, GInv, TypeOK
    <3>2. H \in 1 .. 256
      <4> HIDE DEF H
      <4> QED BY <2>2
    <3>3. H * S < Word
      BY <2>2, <3>2, SmallProduct
    <3> QED BY <2>1, <3>1, <3>3 DEF ProductFits
  <2>14. int13.cylinders \in Nat
    BY <1>1, GeometriesType DEF GuessInv, GInv, TypeOK
  <2> HIDE DEF H, S, k, c, h, s
  <2>15. c \in CylinderField /\ t \in SectorField
    BY <2>2, <2>7, <2>10 DEF CylinderField, SectorField
  <2>16. Cylinder(regs) = c /\ regs.dh = h /\ Sector(regs) = t
    <3> HIDE DEF t
    <3> QED BY <2>9, <2>15, RegsRoundTrip
  <2>17. ~AddressRefused(regs)
    BY <2>2, <2>7, <2>10, <2>11, <2>13, <2>14, <2>16
  <2>23. AddressedLba(regs) = (((Cylinder(regs) * int13.heads) + regs.dh)
                               * int13.sectors_per_track) + Sector(regs) - 1
    BY <2>17, <2>22, AddressOnDisk
  <2>18. lba = (((c * H) + h) * S) + t - 1
    BY <2>1, <2>12, <2>16, <2>17, <2>23
  <2> DEFINE v == ((c * H) + h) * S
  <2>19. v \in Int
    <3>1. c * H \in Nat
      BY <2>2, <2>7, TimesNat
    <3>2. (c * H) + h \in Nat
      BY <2>2, <2>10, <3>1
    <3> QED BY <2>2, <3>2, TimesNat
  <2>20. a = v + s /\ lba = v + (s + 1) - 1
    BY <2>10, <2>18
  <2> HIDE DEF v
  <2>21. lba = a
    BY <2>2, <2>10, <2>19, <2>20
  <2> QED
    BY <2>5, <2>21
<1>2. GuessInv => PartitionsReadable
  BY <1>1 DEF PartitionsReadable
<1> QED
  BY GuessInvariant, <1>2, PTL
=============================================================================
