---------------------------- MODULE Int13Geometry ----------------------------
(***************************************************************************)
(* Drive geometry in arch/x86/interface/pcbios/int13.c: int13_hook guesses *)
(* cylinders, heads and sectors from the partition table or the size of    *)
(* the disk; INT 13,08 and INT 13,48 report them, and INT 13,02 turns an   *)
(* address in cylinder, head and sector into a block number.               *)
(*                                                                         *)
(* The guess takes four entries of any bytes for a table: the code does    *)
(* not look for the magic number of a boot record.  Here each entry is one *)
(* that a tool with a geometry of its own wrote, the protective entry of a *)
(* GUID partition table, or something else.  int13.c computes in unsigned  *)
(* 32-bit integers, which is modelled as arithmetic modulo Word.           *)
(***************************************************************************)
EXTENDS Integers

CONSTANTS
    Disks,                   \* the disks: see TypeOfDisk
    Word,                    \* the number of unsigned integers, 2^32 in the code
    INT13_MAX_CHS_SECTORS    \* 15482880 in the code

Capacity32 == Word - 1

\* The three bytes of an address, and an entry that no tool need have written.
AnyChs == [head : 0 .. 255, cyl_sector : 0 .. 255, cyl : 0 .. 255]
AnyEntry == [type : {"other"}, start : 0 .. Capacity32, length : 0 .. Capacity32,
             chs_start : AnyChs, chs_end : AnyChs]

\* A disk of sectors or of larger blocks, on a floppy or a hard disk number, with
\* the geometry of the tool that wrote its table, the places it may cut it at, and
\* the other things that may be where the entries are.
TypeOfDisk(d) ==
    /\ d.blocks \in Nat \ {0}
    /\ d.fdd \in BOOLEAN /\ d.small \in BOOLEAN
    /\ d.heads \in 1 .. 255 /\ d.sectors \in 1 .. 63
    /\ d.cuts \subseteq (0 .. d.blocks) \cap (0 .. Capacity32)
    /\ d.others \subseteq AnyEntry

ASSUME GeometryAssumption ==
    /\ \A d \in Disks : TypeOfDisk(d)
    /\ Word \in Nat /\ Word > 16384
    /\ INT13_MAX_CHS_SECTORS \in Nat

VARIABLES
    disk,     \* the disk
    table,    \* its partition table
    pc,       \* "scan", "caller", "addressed", "parameters", "extended", "undefined"
    i,        \* the entry int13_guess_geometry_hdd looks at
    heads,    \* *heads
    sectors,  \* *sectors
    int13,    \* cylinders, heads and sectors_per_track of struct int13_data
    regs,     \* the registers ch, cl and dh
    lba,      \* the block an accepted INT 13,02 call addresses, or Refused
    flags     \* whether INT 13,48 sets INT13_FL_CHS_VALID

vars == <<disk, table, pc, i, heads, sectors, int13, regs, lba, flags>>

Refused == -1
NoRegs == [ch |-> 0, cl |-> 0, dh |-> 0]

-----------------------------------------------------------------------------
(* The partition table.                                                    *)

\* An address as a tool with geometry d.heads by d.sectors writes it: head,
\* sector with two bits of the cylinder, and cylinder.  A cylinder past 1023 is
\* written as the last address there is.
ChsBytes(c, h, s) == [head |-> h, cyl_sector |-> ((c \div 256) * 64) + s, cyl |-> c % 256]

ToolCylinder(d, n) == n \div (d.heads * d.sectors)

ToolChs(d, n) ==
    IF ToolCylinder(d, n) > 1023 THEN ChsBytes(1023, d.heads - 1, d.sectors)
    ELSE ChsBytes(ToolCylinder(d, n), (n \div d.sectors) % d.heads, (n % d.sectors) + 1)

\* The entry for the blocks from a up to b.
ToolEntry(d, a, b) ==
    [type |-> "used", start |-> a, length |-> b - a,
     chs_start |-> ToolChs(d, a), chs_end |-> ToolChs(d, b - 1)]

Unused == [type |-> "none", start |-> 0, length |-> 0,
           chs_start |-> ChsBytes(0, 0, 0), chs_end |-> ChsBytes(0, 0, 0)]

\* The entry that protects a disk with a GUID partition table.
Protective == [type |-> "protective", start |-> 1, length |-> Capacity32,
               chs_start |-> ChsBytes(0, 0, 2), chs_end |-> ChsBytes(1023, 255, 63)]

Entries(d) ==
    {Unused, Protective} \cup d.others \cup
    {ToolEntry(d, p[1], p[2]) : p \in {q \in d.cuts \X d.cuts : q[1] < q[2]}}

PART_HEAD(chs) == chs.head
PartSectorUnmasked(chs) == chs.cyl_sector

PART_SECTOR(chs) == chs.cyl_sector % 64
PART_CYLINDER(chs) == chs.cyl + ((chs.cyl_sector \div 64) * 256)

-----------------------------------------------------------------------------
(* Guessing.                                                               *)

\* A drive whose blocks are not sectors gets no geometry.
Init ==
    /\ disk \in Disks
    /\ table \in [1 .. 4 -> IF disk.fdd \/ ~disk.small THEN {Unused} ELSE Entries(disk)]
    /\ pc = IF disk.small THEN "scan" ELSE "caller"
    /\ i = 1
    /\ heads = 0 /\ sectors = 0
    /\ int13 = [cylinders |-> 0, heads |-> 0, sectors_per_track |-> 0]
    /\ regs = NoRegs /\ lba = Refused /\ flags = FALSE

Larger(a, b) == IF a > b THEN a ELSE b

\* An entry that starts in cylinder 0 gives the number of sectors away; the
\* difference is taken in unsigned integers.
SectorsFromStart(p, old) ==
    IF PART_CYLINDER(p.chs_start) = 0 /\ PART_HEAD(p.chs_start) # 0
    THEN ((p.start + 1 - PART_SECTOR(p.chs_start)) % Word) \div PART_HEAD(p.chs_start)
    ELSE old

\* One turn of the loop of int13_guess_geometry_hdd.
ScanHeadNotCounted ==
    LET p == table[i]
    IN  IF p.type = "none" THEN UNCHANGED <<heads, sectors>>
        ELSE /\ heads' = Larger(PART_HEAD(p.chs_end), heads)
             /\ sectors' = Larger(PART_SECTOR(p.chs_end), SectorsFromStart(p, sectors))

ScanEntry ==
    LET p == table[i]
    IN  IF p.type = "none" THEN UNCHANGED <<heads, sectors>>
        ELSE /\ heads' = Larger(PART_HEAD(p.chs_end) + 1, heads)
             /\ sectors' = Larger(PART_SECTOR(p.chs_end), SectorsFromStart(p, sectors))

int13_guess_geometry_hdd ==
    /\ pc = "scan" /\ ~disk.fdd /\ i <= 4
    /\ ScanEntry
    /\ i' = i + 1
    /\ UNCHANGED <<disk, table, pc, int13, regs, lba, flags>>

\* The recognised floppy geometries: cylinders, heads, sectors.
int13_fdd_geometries ==
    {<<40, 1, 8>>, <<40, 1, 9>>, <<40, 2, 8>>, <<80, 2, 8>>, <<80, 2, 9>>, <<80, 2, 15>>,
     <<80, 2, 18>>, <<80, 2, 20>>, <<80, 2, 21>>, <<82, 2, 21>>, <<83, 2, 21>>,
     <<80, 2, 22>>, <<80, 2, 23>>, <<80, 2, 24>>, <<80, 2, 36>>, <<80, 2, 39>>,
     <<80, 2, 40>>, <<80, 2, 44>>, <<80, 2, 48>>}

\* No two of them have the same size, so the first match is the only one.  The
\* size compared is the low word of the capacity.
int13_guess_geometry_fdd ==
    LET match == {g \in int13_fdd_geometries : g[1] * g[2] * g[3] = disk.blocks % Word}
    IN  IF match = {} THEN [heads |-> 2, sectors |-> 18]
        ELSE LET g == CHOOSE g \in match : TRUE IN [heads |-> g[2], sectors |-> g[3]]

GuessedHdd ==
    [heads   |-> IF heads = 0 THEN 255 ELSE heads,
     sectors |-> IF sectors = 0 THEN 63 ELSE sectors]

int13_capacity32 == IF disk.blocks <= Capacity32 THEN disk.blocks ELSE Capacity32

MaxCylinders == 1024

\* Cylinders that lie on the disk as a whole, at most 1024.
Cylinders(perCyl) ==
    LET n == int13_capacity32 \div perCyl IN IF n > MaxCylinders THEN MaxCylinders ELSE n

GuessedGeometry == IF disk.fdd THEN int13_guess_geometry_fdd ELSE GuessedHdd

\* The blocks of a cylinder, multiplied in one word: the product may wrap around.
BlocksPerCyl(g) == (g.heads * g.sectors) % Word

\* The end of int13_guess_geometry.
int13_guess_geometry ==
    /\ pc = "scan"
    /\ disk.fdd \/ i = 5
    /\ BlocksPerCyl(GuessedGeometry) # 0
    /\ int13' = [cylinders |-> Cylinders(BlocksPerCyl(GuessedGeometry)),
                 heads |-> GuessedGeometry.heads,
                 sectors_per_track |-> GuessedGeometry.sectors]
    /\ pc' = "caller"
    /\ UNCHANGED <<disk, table, i, heads, sectors, regs, lba, flags>>

\* A product of 0 fails the assertion and is divided by all the same.
DivideByZero ==
    /\ pc = "scan"
    /\ disk.fdd \/ i = 5
    /\ BlocksPerCyl(GuessedGeometry) = 0
    /\ pc' = "undefined"
    /\ UNCHANGED <<disk, table, i, heads, sectors, int13, regs, lba, flags>>

Undefined == pc = "undefined" /\ UNCHANGED vars

-----------------------------------------------------------------------------
(* Calls.                                                                  *)

\* The address in the registers, and what int13_rw_sectors makes of it.
Cylinder(r) == ((r.cl \div 64) * 256) + r.ch
Sector(r) == r.cl % 64

AddressRefusedOffByOne(r) ==
    \/ Cylinder(r) > int13.cylinders
    \/ r.dh >= int13.heads
    \/ Sector(r) < 1 \/ Sector(r) > int13.sectors_per_track

AddressRefused(r) ==
    \/ Cylinder(r) >= int13.cylinders
    \/ r.dh >= int13.heads
    \/ Sector(r) < 1 \/ Sector(r) > int13.sectors_per_track

AddressedLbaByHead(r) ==
    (((((r.dh * int13.cylinders) + Cylinder(r)) % Word) * int13.sectors_per_track) + Sector(r) - 1)
        % Word

\* Computed in unsigned integers from beginning to end.
AddressedLba(r) ==
    (((((Cylinder(r) * int13.heads) + r.dh) % Word) * int13.sectors_per_track) + Sector(r) - 1)
        % Word

Registers == [ch : 0 .. 255, cl : 0 .. 255, dh : 0 .. 255]

PackRegs(c, h, s) == [ch |-> c % 256, cl |-> (((c \div 256) % 4) * 64) + s, dh |-> h]

\* Addresses at and past the edges of the geometry, and where partitions start.
Addresses ==
    {PackRegs(c, h, s) : c \in {0, int13.cylinders - 1, int13.cylinders} \cap 0 .. 1023,
                         h \in {0, int13.heads - 1, int13.heads} \cap 0 .. 255,
                         s \in {0, 1, int13.sectors_per_track,
                                int13.sectors_per_track + 1} \cap 0 .. 63}
    \cup {PackRegs(PART_CYLINDER(table[n].chs_start), PART_HEAD(table[n].chs_start),
                   PART_SECTOR(table[n].chs_start)) : n \in 1 .. 4}

\* The part of int13_rw_sectors before the transfer.
int13_rw_sectors ==
    /\ pc = "caller"
    /\ \E r \in Addresses :
          /\ regs' = r
          /\ lba' = IF ~disk.small \/ AddressRefused(r) THEN Refused ELSE AddressedLba(r)
    /\ pc' = "addressed"
    /\ UNCHANGED <<disk, table, i, heads, sectors, int13, flags>>

\* INT 13,08: the last cylinder, head and sector; drives whose blocks are not
\* sectors are refused.  The subtraction wraps around
\* for a disk without cylinders, and the registers keep the low bits; cl is the
\* OR of two fields that overlap when a track has more than 63 sectors.
OrBits(a, b) == IF a = b \/ b = 0 THEN a ELSE IF a = 0 THEN b ELSE 3

PackedCl(c, s) == (OrBits(c \div 256, (s \div 64) % 4) * 64) + (s % 64)

ParametersSectorZeroBased ==
    LET max_cylinder == (int13.cylinders - 1) % 1024
    IN  [ch |-> max_cylinder % 256,
         cl |-> PackedCl(max_cylinder, int13.sectors_per_track - 1),
         dh |-> (int13.heads - 1) % 256]

Parameters ==
    LET max_cylinder == (int13.cylinders - 1) % 1024
    IN  [ch |-> max_cylinder % 256,
         cl |-> PackedCl(max_cylinder, int13.sectors_per_track),
         dh |-> (int13.heads - 1) % 256]

int13_get_parameters ==
    /\ pc = "caller"
    /\ disk.small
    /\ regs' = Parameters
    /\ pc' = "parameters"
    /\ UNCHANGED <<disk, table, i, heads, sectors, int13, lba, flags>>

ChsValidAlways == disk.blocks <= INT13_MAX_CHS_SECTORS

ChsValid == int13.cylinders < 1024 /\ disk.blocks <= INT13_MAX_CHS_SECTORS

\* INT 13,48, as far as it is about the geometry.
int13_get_extended_parameters ==
    /\ pc = "caller"
    /\ flags' = ChsValid
    /\ pc' = "extended"
    /\ UNCHANGED <<disk, table, i, heads, sectors, int13, regs, lba>>

Return ==
    /\ pc \in {"addressed", "parameters", "extended"}
    /\ pc' = "caller"
    /\ regs' = NoRegs /\ lba' = Refused /\ flags' = FALSE
    /\ UNCHANGED <<disk, table, i, heads, sectors, int13>>

Next ==
    \/ int13_guess_geometry_hdd \/ int13_guess_geometry \/ DivideByZero \/ Undefined
    \/ int13_rw_sectors \/ int13_get_parameters \/ int13_get_extended_parameters
    \/ Return

Spec == Init /\ [][Next]_vars
-----------------------------------------------------------------------------
Geometries == [cylinders : 0 .. MaxCylinders, heads : Nat, sectors_per_track : Nat]

\* Every variable has its type, and the registers their width.
TypeOK ==
    /\ disk \in Disks
    /\ pc \in {"scan", "caller", "addressed", "parameters", "extended", "undefined"}
    /\ i \in 1 .. 5
    /\ heads \in Nat /\ sectors \in Nat
    /\ int13 \in Geometries
    /\ regs \in Registers
    /\ lba \in Nat \cup {Refused}
    /\ flags \in BOOLEAN

UsedEntries == {table[n] : n \in {k \in 1 .. 4 : table[k].type = "used"}}
ToolWroteAll == \A n \in 1 .. 4 : table[n].type \in {"none", "used"}

\* The tool cut the disk at the ends of cylinders, as such tools do, and used it.
Aligned ==
    /\ ToolWroteAll
    /\ UsedEntries # {}
    /\ \A p \in UsedEntries :
          PART_HEAD(p.chs_end) = disk.heads - 1 /\ PART_SECTOR(p.chs_end) = disk.sectors

\* One entry that ends with a cylinder is enough to recover the geometry of the
\* tool, in whichever of the four places it is.
GuessRecoversTool ==
    (pc # "scan" /\ disk.small /\ ~disk.fdd /\ Aligned) =>
        int13.heads = disk.heads /\ int13.sectors_per_track = disk.sectors

\* On such a disk an INT 13,02 call for the address of a partition in the table
\* reads the block the table says the partition starts at (the boot sector that
\* boot code loads by that address).
PartitionsReadable ==
    (pc = "addressed" /\ Aligned) =>
        \A p \in UsedEntries :
            (/\ ToolCylinder(disk, p.start) <= 1023
             /\ disk.blocks <= Capacity32
             /\ regs = PackRegs(PART_CYLINDER(p.chs_start), PART_HEAD(p.chs_start),
                                PART_SECTOR(p.chs_start)))
            => lba = p.start

\* The geometry is one whose cylinders int13_guess_geometry could count.
ProductFits == int13.heads * int13.sectors_per_track < Word

\* An address that int13_rw_sectors accepts lies on the disk, whatever was guessed
\* from whatever was in the place of a partition table, as long as the product of
\* heads and sectors did not wrap around; when it did, addresses past the end of
\* the disk are accepted.
AcceptedOnDisk == (pc = "addressed" /\ lba # Refused /\ ProductFits) => lba < disk.blocks

\* A table in which nothing but tools has written, or none, leads to a geometry that
\* fits into INT 13 calls, and never to a division by zero.
WrittenTableFits ==
    ((\A n \in 1 .. 4 : table[n].type # "other") /\ pc # "scan") =>
        /\ pc # "undefined"
        /\ int13.heads <= 256 /\ int13.sectors_per_track <= 63

\* What INT 13,08 reports is the last address that INT 13,02 accepts, and it is the
\* end of the last cylinder.  The disk has a whole cylinder, and the guess is one
\* that fits into six bits.
ParametersAreLast ==
    (pc = "parameters" /\ int13.cylinders > 0 /\ int13.sectors_per_track <= 63) =>
        /\ ~AddressRefused(regs)
        /\ AddressedLba(regs) =
              (int13.cylinders * int13.heads * int13.sectors_per_track) - 1

\* When INT 13,48 calls the geometry of a disk valid that a tool has cut at the ends
\* of cylinders, all of every partition can be reached by cylinder, head and sector.
ValidReachesPartitions ==
    (pc = "extended" /\ flags /\ Aligned /\ disk.blocks <= Capacity32) =>
        \A p \in UsedEntries :
            p.start + p.length <= int13.cylinders * int13.heads * int13.sectors_per_track
=============================================================================
