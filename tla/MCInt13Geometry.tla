--------------------------- MODULE MCInt13Geometry ---------------------------
(***************************************************************************)
(* Geometry for TLC, with words of 15 bits: hard disks small enough to     *)
(* enumerate their partition tables, one with more cylinders than fit in   *)
(* eight bits, one with more than 1024, two of the default geometry (one   *)
(* of more blocks than fit in a word), one smaller than a cylinder; floppy *)
(* disks; and a disk whose blocks are not sectors.  One hard disk may hold *)
(* entries that no tool wrote, with which the product of heads and sectors *)
(* is large, wraps around, or becomes 0.                                   *)
(***************************************************************************)
EXTENDS Int13Geometry

Hdd(n, h, s, places) ==
    [blocks |-> n, fdd |-> FALSE, small |-> TRUE, heads |-> h, sectors |-> s, cuts |-> places,
     others |-> {}]

Fdd(n) == [Hdd(n, 2, 18, {}) EXCEPT !.fdd = TRUE]

Other(n) ==
    [type |-> "other", start |-> n, length |-> 0,
     chs_start |-> ChsBytes(0, 1, 1), chs_end |-> ChsBytes(0, 1, 1)]

MCDisks ==
    {Hdd(30, 3, 4, {4, 5, 12, 24}),
     [Hdd(40, 5, 3, {3, 15, 30}) EXCEPT !.others = {Other(0), Other(200), Other(16384),
                                                    Other(16385)}],
     Hdd(300, 1, 1, {1, 200, 290}), Hdd(2100, 2, 1, {1, 513, 2060}),
     Hdd(32700, 255, 63, {63, 16065, 32130}), Hdd(50000, 255, 63, {63, 16065, 32130}),
     Hdd(1000, 255, 63, {}),
     Fdd(2880), Fdd(320), Fdd(32768 + 720), Fdd(10),
     [Hdd(3000, 255, 63, {}) EXCEPT !.small = FALSE]}
=============================================================================
