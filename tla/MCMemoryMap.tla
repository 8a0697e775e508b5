----------------------------- MODULE MCMemoryMap -----------------------------
(* BIOSes for MemoryMap: an ordinary map; a map with a reserved piece,     *)
(* memory above 2^32 and adjacent entries; one whose first entry is not    *)
(* memory, and one without memory at 1MB, for both of which the program    *)
(* makes up a map of its own.  All list base memory before the rest.       *)
EXTENDS MemoryMap, TLC

Ram(a, z) == [start |-> a, end |-> z, type |-> "ram"]
Reserved(a, z) == [start |-> a, end |-> z, type |-> "reserved"]
Disabled(a, z) == [start |-> a, end |-> z, type |-> "disabled"]

BiosMaps ==
    {<<Ram(0, 3), Reserved(3, 6), Ram(6, 22)>>,
     <<Ram(0, 4), Ram(6, 10), Ram(10, 13), Reserved(13, 14), Ram(14, 14),
       Ram(14, 22), Disabled(22, 24), Ram(32, 36)>>,
     <<Reserved(4, 6), Ram(0, 4), Ram(6, 22)>>,
     <<Ram(0, 1), Reserved(1, 2), Ram(2, 4), Ram(6, 22)>>}

(* The sizes agree with the map: in the second one the memory above 1MB    *)
(* ends at 13.                                                             *)
SizesOf(map) ==
    [low |-> 6, high |-> IF \E i \in DOMAIN map : map[i] = Ram(6, 22) THEN 5 ELSE 0]

Bios(map, carry, e801, ext) ==
    [map |-> map, carry |-> carry, fbms |-> 3, e801 |-> e801, ext |-> ext,
     conf |-> SizesOf(map), ext88 |-> 7]

MCBioses ==
    UNION {{Bios(map, TRUE, TRUE, [low |-> 0, high |-> 0]),
            Bios(map, FALSE, TRUE, SizesOf(map))} : map \in BiosMaps}
    \cup {Bios(<<Ram(0, 1), Reserved(1, 2), Ram(2, 4), Ram(6, 22)>>, TRUE, FALSE,
               [low |-> 0, high |-> 0])}

(* The callers are alike, and so are the owners of the blocks.             *)
Symmetry == Permutations(Callers) \cup Permutations(Ids)
=============================================================================
