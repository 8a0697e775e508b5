---------------------------- MODULE MemoryWindows ----------------------------
(***************************************************************************)
(* The memory the program hides from the memory map, and the four windows  *)
(* that remain (e820mangler.S, hidemem.c).  A region is the set of         *)
(* addresses from start up to end, end excluded.  Addresses are counted in *)
(* small units.                                                            *)
(***************************************************************************)
EXTENDS Integers

CONSTANTS A000,        \* the 640kB mark
          OneMB,
          SixteenMB,
          Block,       \* 64kB, the unit of the memory above 16MB
          Page,        \* ALIGN_HIDDEN and EM_ALIGN
          TextStart,   \* _textdata, where relocate() has put it
          TextEnd,     \* _etextdata
          EndOfMemory  \* the largest address

ASSUME WindowsAssumption ==
    /\ {A000, OneMB, SixteenMB, Block, Page, TextStart, TextEnd, EndOfMemory}
          \subseteq Nat \ {0}
    /\ A000 < OneMB
    /\ OneMB < SixteenMB
    /\ OneMB < TextStart
    /\ TextStart <= TextEnd
    /\ TextEnd <= EndOfMemory
    /\ TextStart % Page = 0
    /\ TextEnd % Page = 0

RoundDown(x) == x - (x % Page)
RoundUp(x) == RoundDown(x + Page - 1)

(* What is hidden: base memory from base to the 640kB mark, the external   *)
(* heap, and .text and .data.                                              *)
HideUmalloc(hid, start, end) ==
    [hid EXCEPT !.umalloc = [start |-> RoundDown(start),
                             end   |-> RoundUp(end)]]

Windows(hid) ==
    <<[start |-> 0, end |-> hid.base],
      [start |-> A000, end |-> hid.umalloc.start],
      [start |-> hid.umalloc.end, end |-> hid.textdata.start],
      [start |-> hid.textdata.end, end |-> EndOfMemory]>>

Later(x, y) == IF x >= y THEN x ELSE y
Earlier(x, y) == IF x <= y THEN x ELSE y

window_region(r, w) ==
    LET start == Later(r.start, w.start)
        end == Earlier(r.end, w.end)
    IN  [start |-> start, end |-> Later(start, end)]

Length(r) == r.end - r.start

(* The size of the memory above 1MB, cut to the second window.             *)
patch_1m(hid, size) ==
    Length(window_region([start |-> OneMB, end |-> OneMB + size],
                         Windows(hid)[2]))

patch_16m_Unpatched(hid, blocks) == blocks

patch_16m(hid, blocks) ==
    Length(window_region([start |-> SixteenMB,
                          end   |-> SixteenMB + Block * blocks],
                         Windows(hid)[2])) \div Block

(* Memory between 1MB and 16MB, and above; the second is gone when the     *)
(* first has been cut.                                                     *)
patch_1m_16m(hid, sizes) ==
    LET low == patch_1m(hid, sizes.low)
    IN  [low  |-> low,
         high |-> IF low = SixteenMB - OneMB THEN patch_16m(hid, sizes.high)
                                             ELSE 0]

HiddenAt(hid, a) ==
    \/ hid.base <= a /\ a < A000
    \/ hid.umalloc.start <= a /\ a < hid.umalloc.end
    \/ hid.textdata.start <= a /\ a < hid.textdata.end

(* The hidden regions are in the order in which the windows take them: the *)
(* external heap lies below .text, as the assertion in hide_umalloc says.  *)
Ordered(h) ==
    /\ h.base \in Nat /\ h.base <= A000
    /\ h.umalloc.start \in Nat /\ h.umalloc.end \in Nat
    /\ h.textdata.start \in Nat /\ h.textdata.end \in Nat
    /\ A000 <= h.umalloc.start
    /\ h.umalloc.start <= h.umalloc.end
    /\ h.umalloc.end <= h.textdata.start
    /\ h.textdata.start <= h.textdata.end
    /\ h.textdata.end <= EndOfMemory

=============================================================================
