--------------------------- MODULE MemoryMapProofs ---------------------------
(***************************************************************************)
(* What the memory windows show and hide, for any sizes and any addresses. *)
(***************************************************************************)
EXTENDS MemoryMap, TLAPS

In(a, r) == r.start <= a /\ a < r.end

(* Cutting a region to a window leaves the addresses in both.              *)
LEMMA WindowIsIntersection ==
    ASSUME NEW a \in Nat, NEW s \in Nat, NEW e \in Nat, NEW ws \in Nat, NEW we \in Nat
    PROVE  In(a, window_region([start |-> s, end |-> e], [start |-> ws, end |-> we]))
           <=> s <= a /\ a < e /\ ws <= a /\ a < we
BY DEF In, window_region, Later, Earlier

(* The four pieces that get_windowed_e820 makes of an entry of the BIOS's  *)
(* map cover exactly the addresses of the entry that are not hidden, and   *)
(* no address is in two of them.                                           *)
THEOREM WindowsShowTheRest ==
    ASSUME NEW h, Ordered(h),
           NEW s \in Nat, NEW e \in Nat, e <= EndOfMemory, NEW a \in Nat
    PROVE  LET piece(w) == window_region([start |-> s, end |-> e], Windows(h)[w])
           IN  /\ (\E w \in 1 .. 4 : In(a, piece(w)))
                     <=> s <= a /\ a < e /\ ~HiddenAt(h, a)
               /\ \A w, x \in 1 .. 4 :
                     In(a, piece(w)) /\ In(a, piece(x)) => w = x
<1> DEFINE piece(w) == window_region([start |-> s, end |-> e], Windows(h)[w])
<1>a. A000 \in Nat /\ EndOfMemory \in Nat
  BY WindowsAssumption
<1>1. In(a, piece(1)) <=> s <= a /\ a < e /\ a < h.base
  <2>1. Windows(h)[1] = [start |-> 0, end |-> h.base]
    BY DEF Windows
  <2> QED BY <2>1, WindowIsIntersection DEF Ordered
<1>2. In(a, piece(2)) <=> s <= a /\ a < e /\ A000 <= a /\ a < h.umalloc.start
  <2>1. Windows(h)[2] = [start |-> A000, end |-> h.umalloc.start]
    BY DEF Windows
  <2> QED BY <2>1, <1>a, WindowIsIntersection DEF Ordered
<1>3. In(a, piece(3)) <=> s <= a /\ a < e /\ h.umalloc.end <= a /\ a < h.textdata.start
  <2>1. Windows(h)[3] = [start |-> h.umalloc.end, end |-> h.textdata.start]
    BY DEF Windows
  <2> QED BY <2>1, WindowIsIntersection DEF Ordered
<1>4. In(a, piece(4)) <=> s <= a /\ a < e /\ h.textdata.end <= a /\ a < EndOfMemory
  <2>1. Windows(h)[4] = [start |-> h.textdata.end, end |-> EndOfMemory]
    BY DEF Windows
  <2> QED BY <2>1, <1>a, WindowIsIntersection DEF Ordered
<1> HIDE DEF piece
<1>5. (\E w \in 1 .. 4 : In(a, piece(w)))
         <=> In(a, piece(1)) \/ In(a, piece(2)) \/ In(a, piece(3)) \/ In(a, piece(4))
  <2>1. 1 .. 4 = {1, 2, 3, 4}
    OBVIOUS
  <2> QED BY <2>1
<1>6. (\E w \in 1 .. 4 : In(a, piece(w))) <=> s <= a /\ a < e /\ ~HiddenAt(h, a)
  BY <1>a, <1>1, <1>2, <1>3, <1>4, <1>5 DEF HiddenAt, Ordered
<1>7. ASSUME NEW w \in 1 .. 4, NEW x \in 1 .. 4, In(a, piece(w)), In(a, piece(x))
      PROVE  w = x
  <2>1. w \in {1, 2, 3, 4} /\ x \in {1, 2, 3, 4}
    OBVIOUS
  <2> QED BY <1>a, <1>1, <1>2, <1>3, <1>4, <1>7, <2>1 DEF Ordered
<1> QED BY <1>6, <1>7 DEF piece

(* Whole blocks of the length l make up at most l.                         *)
LEMMA BlocksFit ==
    ASSUME NEW l \in Nat, NEW b \in Nat \ {0}
    PROVE  l \div b \in Nat /\ b * (l \div b) <= l
BY Z3

(* The second window ends where the hidden memory begins, so that memory   *)
(* counted from 1MB or above up to the length left in it is not hidden.    *)
LEMMA CountedIsVisible ==
    ASSUME NEW h, Ordered(h), NEW from \in Nat, A000 <= from, NEW size \in Nat,
           NEW l, l = Length(window_region([start |-> from, end |-> from + size],
                                           Windows(h)[2]))
    PROVE  /\ l \in Nat /\ l <= size
           /\ l > 0 => from + l <= h.umalloc.start
<1>1. Windows(h)[2] = [start |-> A000, end |-> h.umalloc.start]
  BY DEF Windows
<1>2. A000 \in Nat
  BY WindowsAssumption
<1> QED BY <1>1, <1>2 DEF window_region, Later, Earlier, Length, Ordered

(* Both sizes of a pair of INT 15,e801, after patch_1m_16m: the memory they *)
(* count together from 1MB on ends below the hidden memory.                *)
LEMMA PairIsVisible ==
    ASSUME NEW h, Ordered(h), NEW sizes \in [low : Nat, high : Nat],
           NEW p, p = patch_1m_16m(h, sizes)
    PROVE  /\ p.low + Block * p.high \in Nat
           /\ p.low + Block * p.high > 0 =>
                 OneMB + (p.low + Block * p.high) <= h.umalloc.start
<1> DEFINE l == patch_1m(h, sizes.low)
<1> DEFINE bytes == Block * sizes.high
<1> DEFINE m == Length(window_region([start |-> SixteenMB,
                                      end   |-> SixteenMB + bytes], Windows(h)[2]))
<1>a. /\ A000 \in Nat /\ OneMB \in Nat /\ SixteenMB \in Nat
      /\ Block \in Nat \ {0}
      /\ A000 <= OneMB /\ A000 <= SixteenMB /\ OneMB < SixteenMB
  BY WindowsAssumption
<1>b. h.umalloc.start \in Nat
  BY DEF Ordered
<1>1. l \in Nat /\ (l > 0 => OneMB + l <= h.umalloc.start)
  BY <1>a, CountedIsVisible DEF patch_1m
<1>2. bytes \in Nat
  BY <1>a, Z3
<1>3. m \in Nat /\ (m > 0 => SixteenMB + m <= h.umalloc.start)
  <2> HIDE DEF bytes
  <2> QED BY <1>a, <1>2, CountedIsVisible
<1>4. patch_16m(h, sizes.high) = m \div Block
  BY DEF patch_16m
<1>5. p.low = l /\ p.high = IF l = SixteenMB - OneMB THEN m \div Block ELSE 0
  BY <1>4 DEF patch_1m_16m
<1> HIDE DEF l, m
<1>6. m \div Block \in Nat /\ Block * (m \div Block) <= m
  BY <1>a, <1>3, BlocksFit
<1>7. CASE l = SixteenMB - OneMB
  <2> DEFINE q == Block * (m \div Block)
  <2>1. q \in Nat /\ q <= m
    BY <1>a, <1>6, Z3
  <2>2. p.low + Block * p.high = l + q
    BY <1>5, <1>7
  <2> HIDE DEF q
  <2> QED BY <1>a, <1>b, <1>1, <1>3, <1>7, <2>1, <2>2
<1>8. CASE l # SixteenMB - OneMB
  <2>1. p.low + Block * p.high = l
    <3>1. p.high = 0 /\ p.low = l
      BY <1>5, <1>8
    <3> QED BY <1>a, <1>1, <3>1
  <2> QED BY <1>1, <2>1
<1> QED BY <1>7, <1>8

(* Memory from 1MB on that ends below the external heap is not hidden.     *)
LEMMA BelowHeapIsVisible ==
    ASSUME NEW h, Ordered(h), NEW size \in Nat,
           size > 0 => OneMB + size <= h.umalloc.start
    PROVE  \A a \in OneMB .. OneMB + size - 1 : ~HiddenAt(h, a)
<1>1. A000 \in Nat /\ OneMB \in Nat /\ A000 < OneMB
  BY WindowsAssumption
<1> QED BY <1>1 DEF HiddenAt, Ordered

(* Whatever the BIOS's figures and wherever the external heap is below     *)
(* .text: what the program computes as the size of extended memory through *)
(* its own INT 15,e801 and INT 15,88 (extmemsize) counts no hidden memory. *)
THEOREM SizesAreVisible ==
    ASSUME Ordered(hid),
           bios.ext \in [low : Nat, high : Nat],
           bios.conf \in [low : Nat, high : Nat],
           bios.ext88 \in Nat
    PROVE  SizesVisible
<1> DEFINE Visible(n) == /\ n \in Nat
                         /\ n > 0 => OneMB + n <= hid.umalloc.start
<1>a. OneMB \in Nat /\ A000 \in Nat /\ A000 <= OneMB
  BY WindowsAssumption
<1>1. Visible(patch_1m(hid, bios.ext88))
  BY <1>a, CountedIsVisible DEF patch_1m
<1>2. LET p == patch_1m_16m(hid, bios.ext) IN Visible(p.low + Block * p.high)
  BY PairIsVisible
<1>3. LET p == patch_1m_16m(hid, bios.conf) IN Visible(p.low + Block * p.high)
  BY PairIsVisible
<1>4. Visible(extmemsize_e801)
  <2>1. Visible(0)
    OBVIOUS
  <2> HIDE DEF Visible
  <2> QED BY <1>2, <1>3, <2>1 DEF extmemsize_e801
<1>5. Visible(extmemsize)
  BY <1>1, <1>4 DEF extmemsize
<1> QED BY <1>5, BelowHeapIsVisible DEF SizesVisible

=============================================================================
