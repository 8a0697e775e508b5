------------------------------ MODULE MemoryMap ------------------------------
(***************************************************************************)
(* The memory map.  INT 15 reports the BIOS's map without the memory that  *)
(* the program hides; whoever asks gets it entry by entry, with a          *)
(* continuation value, from a cache of one entry that all callers share.   *)
(* The program reads the map itself (get_memmap), to find the memory for   *)
(* its external heap (memtop_urealloc), and hides that heap in turn.       *)
(*                                                                         *)
(* The program runs alone until it jumps to the boot sector; from then on  *)
(* several callers may be in the middle of reading the map.  If the boot   *)
(* fails they are gone and the program runs again.                         *)
(***************************************************************************)
EXTENDS MemoryWindows, Sequences, FiniteSets

CONSTANTS Bioses,      \* the BIOSes looked at: map, its last continuation
                       \* value, and the sizes of INT 15,e801 and INT 15,88
          Callers,     \* who reads the map after the boot
          MaxRegions,  \* entries in a struct memory_map
          AddrLimit,   \* 2^32, what a physaddr_t and a size_t cannot hold
          Header,      \* sizeof ( struct external_memory )
          Sizes,       \* sizes requested from the external heap
          Ids,         \* blocks of the external heap, as their owners know them
          MaxFailures  \* bound: allocations that fail for want of space

VARIABLES bios,    \* the BIOS of this machine
          ready,   \* hide_etherboot is done
          post,    \* memmap_post
          hid,     \* hidemem_base, hidemem_umalloc, hidemem_textdata
          cache,   \* underlying_e820_index, _ebx, _cache and _cache_size
          heap,    \* top, bottom and heap_size of the external heap; whether
                   \* it is lost (see memtop_urealloc); failures so far
          mem,     \* extended memory: headers, and whose data
          blocks,  \* what urealloc has returned: address and size per owner
          callers  \* per caller: whether it asks for 24 bytes, reading or
                   \* not, continuation value, entries

vars == <<bios, ready, post, hid, cache, heap, mem, blocks, callers>>

-----------------------------------------------------------------------------
(* INT 15,e820 *)

Invalid == -1
NoEntry == [start |-> 0, end |-> 0, type |-> "reserved"]
EmptyCache == [index |-> Invalid, ebx |-> 0, entry |-> NoEntry, wide |-> FALSE]

(* Memory may be disabled by the attributes of its entry.  These are the   *)
(* last 4 of its 24 bytes; the entry is wide if it has them.               *)
Types == {"ram", "reserved", "disabled"}
Entries == [start : Nat, end : Nat, type : Types]
Caches == [index : Int, ebx : Nat, entry : Entries, wide : BOOLEAN]

Bare(type) == IF type = "disabled" THEN "ram" ELSE type

(* The BIOS numbers its entries from 0.  After the last one it returns a   *)
(* continuation value of 0, or one for which the next call fails.          *)
bios_e820(ebx) ==
    LET n == Len(bios.map)
    IN  IF ebx = n
        THEN [cf |-> TRUE]
        ELSE [cf |-> FALSE, entry |-> bios.map[ebx + 1],
              ebx |-> IF ebx + 1 = n /\ ~bios.carry THEN 0 ELSE ebx + 1]

NeverInvalidated(c, bx, wide) ==
    LET get[d \in Caches] ==
          LET next == bios_e820(d.ebx)
          IN  IF d.index = bx
              THEN [cf |-> FALSE, cache |-> d]
              ELSE IF (d.index # Invalid /\ d.ebx = 0) \/ next.cf
              THEN [cf |-> TRUE, cache |-> d]
              ELSE get[[index |-> d.index + 1, ebx |-> next.ebx,
                        entry |-> next.entry, wide |-> wide]]
    IN  get[c]

(* Entry bx, found in the cache or fetched, with all entries before it if  *)
(* the cache is past it.  What is fetched is as wide as this caller wants  *)
(* it; what is found is as wide as an earlier one wanted it.               *)
get_underlying_e820(c, bx, wide) ==
    LET get[d \in Caches] ==
          LET reset == IF d.index > bx \/ d.index = Invalid
                       THEN [d EXCEPT !.index = Invalid, !.ebx = 0] ELSE d
              next == bios_e820(reset.ebx)
          IN  IF d.index = bx
              THEN [cf |-> FALSE, cache |-> d]
              ELSE IF (reset.index # Invalid /\ reset.ebx = 0) \/ next.cf
              THEN [cf |-> TRUE, cache |-> reset]
              ELSE get[[index |-> reset.index + 1, ebx |-> next.ebx,
                        entry |-> next.entry, wide |-> wide]]
    IN  get[c]

(* The continuation value is the number of the window (0 for the first)    *)
(* and the number of the entry.                                            *)
Continuations == [si : 0 .. 4, bx : Nat]
Start == [si |-> 0, bx |-> 0]

(* What a call returns: carry flag, entry, its width and the next          *)
(* continuation value; and the cache it leaves.                            *)
Results == [cf : BOOLEAN, cache : Caches, entry : Entries, wide : BOOLEAN,
            ebx : Continuations]

Windowed(under, w, bx, wide) ==
    LET cached == under.cache.entry
        cut == window_region(cached, Windows(hid)[w])
        both == wide /\ under.cache.wide
    IN  [cf    |-> under.cf,
         cache |-> under.cache,
         entry |-> [start |-> cut.start, end |-> cut.end,
                    type  |-> IF both THEN cached.type ELSE Bare(cached.type)],
         wide  |-> both,
         ebx   |-> IF w = 4 THEN [si |-> 0, bx |-> bx + 1]
                            ELSE [si |-> w + 1, bx |-> bx]]

get_windowed_e820(c, ebx, wide) ==
    Windowed(get_underlying_e820(c, ebx.bx, wide),
             IF ebx.si = 0 THEN 1 ELSE ebx.si, ebx.bx, wide)

get_nonempty_e820(c, ebx, wide) ==
    LET get[r \in Results] ==
          IF r.cf \/ Length(r.entry) # 0
          THEN r
          ELSE get[get_windowed_e820(r.cache, r.ebx, wide)]
    IN  get[get_windowed_e820(c, ebx, wide)]

(* A look ahead, for an entry as wide as the one found, decides whether    *)
(* that is the last.                                                       *)
LookAhead(r, peek) ==
    IF r.cf THEN r ELSE [r EXCEPT !.cache = peek.cache,
                                  !.ebx = IF peek.cf THEN Start ELSE @]

AndPeek(r) == LookAhead(r, get_nonempty_e820(r.cache, r.ebx, r.wide))

get_mangled_e820(c, ebx, wide) == AndPeek(get_nonempty_e820(c, ebx, wide))

-----------------------------------------------------------------------------
(* get_memmap *)

(* e801 gives two pairs of sizes, of which the second counts if the first  *)
(* is zero.  The whole of the address space is not believed.               *)
extmemsize_e801 ==
    LET ext == patch_1m_16m(hid, bios.ext)
        conf == patch_1m_16m(hid, bios.conf)
        sizes == IF ext.low = 0 /\ ext.high = 0 THEN conf ELSE ext
        size == sizes.low + Block * sizes.high
    IN  IF post \/ ~bios.e801 \/ size = AddrLimit - OneMB THEN 0 ELSE size

extmemsize ==
    IF extmemsize_e801 # 0 THEN extmemsize_e801 ELSE patch_1m(hid, bios.ext88)

(* A new entry, merged with the last one if they touch.                    *)
AddRegion(regions, entry) ==
    IF regions # <<>> /\ regions[Len(regions)].end = entry.start
    THEN [regions EXCEPT ![Len(regions)].end = entry.end]
    ELSE Append(regions, [start |-> entry.start, end |-> entry.end])

(* The loop of meme820, which asks for attributes.  An entry counts if it  *)
(* is memory and its attributes, if it has them, do not disable it.  The   *)
(* regions found before an error stay in the table.                        *)
Collect(c) ==
    LET step[r \in Results, regions \in Seq([start : Nat, end : Nat])] ==
          LET counts == r.entry.type = "ram"
              found == IF counts THEN AddRegion(regions, r.entry) ELSE regions
          IN  IF r.cf
              THEN [ok |-> TRUE, cache |-> r.cache, regions |-> regions]
              ELSE IF regions = <<>> /\ r.entry.type = "reserved"
              THEN [ok |-> FALSE, cache |-> r.cache, regions |-> regions]
              ELSE IF (counts /\ Len(found) = MaxRegions) \/ r.ebx = Start
              THEN [ok |-> TRUE, cache |-> r.cache, regions |-> found]
              ELSE step[get_mangled_e820(r.cache, r.ebx, TRUE), found]
    IN  step[get_mangled_e820(c, Start, TRUE), <<>>]

Sane(regions) ==
    /\ Len(regions) >= 2
    /\ regions[1].start = 0
    /\ regions[2].start = OneMB

meme820(c) ==
    IF post THEN [ok |-> FALSE, cache |-> c, regions |-> <<>>] ELSE Collect(c)

(* The map made of the sizes of base and extended memory.  Where its first *)
(* region starts is not written: the table was cleared, but meme820 may    *)
(* have left something there.                                              *)
ConstructedMap(regions) ==
    <<[start |-> IF regions = <<>> THEN 0 ELSE regions[1].start,
       end   |-> hid.base],
      [start |-> OneMB, end |-> OneMB + extmemsize]>>

MapOf(r) ==
    [cache   |-> r.cache,
     regions |-> IF r.ok /\ Sane(r.regions) THEN r.regions
                 ELSE ConstructedMap(r.regions)]

get_memmap(c) == MapOf(meme820(c))

-----------------------------------------------------------------------------
(* The external heap *)

(* A region below 2^32, with the length that 32 bits hold.                 *)
Usable(r) ==
    [start |-> r.start,
     len   |-> ((IF r.end > AddrLimit - 1 THEN 0 ELSE r.end) - r.start)
                  % AddrLimit]

(* The first of the longest.                                               *)
largest_memblock(regions) ==
    LET low == SelectSeq(regions, LAMBDA r : r.start <= AddrLimit - 1)
        usable == [i \in DOMAIN low |-> Usable(low[i])]
        longest == {i \in DOMAIN usable :
                       /\ usable[i].len > 0
                       /\ \A j \in DOMAIN usable :
                             /\ usable[j].len <= usable[i].len
                             /\ j < i => usable[j].len < usable[i].len}
    IN  IF longest = {} THEN [start |-> 0, len |-> 0]
        ELSE usable[CHOOSE i \in longest : TRUE]

init_eheap(regions) ==
    LET b == largest_memblock(regions)
        top == (b.start + b.len) % AddrLimit
    IN  [top |-> top, bottom |-> top, size |-> b.len, lost |-> FALSE,
         failed |-> heap.failed]

NoBlock == [ptr |-> 0, size |-> 0]
Zero == [size |-> 0, used |-> FALSE]
HeaderOf(m, ptr) == m[ptr - Header]

(* What memory that holds no header may look like to one who takes it for  *)
(* one: an empty block, a block in use, or a free block of any size.       *)
Junk == [size |-> Invalid, used |-> FALSE]
Leftovers == {Zero, [size |-> 0, used |-> TRUE], Junk}

ecollect_free(h, m) ==
    LET collect[g \in [top : Nat, bottom : Nat, size : Nat, lost : BOOLEAN,
                       failed : Nat]] ==
          LET e == HeaderOf(m, g.bottom)
          IN  IF g.bottom = g.top \/ e.used
              THEN g
              ELSE IF e = Junk
              THEN [g EXCEPT !.lost = TRUE]
              ELSE collect[[g EXCEPT !.bottom = @ + e.size + Header,
                                     !.size = @ + e.size + Header]]
    IN  collect[h]

(* The memory after len cells have moved from one address to another.      *)
memmove_user(m, to, from, len) ==
    [a \in DOMAIN m |-> IF to <= a /\ a < to + len THEN m[a - to + from]
                                                   ELSE m[a]]

(* The bottom block, of which e is the header, gets the size size.  It     *)
(* grows and shrinks at its lower end, and its contents move along.  With  *)
(* less than a header left the header lies outside the heap's memory.      *)
Resize(h, m, ptr, e, size) ==
    LET wanted == ptr - (size - e.size)
        align == wanted % Page
        new == wanted - align
        actual == size + align
        left == h.size - (actual - e.size)
    IN  IF actual > h.size + e.size
        THEN [ok |-> FALSE, heap |-> h, mem |-> m]
        ELSE [ok   |-> TRUE,
              ptr  |-> new,
              len  |-> actual,
              heap |-> [h EXCEPT !.bottom = new, !.size = left,
                                 !.lost = left < Header],
              mem  |-> [memmove_user(m, new, ptr, Earlier(e.size, actual))
                           EXCEPT ![new - Header] =
                              [size |-> actual, used |-> size > 0]]]

PretendAnything(h, m, ptr, e, size) ==
    [ok |-> TRUE, ptr |-> ptr, len |-> size, heap |-> h,
     mem |-> [m EXCEPT ![ptr - Header] = [e EXCEPT !.used = size > 0]]]

(* Any other block can only pretend to shrink.                             *)
Pretend(h, m, ptr, e, size) ==
    IF size > e.size
    THEN [ok |-> FALSE, heap |-> h, mem |-> m]
    ELSE [ok |-> TRUE, ptr |-> ptr, len |-> size, heap |-> h,
          mem |-> [m EXCEPT ![ptr - Header] = [e EXCEPT !.used = size > 0]]]

(* A new block starts with size 0 below the bottom.  If it cannot get its  *)
(* size the bottom stays there, and what is in front of it is no header.   *)
Allocate(h, m, size, leftover) ==
    LET lowered == [h EXCEPT !.bottom = @ - Header, !.size = @ - Header]
        r == Resize(lowered, m, lowered.bottom, Zero, size)
    IN  IF h.size < Header
        THEN [ok |-> FALSE, heap |-> h, mem |-> m]
        ELSE IF r.ok THEN r
        ELSE [r EXCEPT !.mem[lowered.bottom - Header] = leftover,
                       !.heap.failed = @ + 1]

Reallocate(h, m, ptr, size, leftover) ==
    LET e == HeaderOf(m, ptr)
    IN  CASE ptr = 0 -> Allocate(h, m, size, leftover)
          [] ptr # 0 /\ ptr = h.bottom -> Resize(h, m, ptr, e, size)
          [] ptr # 0 /\ ptr # h.bottom -> Pretend(h, m, ptr, e, size)

(* The owner fills what it has got.                                        *)
Filled(m, id, from, to) ==
    [a \in DOMAIN m |-> IF from <= a /\ a < to THEN id ELSE m[a]]

(* What lies below the heap is not read before it is written again.        *)
Forgotten(m, below) == [a \in DOMAIN m |-> IF a < below THEN Zero ELSE m[a]]

Idle == \A c \in Callers : ~callers[c].reading

(* What the owner knows of its block after the call.  For a size of 0 it   *)
(* gets a pointer all the same if the block was padded; ufree drops it,    *)
(* other callers keep it.                                                  *)
Returned(r, size) ==
    IF size > 0 THEN {[ptr |-> r.ptr, size |-> size]}
    ELSE IF r.len > 0 THEN {NoBlock, [ptr |-> r.ptr, size |-> 0]}
    ELSE {NoBlock}

(* The last part of memtop_urealloc: r is what became of the block, and    *)
(* collected the heap without the free blocks at its bottom.               *)
Settle(id, size, r, collected) ==
    IF ~r.ok
    THEN /\ r.heap.failed <= MaxFailures
         /\ heap' = r.heap
         /\ mem' = r.mem
         /\ UNCHANGED <<hid, blocks>>
    ELSE /\ heap' = collected
         /\ hid' = HideUmalloc(hid, IF collected.bottom = collected.top
                                    THEN collected.bottom
                                    ELSE collected.bottom - Header,
                               collected.top)
         /\ mem' = Forgotten(Filled(r.mem, id,
                                    r.ptr + Earlier(blocks[id].size, size),
                                    r.ptr + size),
                             collected.bottom - Header)
         /\ \E b \in Returned(r, size) : blocks' = [blocks EXCEPT ![id] = b]

urealloc(id, size, h) ==
    \E leftover \in Leftovers :
       LET r == Reallocate(h, mem, blocks[id].ptr, size, leftover)
       IN  Settle(id, size, r, ecollect_free(r.heap, r.mem))

InitAndRealloc(id, size, map) ==
    /\ cache' = map.cache
    /\ urealloc(id, size, init_eheap(map.regions))

(* An owner that has kept the pointer to a block of size 0 passes it to    *)
(* memtop_urealloc, which takes whatever is there now for its header.      *)
Stale(id) == blocks[id].ptr # 0 /\ blocks[id].size = 0

(* Once the heap is lost, what follows depends on what happens to be in    *)
(* memory, and the model stops: a header has been looked for where none    *)
(* is, or been written to memory that is not the heap's.                   *)
memtop_urealloc(id, size) ==
    /\ Idle
    /\ ~heap.lost
    /\ IF Stale(id)
       THEN heap' = [heap EXCEPT !.lost = TRUE] /\ UNCHANGED <<cache, hid, mem, blocks>>
       ELSE IF heap.bottom = heap.top
       THEN InitAndRealloc(id, size, get_memmap(cache))
       ELSE UNCHANGED cache /\ urealloc(id, size, heap)
    /\ UNCHANGED <<bios, ready, post, callers>>

-----------------------------------------------------------------------------
(* The callers of INT 15 after the boot *)

NotReading(wide) == [wide |-> wide, reading |-> FALSE, ebx |-> Start,
                     got |-> <<>>, done |-> FALSE]

StartReading(c) ==
    /\ callers' = [callers EXCEPT ![c] = [NotReading(@.wide) EXCEPT !.reading = TRUE]]
    /\ UNCHANGED <<bios, ready, post, hid, cache, heap, mem, blocks>>

(* What a caller makes of the result.                                      *)
Answer(c, r) ==
    /\ cache' = r.cache
    /\ callers' = [callers EXCEPT ![c] =
           IF r.cf THEN [@ EXCEPT !.done = TRUE]
           ELSE [@ EXCEPT !.got = Append(@, r.entry), !.ebx = r.ebx,
                          !.done = r.ebx = Start]]

int15_e820(c) ==
    /\ callers[c].reading
    /\ ~callers[c].done
    /\ Answer(c, get_mangled_e820(cache, callers[c].ebx, callers[c].wide))
    /\ UNCHANGED <<bios, ready, post, hid, heap, mem, blocks>>

(* The boot sector gave up; the program runs again.                        *)
BootFails ==
    /\ ~Idle
    /\ callers' = [c \in Callers |-> NotReading(callers[c].wide)]
    /\ UNCHANGED <<bios, ready, post, hid, cache, heap, mem, blocks>>

(* hide_etherboot has hooked INT 15, with the program hidden and an empty  *)
(* external heap; it reads the map once before it returns.                 *)
Init ==
    /\ bios \in Bioses
    /\ ready = FALSE
    /\ post \in BOOLEAN
    /\ hid = [base     |-> bios.fbms,
              umalloc  |-> [start |-> TextStart, end |-> TextStart],
              textdata |-> [start |-> TextStart, end |-> TextEnd]]
    /\ cache = EmptyCache
    /\ heap = [top |-> 0, bottom |-> 0, size |-> 0, lost |-> FALSE, failed |-> 0]
    /\ mem = [a \in 0 .. AddrLimit - 1 |-> Zero]
    /\ blocks = [id \in Ids |-> NoBlock]
    /\ \E wide \in [Callers -> BOOLEAN] :
          callers = [c \in Callers |-> NotReading(wide[c])]

hide_etherboot ==
    /\ ~ready
    /\ ready' = TRUE
    /\ cache' = get_memmap(cache).cache
    /\ UNCHANGED <<bios, post, hid, heap, mem, blocks, callers>>

Anything == heap.lost /\ UNCHANGED vars

Next ==
    \/ hide_etherboot
    \/ \E id \in Ids, size \in Sizes : ready /\ memtop_urealloc(id, size)
    \/ \E c \in Callers : ready /\ ~heap.lost /\ StartReading(c)
    \/ \E c \in Callers : int15_e820(c)
    \/ BootFails
    \/ Anything

Spec == Init /\ [][Next]_vars

-----------------------------------------------------------------------------
(* Properties *)

(* How many of the entries cover address a with a type in types.           *)
Covering(entries, a, types) ==
    Cardinality({i \in DOMAIN entries : /\ entries[i].start <= a
                                        /\ a < entries[i].end
                                        /\ entries[i].type \in types})

(* However the calls of several callers interleave, and whatever the       *)
(* program or an abandoned reading has left in the cache: whoever reads    *)
(* the map to its end has got the BIOS's map without the hidden memory,    *)
(* everything in it once and nothing else (get_mangled_e820).  Memory is   *)
(* told from what is none; disabled memory is told from usable memory if   *)
(* all callers ask for attributes, since one that does not may leave a cut *)
(* entry in the cache for one that does.                                   *)
EnumerationExact ==
    ~heap.lost =>
        \A c \in Callers : callers[c].done =>
            \A a \in 0 .. EndOfMemory - 1,
               types \in {{"ram", "disabled"}, {"reserved"}}
                            \cup (IF \A d \in Callers : callers[d].wide
                                  THEN {{"disabled"}} ELSE {}) :
                Covering(callers[c].got, a, types) =
                    IF HiddenAt(hid, a) THEN 0 ELSE Covering(bios.map, a, types)

(* Whatever the external heap has grown to: INT 15,e801 and INT 15,88      *)
(* never count hidden memory as extended memory, so that neither the boot  *)
(* sector nor a map made of these sizes takes it (patch_1m, patch_16m).    *)
SizesVisible ==
    \A a \in OneMB .. OneMB + extmemsize - 1 : ~HiddenAt(hid, a)

(* The external heap lies below .text, as hide_umalloc asserts, so that    *)
(* the windows are in order.  What urealloc has returned is memory, is     *)
(* hidden from all callers, and holds its owner's data: the data has       *)
(* followed the block when that moved, and no other block and no header    *)
(* has been written over it, also after an allocation that failed with the *)
(* bottom of the heap already lowered (memtop_urealloc).                   *)
BlocksIntact ==
    ~heap.lost =>
        /\ Ordered(hid)
        /\ \A id \in Ids :
              \A a \in blocks[id].ptr .. blocks[id].ptr + blocks[id].size - 1 :
                  /\ mem[a] = id
                  /\ hid.umalloc.start <= a
                  /\ a < hid.umalloc.end
                  /\ Covering(bios.map, a, {"ram"}) > 0

=============================================================================
