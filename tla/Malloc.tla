------------------------------- MODULE Malloc -------------------------------
(***************************************************************************)
(* The heap of core/malloc.c: a list of free blocks in ascending order,    *)
(* allocation from the first block that is large enough once its start is  *)
(* aligned, and freeing with immediate merging.                            *)
(*                                                                         *)
(* Addresses and sizes are counted in the alignment of the heap array,     *)
(* that of a pointer, so that the array may start anywhere in a unit of    *)
(* MIN_MEMBLOCK_SIZE.  When no block is large enough, the allocator has    *)
(* caches discard what they hold, which frees memory in the middle of the  *)
(* allocation.                                                             *)
(***************************************************************************)
EXTENDS Integers, Sequences, SequencesExt, FiniteSetsExt

CONSTANTS
    MIN_MEMBLOCK_SIZE,
    Header,     \* offsetof ( struct autosized_block, data )
    HeapStart,  \* address of the heap array
    HEAP_SIZE,
    SizeLimit,  \* a size_t is less than this
    Sizes,      \* bound: the sizes asked for
    Aligns,     \* bound: the alignments asked for
    MaxUsed     \* bound: blocks in use

ASSUME UnitAssumption ==
    /\ MIN_MEMBLOCK_SIZE \in Nat \ {0}
    /\ Header \in Nat
    /\ HeapStart \in Nat
    /\ HEAP_SIZE \in Nat /\ HEAP_SIZE >= MIN_MEMBLOCK_SIZE
    /\ SizeLimit % MIN_MEMBLOCK_SIZE = 0 /\ HeapStart + HEAP_SIZE < SizeLimit

ASSUME RequestAssumption ==
    /\ Sizes \subseteq 0 .. SizeLimit - 1
    /\ Aligns \subseteq {2 ^ k : k \in 0 .. 12}
    /\ MaxUsed \in Nat

VARIABLES
    free_blocks,    \* the free list: blocks with start and size
    used,           \* the blocks in use, as they were asked for
    freemem, usedmem, maxusedmem,
    request         \* the allocation in progress, or how the last one ended

vars == <<free_blocks, used, freemem, usedmem, maxusedmem, request>>

\* Who holds a block: a caller of malloc, a caller of malloc_phys, or a cache.
Kinds == {"malloc", "phys", "cache"}

Block(start, size, align, kind) ==
    [start |-> start, size |-> size, align |-> align, kind |-> kind]

NoBlock == Block(0, 0, 1, "malloc")

\* pc is "idle", "search", or, after the call, "refused" or "failed".
RequestOf(pc, size, align, kind, old) ==
    [pc |-> pc, size |-> size, align |-> align, kind |-> kind, old |-> old]

Ended(pc) == RequestOf(pc, 0, 1, "malloc", NoBlock)

RoundDown(size) == size - (size % MIN_MEMBLOCK_SIZE)

\* actual_size, computed in a size_t.
ActualSize(size) == RoundDown((size + MIN_MEMBLOCK_SIZE - 1) % SizeLimit)

\* mpopulate, called by init_heap.
Init ==
    /\ free_blocks = <<[start |-> HeapStart, size |-> RoundDown(HEAP_SIZE)]>>
    /\ used = {}
    /\ freemem = RoundDown(HEAP_SIZE) /\ usedmem = 0 /\ maxusedmem = 0
    /\ request = Ended("idle")

-----------------------------------------------------------------------------
(* The free list.                                                          *)

\* align_mask + 1: alignment and unit are powers of two.
Alignment(align) == IF align > MIN_MEMBLOCK_SIZE THEN align ELSE MIN_MEMBLOCK_SIZE

\* pre_size: the distance from the start of block b to the first aligned address.
PreSize(b, align) == (-b.start) % Alignment(align)

SuitsStrict(b, size, align) == b.size > PreSize(b, align) + size

Suits(b, size, align) == b.size >= PreSize(b, align) + size

RemaindersLeaky(b, size, align) ==
    LET pre == PreSize(b, align)
        post == b.size - pre - size
    IN  (IF pre > MIN_MEMBLOCK_SIZE
         THEN <<[start |-> b.start, size |-> pre]>> ELSE <<>>)
        \o (IF post >= MIN_MEMBLOCK_SIZE
            THEN <<[start |-> b.start + pre + size, size |-> post]>> ELSE <<>>)

\* What is left of block b once size has been cut out at its first aligned
\* address.  A remainder that cannot hold a struct memory_block is leaked.
Remainders(b, size, align) ==
    LET pre == PreSize(b, align)
        post == b.size - pre - size
    IN  (IF pre >= MIN_MEMBLOCK_SIZE
         THEN <<[start |-> b.start, size |-> pre]>> ELSE <<>>)
        \o (IF post >= MIN_MEMBLOCK_SIZE
            THEN <<[start |-> b.start + pre + size, size |-> post]>> ELSE <<>>)

FreedUnmerged(list, start, size) ==
    LET stop == SelectInSeq(list, LAMBDA b : b.start >= start + size)
    IN  InsertAt(list, IF stop = 0 THEN Len(list) + 1 ELSE stop,
                 [start |-> start, size |-> size])

\* The list after the size at start has been freed.  The loop ends at the first
\* block that follows; a preceding block it met that ends where the freed one
\* starts has been merged.
Freed(list, start, size) ==
    LET end == start + size
        stop == SelectInSeq(list, LAMBDA b : b.start >= end)
        met == IF stop = 0 THEN list ELSE SubSeq(list, 1, stop - 1)
        after == IF stop = 0 THEN <<>> ELSE SubSeq(list, stop, Len(list))
        Precedes(b) == b.start + b.size = start
        preceding == SelectInSeq(met, Precedes)
        first == IF preceding = 0 THEN start ELSE met[preceding].start
        follows == stop # 0 /\ list[stop].start = end
        last == IF follows THEN end + list[stop].size ELSE end
    IN  SelectSeq(met, LAMBDA b : ~Precedes(b))
        \o <<[start |-> first, size |-> last - first]>>
        \o (IF follows THEN Tail(after) ELSE after)

\* free_memblock for block b.
free_memblock(b) ==
    /\ free_blocks' = Freed(free_blocks, b.start, ActualSize(b.size))
    /\ used' = used \ {b}
    /\ freemem' = freemem + ActualSize(b.size)
    /\ usedmem' = usedmem - ActualSize(b.size)
    /\ UNCHANGED maxusedmem

-----------------------------------------------------------------------------
(* Calls.                                                                  *)

Idle == request.pc # "search"

\* alloc_memblock is entered.  old is what realloc frees once it has new memory.
Request(size, align, kind, old) ==
    /\ request' = IF ActualSize(size) = 0 THEN Ended("refused")
                  ELSE RequestOf("search", size, align, kind, old)
    /\ UNCHANGED <<free_blocks, used, freemem, usedmem, maxusedmem>>

\* realloc to a new size that is not zero; old is NoBlock for malloc and zalloc.
Reallocate(size, kind, old) ==
    LET total == (size + Header) % SizeLimit
    IN  IF total < size
        THEN /\ request' = Ended("refused")
             /\ UNCHANGED <<free_blocks, used, freemem, usedmem, maxusedmem>>
        ELSE Request(total, 1, kind, old)

malloc ==
    /\ Idle /\ Cardinality(used) < MaxUsed
    /\ \E size \in Sizes \ {0}, kind \in {"malloc", "cache"} :
          Reallocate(size, kind, NoBlock)

realloc ==
    /\ Idle /\ Cardinality(used) < MaxUsed
    /\ \E b \in used, size \in Sizes \ {0} :
          b.kind = "malloc" /\ Reallocate(size, "malloc", b)

malloc_phys ==
    /\ Idle /\ Cardinality(used) < MaxUsed
    /\ \E size \in Sizes \ {0}, align \in Aligns : Request(size, align, "phys", NoBlock)

\* free, which is realloc to size 0, and free_phys.
free ==
    /\ Idle
    /\ \E b \in used : free_memblock(b)
    /\ request' = Ended("idle")

-----------------------------------------------------------------------------
(* The loop of alloc_memblock.                                             *)

Fit == SelectInSeq(free_blocks,
                   LAMBDA b : Suits(b, ActualSize(request.size), request.align))

\* The first block that suits is split, and realloc frees the old memory.
alloc_memblock ==
    /\ request.pc = "search"
    /\ Fit # 0
    /\ LET b == free_blocks[Fit]
           size == ActualSize(request.size)
           list == SubSeq(free_blocks, 1, Fit - 1)
                   \o Remainders(b, size, request.align)
                   \o SubSeq(free_blocks, Fit + 1, Len(free_blocks))
           new == Block(b.start + PreSize(b, request.align), request.size,
                        request.align, request.kind)
           old == request.old
           back == IF old = NoBlock THEN 0 ELSE ActualSize(old.size)
       IN  /\ free_blocks' = IF old = NoBlock THEN list ELSE Freed(list, old.start, back)
           /\ used' = (used \ {old}) \cup {new}
           /\ freemem' = freemem - size + back
           /\ usedmem' = usedmem + size - back
           /\ maxusedmem' = Max({maxusedmem, usedmem + size})
           /\ request' = Ended("idle")

Cached == {b \in used : b.kind = "cache"}

\* A cache discards an item, and the search starts again.
discard_cache ==
    /\ request.pc = "search"
    /\ Fit = 0
    /\ \E b \in Cached : free_memblock(b)
    /\ UNCHANGED request

AllocFails ==
    /\ request.pc = "search"
    /\ Fit = 0
    /\ Cached = {}
    /\ request' = [request EXCEPT !.pc = "failed"]
    /\ UNCHANGED <<free_blocks, used, freemem, usedmem, maxusedmem>>

\* shutdown_cache: every cached item is discarded.
discard_all_cache ==
    /\ Idle
    /\ Cached # {}
    /\ LET size == MapThenSumSet(LAMBDA b : ActualSize(b.size), Cached)
       IN  /\ free_blocks' = FoldSet(LAMBDA b, list : Freed(list, b.start, ActualSize(b.size)),
                                     free_blocks, Cached)
           /\ used' = used \ Cached
           /\ freemem' = freemem + size
           /\ usedmem' = usedmem - size
    /\ request' = Ended("idle")
    /\ UNCHANGED maxusedmem

Next ==
    \/ malloc \/ realloc \/ malloc_phys \/ free
    \/ alloc_memblock \/ discard_cache \/ AllocFails \/ discard_all_cache

Spec == Init /\ [][Next]_vars

-----------------------------------------------------------------------------
HeapEnd == HeapStart + RoundDown(HEAP_SIZE)
Heap == HeapStart .. HeapEnd - 1

Extent(b) == b.start .. b.start + b.size - 1
UsedExtent(b) == b.start .. b.start + ActualSize(b.size) - 1

\* The free list is as check_blocks asserts, after any order of freeing: no block is
\* too small, blocks ascend and adjacent ones have been merged.  A block in use is
\* aligned as asked for (alloc_memblock, free_memblock).
FreeListSound ==
    /\ \A i \in 1 .. Len(free_blocks) :
          /\ free_blocks[i].size >= MIN_MEMBLOCK_SIZE
          /\ i > 1 => free_blocks[i].start > free_blocks[i-1].start + free_blocks[i-1].size
    /\ \A b \in used : b.start % Alignment(b.align) = 0

\* Every byte of the heap belongs to one block, free or in use, and no block reaches
\* outside of the heap; memory is leaked only "at the very start" and "at the very
\* end of the heap" (alloc_memblock), less than a unit of it.  The statistics agree:
\* usedmem is what is in use, freemem the rest.
HeapPartitioned ==
    /\ \A a \in Heap :
          LET owners == Cardinality({i \in 1 .. Len(free_blocks) : a \in Extent(free_blocks[i])})
                        + Cardinality({b \in used : a \in UsedExtent(b)})
          IN  \/ owners = 1
              \/ owners = 0 /\ (a < HeapStart + PreSize([start |-> HeapStart], 1)
                                \/ a >= RoundDown(HeapEnd))
    /\ \A i \in 1 .. Len(free_blocks) : Extent(free_blocks[i]) \subseteq Heap
    /\ \A b \in used : UsedExtent(b) \subseteq Heap
    /\ usedmem = MapThenSumSet(LAMBDA b : ActualSize(b.size), used)
    /\ freemem + usedmem = RoundDown(HEAP_SIZE)
    /\ maxusedmem >= usedmem

\* An allocation fails only when there is no room for it anywhere between the blocks
\* in use, and only after the caches have given up all they had (the search of
\* alloc_memblock misses nothing, and fragments are merged).
NullMeansNoRoom ==
    request.pc = "failed" =>
        /\ Cached = {}
        /\ ~ \E p \in Heap :
              LET room == p .. p + ActualSize(request.size) - 1
              IN  /\ p % Alignment(request.align) = 0
                  /\ room \subseteq Heap
                  /\ \A b \in used : room \cap UsedExtent(b) = {}
=============================================================================
