CONSTANTS
    MIN_MEMBLOCK_SIZE = 4
    Header = 1
    HeapStart = 6
    HEAP_SIZE = 26
    SizeLimit = 64
    Sizes <- MCSizes
    Aligns = {1, 8, 16}
    MaxUsed = 4
SPECIFICATION Spec
INVARIANTS FreeListSound HeapPartitioned NullMeansNoRoom
