CONSTANTS
    A000 = 4
    OneMB = 6
    SixteenMB = 12
    Block = 2
    Page = 2
    TextStart = 20
    TextEnd = 22
    EndOfMemory = 40
    Bioses <- MCBioses
    Callers = {c1, c2}
    MaxRegions = 3
    AddrLimit = 32
    Header = 1
    Sizes = {0, 1, 4}
    Ids = {b1, b2}
    MaxFailures = 1
SYMMETRY Symmetry
SPECIFICATION Spec
INVARIANTS EnumerationExact SizesVisible BlocksIntact
