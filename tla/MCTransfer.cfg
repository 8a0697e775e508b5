CONSTANTS
    Devices <- MCDevices
    SmallBlocks = TRUE
    SanRetries = 1
    Lbas = {0, 7}
    Counts = {0, 1, 4}
    MemBlocks = 17
SPECIFICATION Spec
INVARIANTS PrefixInPlace OnlyBufferWritten SuccessBringsBlocks
