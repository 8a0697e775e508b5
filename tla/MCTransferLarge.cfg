CONSTANTS
    Devices <- MCDevices
    SmallBlocks = FALSE
    SanRetries = 1
    Lbas = {0, 7}
    Counts = {0, 1, 4}
    MemBlocks = 17
SPECIFICATION Spec
INVARIANT SuccessBringsBlocks
