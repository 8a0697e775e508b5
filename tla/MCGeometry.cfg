CONSTANTS
    Disks <- MCDisks
    Word = 32768
    INT13_MAX_CHS_SECTORS = 40000
SPECIFICATION Spec
INVARIANTS GuessRecoversTool PartitionsReadable AcceptedOnDisk WrittenTableFits ParametersAreLast ValidReachesPartitions
