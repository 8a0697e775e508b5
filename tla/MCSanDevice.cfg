CONSTANTS
    SanRetries = 1
    MaxCalls = 3
    MaxBlocks = 2
SPECIFICATION FairSpec
INVARIANTS RefcountsExact FreedObjectsUnused SanAssertions SuccessMeansDone ResetRevives ReleasedAtOnce
PROPERTIES CallReturns
