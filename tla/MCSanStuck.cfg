CONSTANTS
    SanRetries = 0
    MaxCalls = 1
    MaxBlocks = 1
SPECIFICATION Spec
INVARIANT TimeoutCoversCommand
