CONSTANTS
    MaxRuns = 2
    MaxOthers = 2
    BaseTop = 3
SPECIFICATION Spec
INVARIANTS HandlersResident CleanExit
CHECK_DEADLOCK FALSE
