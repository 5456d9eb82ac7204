SPECIFICATION Spec
CONSTANTS
    Size = 3
    MaxCalls = 5
    Scenarios <- Mixes
INVARIANTS
    ReadsReturnTheFile
CHECK_DEADLOCK FALSE
