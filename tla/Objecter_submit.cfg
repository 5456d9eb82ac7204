SPECIFICATION Spec
CONSTANTS
    NOsd = 2
    MaxOps = 3
    Scenarios <- Mixes
INVARIANTS TargetIsUp
CHECK_DEADLOCK FALSE
