SPECIFICATION FairSpec
CONSTANTS
    Size = 3
    MaxCalls = 5
    Scenarios <- Mixes
INVARIANTS
    NoAssertFails
    ReadsSeeWrites
    DroppableIsStable
    FlushIsDurable
    BufferRefBalances
PROPERTIES
    EveryCallReturns
CHECK_DEADLOCK FALSE
