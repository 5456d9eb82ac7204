SPECIFICATION Spec
CONSTANTS
    a = a
    b = b
    None = None
    MaxWrites = 2
    Rank <- Ranks
    Issuable <- LockCaps
    Scenarios <- ChmodThenFsync
INVARIANTS FsyncIsDurable
CHECK_DEADLOCK FALSE
