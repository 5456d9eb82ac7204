SPECIFICATION FairSpec
CONSTANTS
    a = a
    b = b
    None = None
    MaxWrites = 2
    Rank <- Ranks
    Issuable <- LockCaps
    Scenarios <- Mixes
INVARIANTS NoAssertFails RevokedIsUnused CleanIsStable CountsBalance
PROPERTIES OwnChangesKept WaitsEnd ClosedIsFlushed
CHECK_DEADLOCK FALSE
