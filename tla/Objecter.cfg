SPECIFICATION FairSpec
CONSTANTS
    NOsd = 2
    MaxOps = 3
    Scenarios <- Mixes
INVARIANTS NoAssertFails InFlightBalances CallbacksAreTrue OrderIsKept
PROPERTIES EveryOpCompletes
CHECK_DEADLOCK FALSE
