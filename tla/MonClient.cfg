SPECIFICATION FairSpec
CONSTANTS
    a = a
    b = b
    None = None
    Mon <- Mons
    MonMaps <- Maps
    MaxVersion = 2
    Scenarios <- Mixes
INVARIANTS NoAssertFails SessionIsAuthenticated
 
CHECK_DEADLOCK FALSE
