SPECIFICATION FairSpec
CONSTANTS
    c1 = c1
    s1 = s1
    Node <- Nodes
    Addr <- Addrs
    Scenarios <- Sessions
    MaxPipes = 6
    MaxSocks = 4
CHECK_DEADLOCK FALSE
INVARIANTS NoAssertFails NoSilentLoss 
PROPERTIES ReliableDelivery
