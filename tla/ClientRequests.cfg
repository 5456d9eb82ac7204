SPECIFICATION FairSpec
CONSTANTS
    q1 = q1
    q2 = q2
    a = a
    b = b
    None = None
    Req <- Reqs
    Rank <- Ranks
    Auth <- AllOnA
    Scenarios <- Troubles
INVARIANTS  AckedIsKept AppliedOnceInOrder
 
CHECK_DEADLOCK FALSE
