SPECIFICATION FairSpec
CONSTANTS
    t1 = t1
    t2 = t2
    t3 = t3
    Threads <- ThreadSet
    Amounts <- AmountSet
    Maxes <- LimitSet
    CountBound = 4
INVARIANTS NoLostWakeup
PROPERTIES AdmitsWithinLimit OvertakesNobody WaiterAdmitted
