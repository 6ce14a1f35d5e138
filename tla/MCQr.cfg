CONSTANTS
    t1 = t1
    t2 = t2
    t3 = t3
    Nothing = Nothing
    Transfers <- MCTransfers
    Faulty <- MCFaulty
    Count = 3
    MaxAge = 3
    Deadline = 7
    MaxTime = 9
SPECIFICATION ScanSpec
INVARIANTS
    DeliveredWhole
    SteadyDelivers
CHECK_DEADLOCK FALSE
