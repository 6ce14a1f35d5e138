CONSTANTS
    pA = pA
    pB = pB
    pC = pC
    sA = sA
    sB = sB
    sC = sC
    e1 = e1
    e2 = e2
    iA = iA
    iB = iB
    iC = iC
    k1 = k1
    k2 = k2
    Bad = Bad
    Keys <- MCKeys
    Selector <- MCSelector
    Ids = {iA, iB, iC}
    FileKeys = {k1, k2}
    Configured <- MCConfigured
    Headers <- MCHeaders
    MaxFiles = 2
SPECIFICATION Spec
INVARIANTS
    MissIsReal
    AskedIsOpenable
    CertainOwner
    AskedOnce
CHECK_DEADLOCK FALSE
