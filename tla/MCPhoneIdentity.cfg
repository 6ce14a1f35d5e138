CONSTANTS
    d1 = d1
    d2 = d2
    i1 = i1
    i2 = i2
    q1 = q1
    None = None
    Desktops <- MCDesktops
    Kept <- MCKept
    Ids <- MCIds
    Requests <- MCRequests
    MaxPairings = 3
    MaxFaults = 2
SPECIFICATION Spec
INVARIANTS
    KeysNamed
    RecordsOwned
    AskedOnce
PROPERTIES
    LivePairingStays
    InterruptedEnds
CHECK_DEADLOCK FALSE
