CONSTANTS
    p1 = p1
    p2 = p2
    phoneScope = phoneScope
    otherScope = otherScope
    None = None
    Procs <- MCProcs
    Scopes <- MCScopes
    Keys <- MCKeys
    Messages <- MCRequests
    Capacity = 2
    Ttl = 2
    MaxTime = 3
SPECIFICATION PSpec
INVARIANTS
    CertainOpen
    NoLiveReplay
    AcceptedDurable
    FileReopens
PROPERTY
    KeepsContract
