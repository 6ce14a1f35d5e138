CONSTANTS
    d1 = d1
    d2 = d2
    u1 = u1
    u2 = u2
    None = None
    Torn = Torn
    Pairings <- MCPairings
    Runs <- MCRuns
    MaxFaults = 2
SPECIFICATION FairSpec
INVARIANTS
    ClaimedNamesApart
    OneJournal
    Accounted
    AvailableIsComplete
PROPERTY
    ReadableRecovers
CHECK_DEADLOCK FALSE
