CONSTANTS
    q1 = q1
    q2 = q2
    q3 = q3
    i1 = i1
    i2 = i2
    s1 = s1
    s2 = s2
    r1 = r1
    r2 = r2
    u1 = u1
    u2 = u2
    Nothing = Nothing
    Platforms <- MCPlatforms
    Pairings <- MCPairings
    Phones <- MCPhones
    StatePaths <- MCStatePaths
    ReplayPaths <- MCReplayPaths
    StubPaths <- MCStubPaths
    Managed <- MCManaged
    Inherited <- MCInherited
    MaxFaults = 1
SPECIFICATION FairRemoval
PROPERTIES
    OthersUnharmed
    RemovalEnds
CHECK_DEADLOCK FALSE
