SPECIFICATION Spec
CONSTANTS
    a1 = a1
    a2 = a2
    h1 = h1
    h2 = h2
    common = common
    Keys <- MCKeys
    Selector <- MCSelector
    Attempts <- MCAttempts
    Phones <- MCPhones
    DesktopPaths <- MCPaths
    ReplayPaths <- MCPaths
    IdentityPaths <- MCPaths
    Given <- MCGiven
    Bad = Bad
    None = None
    Torn = Torn
    MaxResponses = 2
SYMMETRY MCSymmetry
INVARIANTS
    RightDevices
    FinishedStays
    OneReplayPerScope
    RecordsWork
CHECK_DEADLOCK FALSE
