SPECIFICATION FairSpec
CONSTANTS
    o1 = o1
    o2 = o2
    d1 = d1
    x1 = x1
    x2 = x2
    Platforms <- MCPlatforms
    Ops <- MCOps
    Devices <- MCDevices
    Addresses <- MCAddresses
    Bad = Bad
    None = None
    MaxFaults = 1
    MaxPlugs = 1
    MaxAnswers = 2
INVARIANTS
    RouteIsChosen
    OwnPhoneAnswered
    RuleGuarded
    AnsweredClean
PROPERTIES
    RuleGoes
CHECK_DEADLOCK FALSE
