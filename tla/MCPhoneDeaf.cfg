CONSTANTS
    o1 = o1
    o2 = o2
    o3 = o3
    None = None
    Ops <- MCOps
    Draws <- MCPairingDraws
SPECIFICATION FairSpec
PROPERTY
    Rearms
CHECK_DEADLOCK FALSE
