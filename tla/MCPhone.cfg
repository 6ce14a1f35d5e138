CONSTANTS
    o1 = o1
    o2 = o2
    o3 = o3
    None = None
    Ops <- MCOps
    Draws <- MCDraws
SPECIFICATION FairSpec
INVARIANTS
    SingleOwner
    PromptsOwned
    CancelledNeverSent
PROPERTIES
    StopEndsWifi
    RearmsAfterUnwraps
CHECK_DEADLOCK FALSE
