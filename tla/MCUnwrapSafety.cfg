CONSTANTS
    p1 = p1
    p2 = p2
    c1 = c1
    f1 = f1
    f2 = f2
    None = None
    Plugins <- MCOnePlugin
    Clis <- MCClis
    Files <- MCFiles
    Ttl = 1
    MaxTime = 2
    MaxRequests = 2
SPECIFICATION Spec
INVARIANTS
    PromptedOnce
    ReleaseIsApproved
CHECK_DEADLOCK FALSE
