CONSTANTS
    p1 = p1
    p2 = p2
    c1 = c1
    f1 = f1
    f2 = f2
    None = None
    Plugins <- MCPlugins
    Clis <- MCClis
    Files <- MCOneFile
    Ttl = 2
    MaxTime = 4
    MaxRequests = 4
SPECIFICATION PatientSpec
PROPERTY
    PluginServed
CHECK_DEADLOCK FALSE
