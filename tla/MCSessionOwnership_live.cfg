CONSTANTS
    x1 = x1
    x2 = x2
    y = y
    k1 = k1
    k2 = k2
    None = None
    Conns = {x1, y}
    Containers = {k1, k2}
    Home <- MCHome
SPECIFICATION FairSpec
PROPERTIES
    OneDeviceEventually
CHECK_DEADLOCK FALSE
