CONSTANTS
    a = a
    b = b
    d = d
    c1 = c1
    c2 = c2
    h1 = h1
    h2 = h2
    None = None
    Users = {a, b, d}
    Calls = {c1}
    Caller <- MCCaller
    Callee <- MCCallee
    Handlers = {h1, h2}
    Sweepers = {"s1"}
    TicksPerSecond = 2
    Ring = 1
    Grace = 3
    ActiveTTL = 1
    EndedTTL = 1
    SweepPeriod = 1
    SweepMayFail = FALSE
SPECIFICATION FairSpec
PROPERTIES
    RingingIsEnded
