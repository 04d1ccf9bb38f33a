SPECIFICATION RelaySpec
CONSTANTS
    u1 = u1  u2 = u2  u3 = u3
    c1 = c1  c2 = c2
    p1 = p1  p2 = p2  p3 = p3
    w1 = w1  w2 = w2
    k1 = k1  k2 = k2
    q1 = q1  q2 = q2
    Users = {u1, u2, u3}
    Group = Group
    Clients = {p1, p2, p3}
    Containers = {c1, c2}
    Workers = {w1, w2}
    Claims = {k1, k2}
    PageSize = 1
    Window = 1
    MaxId = 2
    MaxVersion = 2
    MaxClock = 3
    MaxRetries = 1
    Pods = {q1, q2}
    Callees = {u2}
    MaxEvents = 2
    Posts <- MCPosts
    Asks <- MCAsks
    Movers = {u1, u2, u3}
    Home <- MCHome
    Workloads <- MCWorkloads
    Absent = Absent
    NoRow = NoRow
    Offline = Offline
    Pending = Pending
SYMMETRY MCSymmetry
INVARIANTS
    TypeOK
    AcksAgree
    EffectsOnce
    
    LostOnlyByMove
    
    CallEventsKept
CHECK_DEADLOCK FALSE
