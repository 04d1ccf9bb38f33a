CONSTANTS
    u1 = u1
    u2 = u2
    d1 = d1
    d2 = d2
    a = a
    b = b
    NoRow = NoRow
    Requests <- MCRequests
    Workloads <- MCWorkloads
    Users = {u1, u2}
    Devices = {d1, d2}
    Values = {"x1", "x2"}
    Registered <- MCRegistered
    MaxTokens = 3
    MaxAttempts = 2
    Pods = {a, b}
SPECIFICATION Spec
SYMMETRY MCSymmetry
CHECK_DEADLOCK FALSE
INVARIANTS
    TypeOK
    RecallIsQuiet
    ResultIsTrue
    JobTracksRows
PROPERTIES
    TerminalIsFinal
