CONSTANTS
    m1 = m1
    m2 = m2
    Members = {m1, m2}
    MaxOffset = 2
    MaxRetries = 0
    Poison <- MCPoisonFirst
    InitialOffset = "newest"
    EverCommitted = FALSE
    MaxFaults = 0
    None = None
SPECIFICATION Spec
INVARIANTS
    DLQFailureBlocks
CHECK_DEADLOCK FALSE
