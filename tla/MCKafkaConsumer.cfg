CONSTANTS
    m1 = m1
    m2 = m2
    Members = {m1, m2}
    MaxOffset = 2
    MaxRetries = 1
    Poison <- MCPoison
    InitialOffset = "newest"
    EverCommitted = TRUE
    MaxFaults = 2
    None = None
SPECIFICATION FairSpec
INVARIANTS
    TypeOK
    CommittedHandled
    PartitionOrder
    DeadLetterJustified
PROPERTIES
    EventuallyCommitted
CHECK_DEADLOCK FALSE
