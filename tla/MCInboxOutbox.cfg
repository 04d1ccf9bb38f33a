CONSTANTS
    req = req
    evt = evt
    big = big
    w1 = w1
    w2 = w2
    r1 = r1
    r2 = r2
    None = None
    Ops = {req, evt, big}
    Sources = {req}
    Emits <- MCEmits
    Workers = {w1, w2}
    Relays = {r1, r2}
    Lease = 1
    InitialBackoff = 2
    MaxBackoff = 3
    MaxAttempt = 2
    ReplayWindow = 1
    Retention = 0
    Slack = 1
    Unpublishable = {big}
    EventId <- MCEventId
SPECIFICATION Spec
INVARIANTS
    TypeOK
    NoEventLost
PROPERTIES
    ClaimExclusive
    PublishedIsFinal
    Implements
