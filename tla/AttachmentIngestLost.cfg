SPECIFICATION Spec
CONSTANTS
    u1 = u1
    u2 = u2
    i1 = i1
    m1 = m1
    m2 = m2
    w1 = w1
    w2 = w2
    r1 = r1
    NoMessage = NoMessage
    Nobody = Nobody
    Uploads <- None
    Inbound <- OneInbound
    Messages <- OneMessage
    Workers <- TwoWorkers
    Reapers <- OneReaper
    MaxAttempts = 2
    MaxCrashes = 0
INVARIANTS StoredHasObject
CHECK_DEADLOCK FALSE
