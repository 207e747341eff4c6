SPECIFICATION FairSpec
CONSTANTS
    m1 = m1  w1 = w1  w2 = w2
    NoMessage = NoMessage
    Nobody = Nobody
    Msgs <- OneMessage
    Workers <- TwoWorkers
    MaxCrashes = 1
INVARIANTS TypeOK
PROPERTIES KeepsPromise QueuedSettles
CHECK_DEADLOCK FALSE
