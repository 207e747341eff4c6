SPECIFICATION FairSpec
CONSTANTS
    u1 = u1
    u2 = u2
    i1 = i1
    m1 = m1
    m2 = m2
    w1 = w1
    w2 = w2
    r1 = r1
    NoMessage = NoMessage
    Nobody = Nobody
    Uploads <- TwoUploads
    Inbound <- OneInbound
    Messages <- TwoMessages
    Workers <- TwoWorkers
    Reapers <- OneReaper
    MaxAttempts = 2
    MaxCrashes = 1
CONSTRAINT Bound
INVARIANTS TypeOK MessageComplete UploadAccounted
PROPERTIES UploadsReaped StoredStays PendingSettles
CHECK_DEADLOCK FALSE
