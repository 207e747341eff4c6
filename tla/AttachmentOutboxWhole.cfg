SPECIFICATION Spec
CONSTANTS
    m1 = m1  w1 = w1  w2 = w2
    NoMessage = NoMessage
    Nobody = Nobody
    Msgs <- OneMessage
    Workers <- OneWorker
    MaxCrashes = 0
INVARIANTS MailedWhole
CHECK_DEADLOCK FALSE
