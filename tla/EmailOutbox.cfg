SPECIFICATION Spec
CONSTANTS
    m1 = m1  m2 = m2  c1 = c1  c2 = c2
    Msgs = {m1, m2}
    Convs = {c1, c2}
    ConvOf <- TwoConvs
    Batches = {b1}
    NoBatch = NoBatch
    Workers = {w1, w2}
    Limit = 2
    MaxCrashes = 1
SYMMETRY Symmetry
INVARIANTS
    TypeOK
    MailedAtMostOnce
    AcceptedWasMailed
    PendingIffQueued
    ConflictOnlyAfterDelete
PROPERTIES
    OnlyOwnerSettles
    KeepsPromise
CHECK_DEADLOCK FALSE
