SPECIFICATION FairDrainSpec
CONSTANTS
    m1 = m1  c1 = c1  a1 = a1
    Msgs = {m1}
    Convs = {c1}
    ConvOf <- OneConv
    Batches = {b1}
    NoBatch = NoBatch
    Workers = {w1, w2}
    Scheduled = {w1}
    Limit = 1
    MaxBatches = 2
    Parcels = {a1}
    MaxCrashes = 1
CONSTRAINT Bound
INVARIANTS
    DrainTypeOK
PROPERTIES
    QueuedSettles
    ParcelsSettle
CHECK_DEADLOCK FALSE
