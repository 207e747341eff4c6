SPECIFICATION Spec
CONSTANTS
    c1 = c1  c2 = c2  m1 = m1  m2 = m2  w1 = w1  w2 = w2
    None = None
    Convs <- TwoConvs
    Msgs <- TwoMessages
    Workers <- TwoWorkers
    MaxEvents = 2
    EventSinks = FALSE
SYMMETRY Symmetry
CONSTRAINT Bound
INVARIANTS StateTypeOK Converges
PROPERTIES BounceEndsUnlessMerged TerminatedStays
CHECK_DEADLOCK FALSE
