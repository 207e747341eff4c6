SPECIFICATION FairSpec
CONSTANTS
    c1 = c1
    c2 = c2
    w1 = w1
    w2 = w2
    Convs <- TwoConversations
    Workers <- TwoWorkers
    MaxEvents = 3
    MaxCrashes = 1
CONSTRAINT Bound
INVARIANTS TypeOK FeedInOrder OneStraggler
PROPERTIES EventsArrive
CHECK_DEADLOCK FALSE
