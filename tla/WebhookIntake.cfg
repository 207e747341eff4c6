SPECIFICATION FairSpec
CONSTANTS
    a = a  b = b  h1 = h1  h2 = h2
    NumSent = 2
    Replies <- TwoReplies
    References <- Chain
    Answered <- ChainParent
    Handlers <- TwoHandlers
    Limit = 1
    MaxFailures = 1
CONSTRAINT Bound
INVARIANTS
    TypeOK
    TakenWasStored
PROPERTIES
    NotSetApart
    WebhooksTaken
CHECK_DEADLOCK FALSE
