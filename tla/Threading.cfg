SPECIFICATION Spec
CONSTANTS
    p1 = p1
    p2 = p2
    Participants <- TwoParticipants
    Nobody = Nobody
    MaxEmails = 4
    MaxConvs = 3
SYMMETRY Symmetry
CONSTRAINT FewEmailsOrOneParticipant
INVARIANTS TypeOK OneParticipant RepliesJoined TokensResolve
PROPERTIES KeepsThreads
CHECK_DEADLOCK FALSE
