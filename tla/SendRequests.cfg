SPECIFICATION AdmissionSpec
CONSTANTS
    m1 = m1  m2 = m2  m3 = m3  k1 = k1  k2 = k2  k3 = k3
    r1 = r1  r2 = r2  t1 = t1
    NoMessage = NoMessage
    NoKey = NoKey
    Msgs <- ThreeMessages
    Requests <- TwoRequests
    Keys <- ThreeKeys
    Topics <- OneTopic
SYMMETRY Symmetry
CONSTRAINT Bound
INVARIANTS AdmissionTypeOK MailedAsRecorded OneOpening
PROPERTIES OutcomeStays
CHECK_DEADLOCK FALSE
