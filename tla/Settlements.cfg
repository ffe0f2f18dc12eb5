SPECIFICATION Spec
CONSTANTS
    u1 = u1
    u2 = u2
    g1 = g1
    g2 = g2
    personal = personal
    w1 = w1
    w2 = w2
    Users <- MCUsers
    Groups = {g1, g2}
    Personal = personal
    NameRank <- MCRank
    Workers = {w1}
    MaxAmount = 2
    MaxRequests = 3
    MaxEdits = 3
    BrokerFails = TRUE
INVARIANTS
    ResolvedOnce
    RecalcBeforeMail
PROPERTIES
    NeverOverRecorded
    OffsetKeepsNet
    LifecycleSpec
CHECK_DEADLOCK FALSE
