SPECIFICATION Spec
CONSTANTS
    u1 = u1
    u2 = u2
    g1 = g1
    g2 = g2
    personal = personal
    w1 = w1
    w2 = w2
    Users <- MCUsers
    Groups = {g1}
    Personal = personal
    NameRank <- MCRankOne
    Workers = {w1}
    MaxAmount = 3
    MaxRequests = 2
    MaxEdits = 1
    BrokerFails = FALSE
PROPERTIES
    RefusalIsTruthful
CHECK_DEADLOCK FALSE
