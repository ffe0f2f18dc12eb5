\* One file when requests and tasks overlap, two when they come in turn.
SPECIFICATION TurnSpec
CONSTANTS
    e1 = e1
    p1 = p1
    k1 = k1
    k2 = k2
    Expenses = {e1}
    Payments = {p1}
    Keys = {k1, k2}
    Owner <- TwoReceipts
    Workers = {w1}
    Celery = {c1}
    MaxRetries = 1
    MaxActive = 2
    MaxFaults = 2
    MaxFaultsInTurn = 1
PROPERTIES
    OnlyMatchingKeyRemovedInTurn
    RemovedKeysStayAwayInTurn
    KnownKeysKeptInTurn
    OrphansGo
