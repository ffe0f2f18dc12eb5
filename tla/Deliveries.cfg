\* An expense of u1 that u2 has a share in, and a payment of u2 to u1.
SPECIFICATION TurnSpec
CONSTANTS
    u1 = u1
    u2 = u2
    x1 = x1
    p1 = p1
    c1 = c1
    Users = {u1, u2}
    Author = u1
    Expenses = {x1}
    Payments = {p1}
    Parties <- PartiesOfOne
    Celery = {c1, c2}
    MaxRetries = 1
    MaxEdits = 2
    MaxFaults = 2
    MaxVersionsOverlapping = 1
    MaxQueued = 4
INVARIANTS NoticesBounded
PROPERTIES
    NewsInOrderInTurn
    NewsArrivesInTurn
\* Nothing is left to deliver.
CHECK_DEADLOCK FALSE
