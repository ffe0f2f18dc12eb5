\* A crew of one serves five requests, a crew of two three of them.
SPECIFICATION CrewSpec
CONSTANTS
    u1 = u1
    u2 = u2
    u3 = u3
    w1 = w1
    w2 = w2
    Users = {u1, u2, u3}
    Creator = u1
    Workers = {w1, w2}
    MaxRequests = 5
    MaxOverlapping = 3
    MaxDeletions = 1
SYMMETRY Symmetry
INVARIANTS
    AdminExistsInTurn
PROPERTIES
    CreatorKeepsAdminInTurn
    NoResurrection
\* The bounds stop it.
CHECK_DEADLOCK FALSE
