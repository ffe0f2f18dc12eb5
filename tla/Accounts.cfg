\* Three users, one of whom changes the email; one invitation, two avatars.
SPECIFICATION TurnSpec
CONSTANTS
    u1 = u1
    u2 = u2
    u3 = u3
    e1 = e1
    e2 = e2
    e3 = e3
    n1 = n1
    n2 = n2
    k1 = k1
    k2 = k2
    w1 = w1
    Users = {u1, u2, u3}
    Emails = {e1, e2, e3}
    Names = {n1, n2}
    Keys = {k1, k2}
    Owner <- KeysOfOne
    Photo = Photo
    Nobody = Nobody
    Tokens <- TokensOfTwo
    Invites = {i1}
    Workers = {w1, w2}
    MaxRequests = 4
    MaxOverlapping = 3
PROPERTIES
    NothingUndone
    DeletedStayOut
    AcceptedOnceInTurn
    AvatarKeptInTurn
\* The requests of a bounded behaviour come to an end.
CHECK_DEADLOCK FALSE
