\* A crew of one serves five requests, a crew of two three of them.
SPECIFICATION CrewSpec
CONSTANTS
    u1 = u1
    u2 = u2
    e1 = e1
    equal = equal
    shares = shares
    t1 = t1
    t2 = t2
    brl = brl
    eur = eur
    w1 = w1
    w2 = w2
    Users = {u1, u2}
    ExpenseIds = {e1}
    Methods = {equal, shares}
    Texts = {t1, t2}
    Currencies = {brl, eur}
    Workers = {w1, w2}
    MaxAmount = 2
    MaxRequests = 5
    MaxOverlapping = 3
    MaxRestores = 1
SYMMETRY Symmetry
INVARIANTS
    SplitsMatchAmount
    MethodMatchesSplitsInTurn
    CurrencyAgreesInTurn
PROPERTIES
    DeletedStaysDeleted
    ParticipantsAreMembersInTurn
    AuditTruthfulInTurn
\* The bounds stop it.
CHECK_DEADLOCK FALSE
