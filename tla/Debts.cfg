\* apps/ledger/algorithms.py (any whole cent is pushed back) and every split method.
SPECIFICATION DebtsSpec
CONSTANTS
    u1 = u1
    u2 = u2
    u3 = u3
    u4 = u4
    Missing = Missing
    Users = {u1, u2, u3, u4}
    MaxBalance = 4
    Remainder = 0
    Members = {u1, u2, u3}
    Payer = u1
    Pair = {u1, u2}
    Totals = {0, 1, 2, 5, 100, 20001}
    Values <- MCValues
    MaxParticipants = 3
    Bills <- MCBills
    Amounts = {1, 2}
    MaxMeanwhile = 1
    MaxGroupWrites = 3
    MaxPairWrites = 5
INVARIANTS
    WithinBalances
    FewSuggestions
    SettlesEverything
    SumsToTotal
    FairToTheCent
    BalancesOfAMoment
    OwedIsListed
PROPERTIES Terminates
\* The functions return.
CHECK_DEADLOCK FALSE
