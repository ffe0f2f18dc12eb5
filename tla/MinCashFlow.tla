------------------------------ MODULE MinCashFlow -----------------------------
(***************************************************************************)
(* run_min_cash_flow: the greedy simplification of the debts of a group.   *)
(* The repository has it twice, in apps/ledger/algorithms.py (served) and  *)
(* in apps/groups/algorithms.py (tested, not served); they differ in the   *)
(* largest remainder that is thrown away.  Balances are in cents.  A step  *)
(* is one round of the loop, which ends when either heap is empty.         *)
(***************************************************************************)
EXTENDS Integers, Sequences, FiniteSets, Functions

CONSTANTS
    Users,
    MaxBalance,     \* bound: largest balance at the start
    Remainder       \* the largest remainder that is not pushed back

ASSUME UsersAssumption == IsFiniteSet(Users)
ASSUME NumbersAssumption == MaxBalance \in Nat /\ Remainder \in Nat

VARIABLES
    net,            \* the argument
    queued,         \* what is in the heaps: credits positive, debts negative
    suggestions     \* the result so far

vars == <<net, queued, suggestions>>

Balances == -MaxBalance .. MaxBalance
Suggestion == [payer : Users, receiver : Users, amount : Nat \ {0}]

TypeOK ==
    /\ net \in [Users -> Int]
    /\ queued \in [Users -> Int]
    /\ suggestions \in Seq(Suggestion)

\* The balances need not add up to zero: a member who left is not among them.
Init ==
    /\ net \in [Users -> Balances]
    /\ queued = net
    /\ suggestions = <<>>

\* Mutant of Creditors: users who are even are pushed too.
CreditorsWithZeros == {u \in Users : queued[u] >= 0}

Creditors == {u \in Users : queued[u] > 0}
Debtors == {u \in Users : queued[u] < 0}

\* heappop: the largest in absolute value, the order of the ids among equals
\* left open.
Tops(heap) == {u \in heap : \A v \in heap : queued[u] * queued[u] >= queued[v] * queued[v]}

Smaller(a, b) == IF a < b THEN a ELSE b

\* Mutant of Amount: half of it, rounded up.
AmountHalf(p, r) == (Smaller(queued[r], -queued[p]) + 1) \div 2

\* Mutant of Amount: the larger of the two.
AmountLarger(p, r) == IF queued[r] > -queued[p] THEN queued[r] ELSE -queued[p]

Amount(p, r) == Smaller(queued[r], -queued[p])

\* Mutant of Rest: a remainder of one cent is thrown away.
RestOverACent(x) == IF x > Remainder + 1 THEN x ELSE 0

Rest(x) == IF x > Remainder THEN x ELSE 0

Pushed(p, r, a) ==
    [queued EXCEPT ![r] = Rest(@ - a), ![p] = -Rest(-@ - a)]

Suggest(p, r) ==
    LET a == Amount(p, r) IN
    /\ r \in Tops(Creditors) /\ p \in Tops(Debtors)
    /\ suggestions' =
         IF a > 0
         THEN Append(suggestions, [payer |-> p, receiver |-> r, amount |-> a])
         ELSE suggestions
    /\ queued' = Pushed(p, r, a)
    /\ UNCHANGED net

Next == \E p, r \in Users : Suggest(p, r)

\* The function is called, and runs to its end.
Spec == Init /\ [][Next]_vars /\ WF_vars(Next)

-------------------------------------------------------------------------------
(* Properties.                                                               *)

Returned == Creditors = {} \/ Debtors = {}

Paid == [i \in DOMAIN suggestions |-> suggestions[i].amount]
Given(u) == SumFunctionOnSet(Paid, {i \in DOMAIN suggestions : suggestions[i].payer = u})
Received(u) == SumFunctionOnSet(Paid, {i \in DOMAIN suggestions : suggestions[i].receiver = u})

\* A suggestion goes from somebody who owes to somebody who is owed, and is
\* within both balances (the min of credit and debt).
WithinBalances ==
    \A i \in DOMAIN suggestions :
        LET s == suggestions[i] IN
        s.amount <= net[s.receiver] /\ s.amount <= -net[s.payer]

\* Debts of n users take at most n - 1 payments ("fewer transactions settle
\* everything", README.md: each round empties at least one of its two users).
FewSuggestions ==
    suggestions # <<>> => Len(suggestions) < Cardinality(Users)

\* When the balances add up to zero, the suggestions settle all of them: the
\* tests of both copies say so (test_transfers_conserve_total_positive_balance).
SettlesEverything ==
    Returned /\ SumFunction(net) = 0
        => \A u \in Users : Received(u) - Given(u) = net[u]

\* The loop ends (each round takes somebody out of the heaps).
Terminates == <>[]Returned
===============================================================================
