------------------------------ MODULE GroupLedger ------------------------------
(***************************************************************************)
(* What everybody has in a group, three times: the balances of the group   *)
(* are sums over all rows, read by six queries outside a transaction; the  *)
(* balance of two users is a sum over their common rows; the list of       *)
(* expenses others still owe for replays the payments over the splits.     *)
(* Requests that write rows are single steps here, Expenses, Settlements   *)
(* and GroupMembership take them apart.                                    *)
(***************************************************************************)
EXTENDS Integers, Sequences, FiniteSets, Functions

CONSTANTS
    Users,
    Bills,              \* what an expense may be split into: who owes what
    Amounts,            \* of payments
    MaxWrites,          \* bound: requests that write, a purge counting as one
    MaxMeanwhile        \* bound: writes while balances are read

VARIABLES
    expenses,           \* in order of creation: payer, shares, deleted
    payments,           \* likewise: payer, receiver, amount, status
    members,
    purging,            \* the statement of a purge that is next, or "none"
    view,               \* the request for balances
    writes,
    undone              \* history: was an expense changed, or a payment disputed

rows == <<expenses, payments, members, purging>>
vars == <<rows, view, writes, undone>>

NoView == [step |-> "none"]

Init ==
    /\ expenses = <<>> /\ payments = <<>> /\ members = Users /\ purging = "none"
    /\ view = NoView /\ writes = 0 /\ undone = FALSE

-------------------------------------------------------------------------------
(* Sums over rows.  E and P are the expenses and payments of some moment.    *)

TotalOf(S, Value(_)) == SumFunction([i \in S |-> Value(i)])

ShareOf(u, e) == IF u \in DOMAIN e.shares THEN e.shares[u] ELSE 0
Cost(e) == TotalOf(DOMAIN e.shares, LAMBDA u : e.shares[u])

\* The default manager hides deleted expenses; payments are never deleted.
Live(E) == {i \in DOMAIN E : ~E[i].deleted}

Counted(P) == {j \in DOMAIN P : P[j].status # "disputed"}

\* Mutant of OwedSplits: the splits of deleted expenses count as well.
OwedSplitsOfAll(E, u) == TotalOf(DOMAIN E, LAMBDA i : ShareOf(u, E[i]))

\* The four sums behind compute_group_net_balances.
PaidExpenses(E, u) == TotalOf({i \in Live(E) : E[i].payer = u}, LAMBDA i : Cost(E[i]))
OwedSplits(E, u) == TotalOf(Live(E), LAMBDA i : ShareOf(u, E[i]))
PaidPayments(P, u) == TotalOf({j \in Counted(P) : P[j].payer = u}, LAMBDA j : P[j].amount)
ReceivedPayments(P, u) ==
    TotalOf({j \in Counted(P) : P[j].receiver = u}, LAMBDA j : P[j].amount)

\* _build_pairwise_balances: what v owes u.
Pairwise(E, P, u, v) ==
    LET Lent(a, b) == TotalOf({i \in Live(E) : E[i].payer = a}, LAMBDA i : ShareOf(b, E[i]))
        Given(a, b) == TotalOf({j \in Counted(P) : P[j].payer = a /\ P[j].receiver = b},
                               LAMBDA j : P[j].amount)
    IN  Lent(u, v) - Lent(v, u) + Given(u, v) - Given(v, u)

Balance(E, P, u) == TotalOf(Users \ {u}, LAMBDA v : Pairwise(E, P, u, v))

-------------------------------------------------------------------------------
(* The replay behind the expenses that others still owe for.                 *)

\* settlement_eligible_splits: the split of one of the pair in an expense of the
\* other one, whoever pays.
Debtor(e, p) == IF e.payer = p.payer THEN p.receiver ELSE p.payer
Eligible(E, i, p) ==
    /\ i \in Live(E)
    /\ E[i].payer \in {p.payer, p.receiver} /\ Debtor(E[i], p) \in DOMAIN E[i].shares

Smaller(m, n) == IF m < n THEN m ELSE n

\* One payment and one split of u: what is taken off it the payer's split gains.
Taken(E, i, u, state) ==
    LET take == Smaller(state.rem[i][u], state.left)
        grown == IF E[i].payer \in DOMAIN E[i].shares
                 THEN [state.rem EXCEPT ![i][E[i].payer] = @ + take] ELSE state.rem
    IN  [rem |-> [grown EXCEPT ![i][u] = @ - take], left |-> state.left - take]

\* Mutant of Applied: the newest expense is paid first.
AppliedNewestFirst(E, p, rem) ==
    LET after[k \in 0 .. Len(E)] ==
            LET i == Len(E) + 1 - k IN
            IF k = 0 THEN [rem |-> rem, left |-> p.amount]
            ELSE IF Eligible(E, i, p) THEN Taken(E, i, Debtor(E[i], p), after[k - 1])
            ELSE after[k - 1]
    IN  after[Len(E)].rem

\* One payment over all splits of its two users, oldest expense first.
Applied(E, p, rem) ==
    LET after[i \in 0 .. Len(E)] ==
            IF i = 0 THEN [rem |-> rem, left |-> p.amount]
            ELSE IF Eligible(E, i, p) THEN Taken(E, i, Debtor(E[i], p), after[i - 1])
            ELSE after[i - 1]
    IN  after[Len(E)].rem

Replayed(P) == {j \in DOMAIN P : P[j].status = "confirmed"}

\* _replay_confirmed_transactions, of the payments u has a part in.
Remaining(E, P, u) ==
    LET after[j \in 0 .. Len(P)] ==
            IF j = 0 THEN [i \in DOMAIN E |-> E[i].shares]
            ELSE IF j \in Replayed(P) /\ u \in {P[j].payer, P[j].receiver}
            THEN Applied(E, P[j], after[j - 1])
            ELSE after[j - 1]
    IN  after[Len(P)]

Inbound(P, u, v) == \E j \in Replayed(P) : P[j].payer = v /\ P[j].receiver = u

\* compute_owed_to_me_expense_ids, with those because of whom it is listed.
OwedToMe(E, P, u) ==
    {entry \in Live(E) \X Users :
        LET i == entry[1] v == entry[2] IN
        /\ E[i].payer = u /\ v # u /\ v \in DOMAIN E[i].shares
        /\ Remaining(E, P, u)[i][v] > 0
        /\ Pairwise(E, P, u, v) > 0 \/ Inbound(P, u, v)}

-------------------------------------------------------------------------------
(* Requests that write.                                                      *)

Meanwhile ==
    /\ view # NoView => view.meanwhile < MaxMeanwhile
    /\ view' = IF view = NoView THEN view ELSE [view EXCEPT !.meanwhile = @ + 1]

Writes == writes < MaxWrites /\ writes' = writes + 1 /\ Meanwhile

CreateExpense(u, bill) ==
    /\ Writes
    /\ {u} \cup DOMAIN bill \subseteq members
    /\ expenses' = Append(expenses, [payer |-> u, shares |-> bill, deleted |-> FALSE])
    /\ UNCHANGED <<payments, members, purging, undone>>

EditExpense(i, u, bill) ==
    /\ Writes
    /\ ~expenses[i].deleted /\ {u} \cup DOMAIN bill \subseteq members
    /\ expenses' = [expenses EXCEPT ![i].payer = u, ![i].shares = bill]
    /\ undone' = TRUE
    /\ UNCHANGED <<payments, members, purging>>

DeleteOrRestore(i) ==
    /\ Writes
    /\ expenses' = [expenses EXCEPT ![i].deleted = ~@]
    /\ undone' = TRUE
    /\ UNCHANGED <<payments, members, purging>>

\* A payment to somebody who is owed, within the debt less what is pending.
Pending(u, v) ==
    TotalOf({j \in Counted(payments) : payments[j].payer = u /\ payments[j].receiver = v
                                         /\ payments[j].status = "pending"},
            LAMBDA j : payments[j].amount)

Recordable(u, v, a) == a + Pending(u, v) <= Pairwise(expenses, payments, v, u)

RecordPayment(u, v, a) ==
    /\ Writes
    /\ {u, v} \subseteq members /\ Recordable(u, v, a)
    /\ payments' = Append(payments, [payer |-> u, receiver |-> v, amount |-> a,
                                     status |-> "pending"])
    /\ UNCHANGED <<expenses, members, purging, undone>>

AnswerPayment(j, answer) ==
    /\ Writes
    /\ payments[j].status = "pending"
    /\ payments' = [payments EXCEPT ![j].status = answer]
    /\ undone' = (undone \/ answer = "disputed")
    /\ UNCHANGED <<expenses, members, purging>>

LeaveGroup(u) ==
    /\ Writes
    /\ u \in members /\ Cardinality(members) > 1
    /\ members' = members \ {u}
    /\ UNCHANGED <<expenses, payments, purging, undone>>

\* delete_user_data: the memberships, then the expenses that the user created
\* (nothing else asks who did, so it is chosen here).  The third statement fails:
\* Transaction has no all_objects (Accounts).
PurgeMemberships(u) ==
    /\ Writes
    /\ purging = "none"
    /\ members' = members \ {u} /\ undone' = TRUE
    /\ purging' = "expenses"
    /\ UNCHANGED <<expenses, payments>>

PurgeExpenses ==
    /\ Meanwhile
    /\ purging = "expenses"
    /\ \E created \in SUBSET DOMAIN expenses :
          expenses' = [i \in DOMAIN expenses |->
                          [expenses[i] EXCEPT !.deleted = @ \/ i \in created]]
    /\ purging' = "none"
    /\ UNCHANGED <<payments, members, writes, undone>>

-------------------------------------------------------------------------------
(* The request for balances: members, expenses, splits, payments made,       *)
(* payments received, members again.                                         *)

\* was: the rows at the start, for the properties.
ReadMembers ==
    /\ view = NoView
    /\ view' = [step |-> "members", meanwhile |-> 0, first |-> members,
                was |-> <<expenses, payments>>, sum |-> [u \in members |-> 0]]
    /\ UNCHANGED <<rows, writes, undone>>

\* One aggregate is read and added to the sums.
Query(from, to, Value(_)) ==
    /\ view.step = from
    /\ view' = [view EXCEPT !.step = to, !.sum = [u \in view.first |-> @[u] + Value(u)]]
    /\ UNCHANGED <<rows, writes, undone>>

ReadExpenses == Query("members", "expenses", LAMBDA u : PaidExpenses(expenses, u))
ReadSplits == Query("expenses", "splits", LAMBDA u : -OwedSplits(expenses, u))
ReadPaid == Query("splits", "paid", LAMBDA u : PaidPayments(payments, u))
ReadReceived == Query("paid", "received", LAMBDA u : -ReceivedPayments(payments, u))

\* group_balances lists the members anew; who was not there before has nothing.
ReadMembersAgain ==
    /\ view.step = "received"
    /\ view' = [view EXCEPT !.step = "served",
                   !.sum = [u \in members |-> IF u \in view.first THEN @[u] ELSE 0]]
    /\ UNCHANGED <<rows, writes, undone>>

Write ==
    \/ \E u \in Users, bill \in Bills :
          \/ CreateExpense(u, bill)
          \/ \E i \in DOMAIN expenses : EditExpense(i, u, bill)
    \/ \E i \in DOMAIN expenses : DeleteOrRestore(i)
    \/ \E u, v \in Users, a \in Amounts : u # v /\ RecordPayment(u, v, a)
    \/ \E j \in DOMAIN payments, answer \in {"confirmed", "disputed"} :
          AnswerPayment(j, answer)
    \/ \E u \in Users : LeaveGroup(u) \/ PurgeMemberships(u)
    \/ PurgeExpenses

Read ==
    \/ ReadMembers \/ ReadExpenses \/ ReadSplits \/ ReadPaid \/ ReadReceived
    \/ ReadMembersAgain

Next == (view.step # "served" /\ Write) \/ Read

-------------------------------------------------------------------------------
(* Properties.                                                               *)

Served == view.step = "served"

\* The four sums of u at the start and now: which of them differ.
Changed(u) ==
    LET E == view.was[1] P == view.was[2] IN
    {q \in 1 .. 4 :
        \/ q = 1 /\ PaidExpenses(E, u) # PaidExpenses(expenses, u)
        \/ q = 2 /\ OwedSplits(E, u) # OwedSplits(expenses, u)
        \/ q = 3 /\ PaidPayments(P, u) # PaidPayments(payments, u)
        \/ q = 4 /\ ReceivedPayments(P, u) # ReceivedPayments(payments, u)}

\* Balances that nothing overlapped are what everybody has with all others taken
\* together (group_balances agrees with get_pairwise_balance).  One write that
\* overlaps shows before or after, and mixes the two only for somebody on both
\* of its sides, such as the payer of an expense with a share of their own.
BalancesOfAMoment ==
    Served /\ view.meanwhile <= 1 =>
        \A u \in DOMAIN view.sum :
            Cardinality(Changed(u)) <= 1 =>
                view.sum[u] \in {Balance(view.was[1], view.was[2], u),
                                 Balance(expenses, payments, u)}

\* Who is owed money finds an expense with the debtor in the list, as long as no
\* expense was changed and no payment disputed ("align with dashboard net
\* (BalanceService)", owed_me_replay.py:6).
OwedIsListed ==
    ~undone /\ view = NoView =>
        \A u, v \in Users :
            u # v /\ Pairwise(expenses, payments, u, v) > 0
               => \E entry \in OwedToMe(expenses, payments, u) : entry[2] = v
===============================================================================
