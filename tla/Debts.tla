--------------------------------- MODULE Debts ---------------------------------
(***************************************************************************)
(* From an expense to the payments that settle it: SplitShares computes    *)
(* what everybody owes, GroupLedger keeps the rows of a group and serves   *)
(* its balances, MinCashFlow simplifies them.  Where a behaviour starts is *)
(* left open: with an expense that one of the members paid, with a group   *)
(* whose balances are read while rows are written, with the rows of two    *)
(* members, or with any balances.                                          *)
(***************************************************************************)
EXTENDS MinCashFlow

CONSTANTS
    Members,                        \* of the group: some of the users
    Payer,                          \* of the expense that is split
    Pair,                           \* two members with rows in common
    Missing, Totals, Values,        \* of SplitShares
    MaxParticipants,                \* bound: participants of an expense
    Bills, Amounts,                 \* of GroupLedger
    MaxMeanwhile,                   \* bound: writes while balances are read
    MaxGroupWrites, MaxPairWrites   \* bounds: requests that write rows

ASSUME MembersAssumption == Members \subseteq Users /\ Payer \in Members /\ Pair \subseteq Members
ASSUME InputsAssumption ==
    /\ Totals \subseteq Nat
    /\ \A m \in {"equal", "exact", "percentage", "shares"} : Values[m] \ {Missing} \subseteq Int
    /\ MaxParticipants \in Nat
ASSUME RowsAssumption ==
    /\ \A bill \in Bills : \E owing \in SUBSET Members : bill \in [owing -> Nat]
    /\ Amounts \subseteq Nat \ {0}

VARIABLES
    call, step, owed,               \* of SplitShares
    expenses, payments, members, purging, view, writes, undone  \* of GroupLedger

Splits == INSTANCE SplitShares WITH Users <- Members
Ledger == INSTANCE GroupLedger WITH Users <- Members, MaxWrites <- MaxPairWrites

splitVars == <<call, step, owed>>
ledgerVars == <<expenses, payments, members, purging, view, writes, undone>>
allVars == <<vars, splitVars, ledgerVars>>

Even == [u \in Users |-> 0]

AnyBalances == net \in [Users -> Balances] /\ call = Missing /\ step = "none" /\ owed = <<>>
AnExpense == net = Even /\ Splits!Init
AGroup == net = Even /\ call = Missing /\ owed = <<>> /\ step \in {"group", "pair"}

DebtsInit ==
    /\ AnyBalances \/ AnExpense \/ AGroup
    /\ queued = net /\ suggestions = <<>>
    /\ Ledger!Init

\* compute_group_net_balances of a group with this expense: the amount paid
\* less what is owed.
Balance(u) ==
    (IF u = Payer THEN call.total ELSE 0)
        - Splits!SumOf([i \in DOMAIN owed |-> IF call.splits[i].user = u THEN owed[i] ELSE 0])

\* What the balances came from is forgotten: simplifying asks for them only.
Simplified(balances) ==
    /\ net' = balances /\ queued' = net' /\ suggestions' = <<>>
    /\ step' = "none" /\ call' = Missing /\ owed' = <<>>

Simplify ==
    /\ step = "computed"
    /\ Simplified([u \in Users |-> Balance(u)])
    /\ UNCHANGED ledgerVars

\* simplified_balances, of the balances that group_balances served.
SimplifyServed ==
    /\ step = "group" /\ Ledger!Served
    /\ Simplified([u \in Users |-> IF u \in members THEN view.sum[u] ELSE 0])
    /\ expenses' = <<>> /\ payments' = <<>> /\ members' = Members /\ purging' = "none"
    /\ view' = Ledger!NoView /\ writes' = 0 /\ undone' = FALSE

GroupNext == step = "group" /\ Ledger!Next /\ writes' <= MaxGroupWrites

\* Two users and their common rows, which nothing but payments settles.
PairNext ==
    /\ step = "pair" /\ Ledger!Write
    /\ members' = Members /\ ~undone'
    /\ \A i \in DOMAIN expenses' :
          {expenses'[i].payer} \cup DOMAIN expenses'[i].shares \subseteq Pair

DebtsNext ==
    \/ step = "none" /\ Next /\ UNCHANGED <<splitVars, ledgerVars>>
    \/ Simplify \/ SimplifyServed
    \/ step \in {"called", "validated"} /\ Splits!Next /\ UNCHANGED <<vars, ledgerVars>>
    \/ (GroupNext \/ PairNext) /\ UNCHANGED <<vars, splitVars>>

DebtsSpec == DebtsInit /\ [][DebtsNext]_allVars /\ WF_allVars(DebtsNext)

-------------------------------------------------------------------------------
(* Properties.                                                               *)

\* The splits add up to the amount, for every method and every input that is
\* accepted (SplitService's rounding_adjustment).
SumsToTotal == step # "none" => Splits!SumsToTotal

\* Each owes what is due to half a cent; the first also takes the roundings of
\* all others (SplitService).
FairToTheCent == step # "none" => Splits!FairToTheCent

\* Balances that nothing overlapped are what everybody has with all others taken
\* together; one write that overlaps shows before or after (group_balances).
BalancesOfAMoment == Ledger!BalancesOfAMoment

\* Who is owed money finds an expense with the debtor in the list, as long as no
\* expense was changed and no payment disputed (compute_owed_to_me_expense_ids).
OwedIsListed == Ledger!OwedIsListed
===============================================================================
