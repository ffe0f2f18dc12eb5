------------------------------ MODULE SplitShares ------------------------------
(***************************************************************************)
(* SplitService (apps/expenses): who owes how much of an expense.  Amounts *)
(* are in cents, percentages in hundredths of a percent, shares are        *)
(* relative.  A call validates the input and then computes.                *)
(***************************************************************************)
EXTENDS Integers, Sequences, Functions

CONSTANTS
    Users,
    Missing,            \* an optional value that was not sent
    Totals,             \* amounts of the expense
    Values,             \* Values[method]: amount_owed or share_value
    MaxParticipants     \* bound: participants of an expense

Methods == {"equal", "exact", "percentage", "shares"}
Hundred == 10000        \* percent

VARIABLES
    call,       \* method, total and splits_data
    step,       \* of the call
    owed        \* owed[i]: amount_owed of the i-th participant

vars == <<call, step, owed>>

Inputs(m) ==
    UNION {[1 .. n -> [user : Users, value : Values[m]]] : n \in 0 .. MaxParticipants}
Call == UNION {[method : {m}, total : Totals, splits : Inputs(m)] : m \in Methods}

TypeOK ==
    /\ call \in Call
    /\ step \in {"called", "validated", "refused", "computed"}
    /\ owed \in Seq(Int)
    /\ step = "computed" => Len(owed) = Len(call.splits)

Init == call \in Call /\ step = "called" /\ owed = <<>>

-------------------------------------------------------------------------------
Rows == DOMAIN call.splits
Value(i) == call.splits[i].value
SumOf(s) == SumFunction(s)
SumOfValues == SumOf([i \in Rows |-> Value(i)])
Distance(a, b) == IF a < b THEN b - a ELSE a - b

EverybodyOnce == \A i, j \in Rows : i # j => call.splits[i].user # call.splits[j].user

\* validate_splits: the sums may be off by 0.01, a cent or a hundredth of a percent.
Valid ==
    LET AllSent == \A i \in Rows : Value(i) # Missing
        AllFrom(least) == \A i \in Rows : Value(i) >= least IN
    /\ call.splits # <<>>
    /\ EverybodyOnce
    /\ CASE call.method = "equal"      -> TRUE
         [] call.method = "exact"      -> /\ AllSent /\ AllFrom(0)
                                          /\ Distance(SumOfValues, call.total) <= 1
         [] call.method = "percentage" -> /\ AllSent /\ AllFrom(0)
                                          /\ Distance(SumOfValues, Hundred) <= 1
         [] call.method = "shares"     -> AllSent /\ AllFrom(1)

Validate ==
    /\ step = "called"
    /\ step' = IF Valid THEN "validated" ELSE "refused"
    /\ UNCHANGED <<call, owed>>

\* Mutant of Rounded: cents are cut off.
RoundedDown(a, b) == a \div b

\* quantize: the nearest integer to a / b, a tie to the even one.
Rounded(a, b) ==
    LET down == a \div b
        twice == 2 * (a % b) IN
    IF twice > b \/ (twice = b /\ down % 2 = 1) THEN down + 1 ELSE down

\* What the i-th participant owes, before rounding: a fraction.
Due(i) ==
    CASE call.method = "equal"      -> [num |-> call.total, den |-> Len(call.splits)]
      [] call.method = "exact"      -> [num |-> Value(i), den |-> 1]
      [] call.method = "percentage" -> [num |-> call.total * Value(i), den |-> Hundred]
      [] call.method = "shares"     -> [num |-> call.total * Value(i), den |-> SumOfValues]

Shares == [i \in Rows |-> Rounded(Due(i).num, Due(i).den)]

\* Mutant of Adjusted: no adjustment.
Unadjusted(s) == s

\* The first participant takes the difference.
Adjusted(s) == [s EXCEPT ![1] = @ + call.total - SumOf(s)]

Compute ==
    /\ step = "validated"
    /\ owed' = Adjusted(Shares)
    /\ step' = "computed"
    /\ UNCHANGED call

Next == Validate \/ Compute
Spec == Init /\ [][Next]_vars

-------------------------------------------------------------------------------
(* Properties.                                                               *)

\* The splits add up to the amount, for every method and every input that is
\* accepted (rounding_adjustment).
SumsToTotal == step = "computed" => SumOf(owed) = call.total

\* Half cents that n roundings can add up to, and what validation lets pass.
Slack ==
    LET d == Due(1).den IN
    CASE call.method = "exact"      -> 2
      [] call.method = "percentage" -> Len(owed) * d + 2 * call.total
      [] OTHER                      -> Len(owed) * d

\* Each pays what is due to half a cent; the first also takes the roundings of
\* all others, and what the tolerance of the validation left open.
FairToTheCent ==
    step = "computed" =>
        \A i \in Rows :
            2 * Distance(owed[i] * Due(i).den, Due(i).num)
                <= IF i = 1 THEN Slack ELSE Due(i).den

\* "Exact split amounts cannot be negative." (_validate_exact)
NoNegativeExact ==
    step = "computed" /\ call.method = "exact" => \A i \in DOMAIN owed : owed[i] >= 0

\* "Equal split with rounding on the last participant" (SplitService): the
\* others pay the same.
RoundingOnTheLast ==
    step = "computed" /\ call.method = "equal" =>
        \A i, j \in 1 .. Len(owed) - 1 : owed[i] = owed[j]
===============================================================================
