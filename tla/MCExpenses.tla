------------------------------ MODULE MCExpenses -------------------------------
(***************************************************************************)
(* Expenses on small instances.  Users, methods, texts and expenses are    *)
(* interchangeable, and so are workers.  The crew, one worker or several,  *)
(* is chosen at the start: what the code guarantees for requests served in *)
(* turn is asked of the behaviours with a crew of one.                     *)
(***************************************************************************)
EXTENDS Expenses, TLC

CONSTANTS
    u1, u2, e1, equal, shares, t1, t2, brl, eur, w1, w2,
    MaxOverlapping          \* bound: requests started by a crew of two

VARIABLE crew               \* the workers that serve requests

InTurn == \E w \in Workers : crew = {w}

CrewInit == Init /\ crew \in (SUBSET Workers) \ {{}}

CrewNext ==
    /\ \E w \in crew : Serve(w)
    /\ InTurn \/ begun' <= MaxOverlapping
    /\ UNCHANGED crew

CrewSpec == CrewInit /\ [][CrewNext]_<<vars, crew>>

Symmetry ==
    Permutations({u1, u2}) \cup Permutations({w1, w2})
        \cup Permutations({equal, shares}) \cup Permutations({t1, t2})
        \cup Permutations({brl, eur})

-------------------------------------------------------------------------------
(* Properties.                                                               *)

\* In turn, the live splits were computed by the method the expense shows
\* (full_update).
MethodMatchesSplitsInTurn == InTurn => MethodMatchesSplits

\* In turn, and until an expense is restored, the expenses that count are in the
\* currency of the group (update_group: "Cannot change currency after expenses
\* have been added.").
CurrencyAgreesInTurn == InTurn /\ restores = 0 => CurrencyAgrees

\* In turn, splits are only written for active members of the group, payer and
\* creator included (_validate_group_participants).
ParticipantsAreMembersInTurn ==
    [][InTurn => \A w \in Workers : WrittenForMembers(w)]_<<vars, crew>>

\* In turn, the audit log is a history: each entry starts from what the expense
\* was, and ends in what it is (AuditService.log).
AuditTruthfulInTurn ==
    [][InTurn => \A e \in ExpenseIds : EntryTruthful(e)]_<<vars, crew>>
===============================================================================
