-------------------------------- MODULE MCDebts --------------------------------
(***************************************************************************)
(* Debts with three members, four users for the simplification.            *)
(* Percentages add up to a hundred exactly, nearly and not at all; a       *)
(* hundredth of a percent of the largest total is two cents.               *)
(***************************************************************************)
EXTENDS Debts, TLC

CONSTANTS u1, u2, u3, u4

MCValues ==
    "equal" :> {Missing}
        @@ "exact" :> {Missing, -1, 0, 1, 2, 3, 100}
        @@ "percentage" :> {Missing, -1, 0, 3333, 3334, 5000, 5001, 10000}
        @@ "shares" :> {Missing, 0, 1, 2, 5, 7}

MCBills == {u1 :> 1 @@ u2 :> 1 @@ u3 :> 1, u2 :> 2, u1 :> 1 @@ u2 :> 2}
===============================================================================
