---------------------------- MODULE MCSettlements ----------------------------
(***************************************************************************)
(* Settlements on small instances, and the properties its runs check.      *)
(***************************************************************************)
EXTENDS Settlements, TLC

CONSTANTS u1, u2, g1, g2, personal, w1, w2

MCUsers == {u1, u2}
MCWorkers == {w1, w2}

\* str(None) sorts among the identifiers; g1 < personal < g2 here.
MCRank == (g1 :> 0) @@ (personal :> 1) @@ (g2 :> 2)
MCRankOne == (g1 :> 0) @@ (personal :> 1)
=============================================================================
