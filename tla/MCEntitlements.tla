---------------------------- MODULE MCEntitlements -----------------------------
(***************************************************************************)
(* Entitlements with two checkouts.                                        *)
(***************************************************************************)
EXTENDS Entitlements, TLC

CONSTANTS s1, s2, c1, c2

Symmetry == Permutations({s1, s2}) \cup Permutations({c1, c2})
===============================================================================
