------------------------------ MODULE MCReceipts -------------------------------
(***************************************************************************)
(* Receipts with one expense and one payment.  Whether requests and tasks  *)
(* come in turn or overlap is chosen at the start: what the code           *)
(* guarantees one at a time is asked of the behaviours in turn.  Those     *)
(* that overlap have one file.                                             *)
(***************************************************************************)
EXTENDS Receipts, TLC

CONSTANTS
    e1, p1, k1, k2,
    MaxFaultsInTurn         \* bound: faults when in turn

VARIABLE inTurn

TwoReceipts == k1 :> e1 @@ k2 :> e1

TurnInit == Init /\ inTurn \in BOOLEAN

TurnNext ==
    /\ Next
    /\ IF inTurn
       THEN /\ Active' <= 1 /\ (deleted' # deleted => Active = 0)
            /\ faults' <= MaxFaultsInTurn
       ELSE link'[k2] = "none"
    /\ UNCHANGED inTurn

\* What is under way ends, so that taking turns never stands in the way of a
\* step the fairness asks for.
TurnSpec == TurnInit /\ [][TurnNext]_<<vars, inTurn>> /\ Fairness

-------------------------------------------------------------------------------
(* Properties.                                                               *)

\* In turn, the check of a missing object removes its key and no other
\* (test_s3_confirm_upload_only_removes_matching_key).
OnlyMatchingKeyRemovedInTurn == [][inTurn => OnlyKeyRemoved]_<<vars, inTurn>>

\* In turn, a key the check removed stays away until it is confirmed again
\* (test_s3_confirm_upload_removes_stale_key_when_object_missing).
RemovedKeysStayAwayInTurn == [][inTurn => NothingRevived]_<<vars, inTurn>>

\* In turn, the cleaner dispatches no deletion of a file that is referenced
\* (test_cleanup_orphan_dispatches_delete_for_unreferenced_keys).
KnownKeysKeptInTurn == [][inTurn => OrphansOnly]_<<vars, inTurn>>
===============================================================================
