-------------------------- MODULE MCGroupMembership --------------------------
(***************************************************************************)
(* GroupMembership on three users.  The users other than the creator are   *)
(* interchangeable.  The crew, one worker or several, is chosen at the     *)
(* start: what the code guarantees for requests served in turn is asked of *)
(* the behaviours with a crew of one.                                      *)
(***************************************************************************)
EXTENDS GroupMembership, TLC

CONSTANTS
    u1, u2, u3, w1, w2,
    MaxOverlapping          \* bound: requests started by a crew of two

VARIABLE crew               \* the workers that serve requests

InTurn == \E w \in Workers : crew = {w}

CrewInit == Init /\ crew \in (SUBSET Workers) \ {{}}

CrewNext ==
    /\ (\E w \in crew : Serve(w)) \/ (\E u \in Users : Purge(u))
    /\ InTurn \/ begun' <= MaxOverlapping
    /\ UNCHANGED crew

CrewSpec == CrewInit /\ [][CrewNext]_<<vars, crew>>

Symmetry == Permutations({u2, u3}) \cup Permutations({w1, w2})

-------------------------------------------------------------------------------
(* Properties.                                                               *)

\* Requests in turn never take a group's last admin away, whatever the order of
\* promotions, demotions, removals and departures; deleting an account does (the
\* last-admin checks of leave_group, remove_member and change_role).
AdminExistsInTurn == InTurn /\ accounts = Users => AdminExists

\* In turn, nobody but the creator ends the creator's being an admin (change_role's
\* "Cannot demote the group creator", remove_member's "Cannot remove").
CreatorKeepsAdminInTurn == [][InTurn => CreatorKept]_<<vars, crew>>
=============================================================================
