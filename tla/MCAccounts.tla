------------------------------ MODULE MCAccounts -------------------------------
(***************************************************************************)
(* Accounts with three users; u1 changes the email to one that u2 has.     *)
(* Requests come in turn, on one worker, or overlap on two: the crew is    *)
(* chosen at the start.                                                    *)
(***************************************************************************)
EXTENDS Accounts, TLC

CONSTANTS
    u1, u2, u3, e1, e2, e3, n1, n2, k1, k2, w1,
    MaxOverlapping      \* bound: requests when they overlap

VARIABLE inTurn

Token(email, name, avatar) == [email |-> email, name |-> name, avatar |-> avatar]

TokensOfTwo ==
    u1 :> {Token(e1, n1, Nobody), Token(e2, n1, Photo)}
        @@ u2 :> {Token(e2, n2, Nobody)} @@ u3 :> {Token(e3, n1, Nobody)}
KeysOfOne == k1 :> u1 @@ k2 :> u1

TurnInit == Init /\ inTurn \in BOOLEAN

TurnNext ==
    /\ Next
    /\ inTurn => \A w \in Workers \ {w1} : req'[w] = None
    /\ ~inTurn => begun' <= MaxOverlapping
    /\ UNCHANGED inTurn

TurnSpec == TurnInit /\ [][TurnNext]_<<vars, inTurn>>

-------------------------------------------------------------------------------
(* Properties.                                                               *)

\* In turn, who accepted an invitation stays its acceptor (accept_invite).
AcceptedOnceInTurn == [][inTurn => AcceptanceKept]_<<vars, inTurn>>

\* In turn, an uploaded avatar gives way only to another upload or the deletion
\* (sync_from_supabase_claims, confirm_avatar_upload).
AvatarKeptInTurn == [][inTurn => UploadKept]_<<vars, inTurn>>
===============================================================================
