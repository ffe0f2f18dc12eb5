------------------------------- MODULE Accounts --------------------------------
(***************************************************************************)
(* Accounts and invitations.  Every request brings a token; its claims are *)
(* written into the user's row before the request does anything else.      *)
(* What a request writes later starts from the row it loaded then.  Phones *)
(* are left out: they are unique, synchronised and addressed as emails     *)
(* are.                                                                    *)
(***************************************************************************)
EXTENDS Integers, FiniteSets

CONSTANTS
    Users,          \* identities at Supabase (supabase_uid)
    Emails, Names,
    Keys, Owner,    \* uploaded avatars, and whose prefix each has
    Photo,          \* the picture of the identity provider
    Nobody,         \* also: no picture, no address, the name "Deleted User"
    Tokens,         \* Tokens[u]: the claims valid tokens of u may carry
    Invites,
    Workers,
    MaxRequests     \* bound: requests begun

Claims == [email : Emails, name : Names, avatar : {Photo, Nobody}]
Pictures == Keys \cup {Photo, Nobody}

ASSUME ParametersAssumption ==
    /\ Tokens \in [Users -> SUBSET Claims] /\ Owner \in [Keys -> Users]
    /\ MaxRequests \in Nat
    /\ Emails \cap Users = {} /\ Nobody \notin Users \cup Names \cup Keys \cup {Photo}
    /\ Photo \notin Keys

VARIABLES
    account,    \* rows of users
    invite,     \* rows of friend_invites
    lapsed,     \* invitations whose expires_at has passed
    removed,    \* avatars delete_s3_object was queued for
    purge,      \* purge[u]: the task delete_user_data
    req,        \* what each worker is doing
    begun

db == <<account, invite, lapsed, removed, purge>>
vars == <<db, req, begun>>

None == [step |-> "none"]   \* no row, no request

\* An erased row has the address that is made of its id: here the id itself.
Row == [email : Emails \cup Users, name : Names \cup {Nobody}, avatar : Pictures,
        deleted : BOOLEAN]
Invite == [inviter : Users, email : Emails \cup {Nobody},
           status : {"pending", "accepted", "expired"}, by : Users \cup {Nobody},
           deleted : BOOLEAN]
Operations == {"profile", "avatar", "delete", "invite", "accept"}
Request == [step : {"loaded", "authenticated", "found"},
            op : Operations, user : Users, claims : Claims, copy : Row,
            arg : Names \cup Keys \cup Emails \cup {Nobody} \cup Invites]

TypeOK ==
    /\ account \in [Users -> Row \cup {None}]
    /\ invite \in [Invites -> Invite \cup {None}]
    /\ lapsed \subseteq Invites /\ removed \subseteq Keys
    /\ purge \in [Users -> {"none", "queued", "ended"}]
    /\ req \in [Workers -> Request \cup {None}]
    /\ begun \in 0 .. MaxRequests

Init ==
    /\ account = [u \in Users |-> None] /\ invite = [i \in Invites |-> None]
    /\ lapsed = {} /\ removed = {} /\ purge = [u \in Users |-> "none"]
    /\ req = [w \in Workers |-> None] /\ begun = 0

-------------------------------------------------------------------------------
(* Authentication.                                                           *)

\* What the views accept: any key with one's own prefix, also one that was replaced
\* before, and an invitation that exists.
Arguments(u, op) ==
    CASE op = "profile" -> Names
      [] op = "avatar" -> {k \in Keys : Owner[k] = u}
      [] op = "delete" -> {Nobody}
      [] op = "invite" -> Emails \cup {Nobody}
      [] op = "accept" -> {i \in Invites : invite[i] # None}

Fresh(step, u, op, claims, copy, arg) ==
    [step |-> step, op |-> op, user |-> u, claims |-> claims, copy |-> copy, arg |-> arg]

\* The column email is unique.
Free(email, u) == \A v \in Users \ {u} : account[v] # None => account[v].email # email

\* get_or_create finds no row; the unique index lets one request insert it.
SignUp(w, u, op, arg) ==
    /\ req[w] = None /\ begun < MaxRequests /\ account[u] = None
    /\ \E c \in Tokens[u] :
          LET row == [email |-> c.email, name |-> c.name, avatar |-> c.avatar,
                      deleted |-> FALSE] IN
          /\ Free(c.email, u)
          /\ account' = [account EXCEPT ![u] = row]
          /\ req' = [req EXCEPT ![w] = Fresh("authenticated", u, op, c, row, arg)]
    /\ begun' = begun + 1
    /\ UNCHANGED <<invite, lapsed, removed, purge>>

LoadUser(w, u, op, arg) ==
    /\ req[w] = None /\ begun < MaxRequests /\ account[u] # None
    /\ \E c \in Tokens[u] :
          req' = [req EXCEPT ![w] = Fresh("loaded", u, op, c, account[u], arg)]
    /\ begun' = begun + 1
    /\ UNCHANGED db

\* The row as the claims want it.
Synced(copy, c) ==
    [copy EXCEPT !.email = c.email, !.name = c.name,
                 !.avatar = IF copy.avatar = Nobody THEN c.avatar ELSE copy.avatar]

\* Mutant of Saved: save() without update_fields writes the whole row.
SavedWhole(u, copy, row) == [account EXCEPT ![u] = row]

\* The columns in which row differs from the copy.
Merged(now, copy, row) ==
    [f \in DOMAIN now |-> IF row[f] # copy[f] THEN row[f] ELSE now[f]]

\* save(update_fields) writes those.
Saved(u, copy, row) == [account EXCEPT ![u] = Merged(@, copy, row)]

\* Mutant of Refused: a deleted account is let in.
RefusedTaken(c) == ~Free(c.claims.email, c.user)

\* ValueError and IntegrityError become a 401.
Refused(c) ==
    c.copy.deleted \/ (c.copy.email # c.claims.email /\ ~Free(c.claims.email, c.user))

Authenticate(w) ==
    LET c == req[w]
        row == Synced(c.copy, c.claims) IN
    /\ c # None /\ c.step = "loaded"
    /\ IF Refused(c)
       THEN UNCHANGED account /\ req' = [req EXCEPT ![w] = None]
       ELSE /\ account' = Saved(c.user, c.copy, row)
            /\ req' = [req EXCEPT ![w].step = "authenticated", ![w].copy = row]
    /\ UNCHANGED <<invite, lapsed, removed, purge, begun>>

-------------------------------------------------------------------------------
(* The account.                                                              *)

Performs(w, op) == req[w] # None /\ req[w].step = "authenticated" /\ req[w].op = op
Answer(w) == req' = [req EXCEPT ![w] = None]

UpdateProfile(w) ==
    LET c == req[w] IN
    /\ Performs(w, "profile")
    /\ account' = Saved(c.user, c.copy, [c.copy EXCEPT !.name = c.arg])
    /\ Answer(w)
    /\ UNCHANGED <<invite, lapsed, removed, purge, begun>>

\* Mutant of Replaced: the old picture goes even if it is the new one.
ReplacedAlways(c) == {c.copy.avatar} \cap Keys

\* The old picture, if it was uploaded and is not the new one.
Replaced(c) == ({c.copy.avatar} \cap Keys) \ {c.arg}

\* The deletion is queued after the commit, unless the broker is down.
ConfirmAvatarUpload(w) ==
    LET c == req[w] IN
    /\ Performs(w, "avatar")
    /\ account' = [account EXCEPT ![c.user].avatar = c.arg]
    /\ removed' \in {removed, removed \cup Replaced(c)}
    /\ Answer(w)
    /\ UNCHANGED <<invite, lapsed, purge, begun>>

Erased(u) == [email |-> u, name |-> Nobody, avatar |-> Nobody, deleted |-> TRUE]

\* anonymize_and_soft_delete; the purge is queued after the commit, or lost.
DeleteAccount(w) ==
    LET u == req[w].user IN
    /\ Performs(w, "delete")
    /\ account' = [account EXCEPT ![u] = Erased(u)]
    /\ purge' \in {purge, [purge EXCEPT ![u] = "queued"]}
    /\ Answer(w)
    /\ UNCHANGED <<invite, lapsed, removed, begun>>

\* delete_user_data hides memberships (GroupMembership) and expenses (GroupLedger).
\* Its third statement asks for Transaction.all_objects, which that model does not
\* have: the task ends with an AttributeError, before it comes to the invitations.
DeleteUserData(u) ==
    /\ purge[u] = "queued"
    /\ purge' = [purge EXCEPT ![u] = "ended"]
    /\ UNCHANGED <<account, invite, lapsed, removed, req, begun>>

-------------------------------------------------------------------------------
(* Invitations.                                                              *)

CreateInvite(w) ==
    LET c == req[w] IN
    /\ Performs(w, "invite")
    /\ \E i \in Invites :
          /\ invite[i] = None
          /\ invite' = [invite EXCEPT ![i] =
                [inviter |-> c.user, email |-> c.arg, status |-> "pending",
                 by |-> Nobody, deleted |-> FALSE]]
    /\ Answer(w)
    /\ UNCHANGED <<account, lapsed, removed, purge, begun>>

\* Seven days pass.
Lapse(i) ==
    /\ invite[i] # None /\ i \notin lapsed
    /\ lapsed' = lapsed \cup {i}
    /\ UNCHANGED <<account, invite, removed, purge, req, begun>>

\* Mutant of Pending: any status will do.
PendingOrNot(row) == ~row.deleted

Pending(row) == row.status = "pending" /\ ~row.deleted

\* get_pending_invite_by_token.
FindInvite(w) ==
    LET c == req[w] IN
    /\ Performs(w, "accept")
    /\ req' = [req EXCEPT ![w] = IF Pending(invite[c.arg])
                                 THEN [c EXCEPT !.step = "found"] ELSE None]
    /\ UNCHANGED <<db, begun>>

\* An invitation with an address is for its owner, one without for anybody else.
MayAccept(c, row) ==
    /\ row.inviter # c.user
    /\ row.email # Nobody => row.email = c.copy.email

\* accept_invite, after the row was found: it is saved by its id, whatever has
\* become of it.
AcceptInvite(w) ==
    LET c == req[w]
        row == invite[c.arg] IN
    /\ c # None /\ c.step = "found"
    /\ invite' =
         IF c.arg \in lapsed THEN [invite EXCEPT ![c.arg].status = "expired"]
         ELSE IF MayAccept(c, row)
         THEN [invite EXCEPT ![c.arg].status = "accepted", ![c.arg].by = c.user]
         ELSE invite
    /\ Answer(w)
    /\ UNCHANGED <<account, lapsed, removed, purge, begun>>

-------------------------------------------------------------------------------
Serve(w) ==
    \/ Authenticate(w) \/ UpdateProfile(w) \/ ConfirmAvatarUpload(w) \/ DeleteAccount(w)
    \/ CreateInvite(w) \/ FindInvite(w) \/ AcceptInvite(w)

Next ==
    \/ \E w \in Workers :
          \/ \E u \in Users, op \in Operations : \E arg \in Arguments(u, op) :
                SignUp(w, u, op, arg) \/ LoadUser(w, u, op, arg)
          \/ Serve(w)
    \/ \E u \in Users : DeleteUserData(u)
    \/ \E i \in Invites : Lapse(i)

Spec == Init /\ [][Next]_vars

-------------------------------------------------------------------------------
(* Properties.                                                               *)

\* Whatever overlaps, a deleted account stays deleted and an invitation that was
\* answered is not open again: no save writes a column it did not mean to
\* (update_fields).
NotUndone ==
    /\ \A u \in Users : account[u] # None /\ account[u].deleted => account'[u].deleted
    /\ \A i \in Invites :
          invite[i] # None /\ invite[i].status # "pending" => invite'[i].status # "pending"
NothingUndone == [][NotUndone]_vars

\* Whatever overlaps, a deleted user stays out: only a request that loaded the row
\* before the deletion may still write into it, or send or accept an invitation in
\* the user's name; valid tokens open nothing any more (sync_from_supabase_claims).
BeganEarlier(u) ==
    \E w \in Workers :
        req[w] # None /\ req[w].user = u /\ ~req[w].copy.deleted /\ req'[w] # req[w]
Concerns(u, row) == row # None /\ u \in {row.inviter, row.by}
Untouched(u) ==
    /\ account'[u] = account[u]
    /\ \A i \in Invites : Concerns(u, invite'[i]) => Concerns(u, invite[i])
OnlyEarlierRequests ==
    \A u \in Users :
        account[u] # None /\ account[u].deleted => BeganEarlier(u) \/ Untouched(u)
DeletedStayOut == [][OnlyEarlierRequests]_vars

\* Who accepted an invitation stays its acceptor, and it does not expire any more
\* (accept_invite finds pending invitations only).
AcceptanceKept ==
    \A i \in Invites :
        invite[i] # None /\ invite[i].status = "accepted"
           => invite'[i].status = "accepted" /\ invite'[i].by = invite[i].by
AcceptedOnce == [][AcceptanceKept]_vars

\* What the task is for: once it has run, no invitation that the user sent or
\* accepted is visible ("removes your account and personal data from our systems",
\* web/privacy.html:66; the statements of delete_user_data about FriendInvite).
InvitationsForgotten ==
    \A u \in Users : purge[u] = "ended" =>
        \A i \in Invites : Concerns(u, invite[i]) => invite[i].deleted

\* An erased row stays erased: broken by a request that loaded the row before the
\* deletion and saves it afterwards, see README.md (anonymize_and_soft_delete).
StaysErased ==
    \A u \in Users : account[u] # None /\ account[u].deleted => account[u] = Erased(u)

\* An uploaded avatar gives way only to another upload or to the deletion of the
\* account ("Never overwrite an existing avatar with the provider (Google) photo",
\* UserService.sync_from_supabase_claims), and no step has the object deleted of an
\* avatar that is shown after it.
UploadKept ==
    \A u \in Users :
        account[u] # None /\ account[u].avatar \in Keys
           => \/ account'[u].deleted
              \/ account'[u].avatar \in Keys \ (removed' \ removed)
AvatarKept == [][UploadKept]_vars
===============================================================================
