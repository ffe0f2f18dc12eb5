---------------------------- MODULE AccountsProofs -----------------------------
(***************************************************************************)
(* Type correctness of Accounts and, for any number of workers, that no    *)
(* deletion and no answer is undone and deleted users stay out; for        *)
(* requests in turn, what is accepted and uploaded stays so.               *)
(***************************************************************************)
EXTENDS MCAccounts, TLAPS

\* A request has a row, and an argument of the kind its operation takes.
RequestsFit ==
    \A w \in Workers : req[w] # None =>
        /\ account[req[w].user] # None
        /\ req[w].op = "profile" => req[w].arg \in Names
        /\ req[w].op = "avatar" => req[w].arg \in Keys
        /\ req[w].op = "invite" => req[w].arg \in Emails \cup {Nobody}
        /\ req[w].op = "accept" => req[w].arg \in Invites /\ invite[req[w].arg] # None
        /\ req[w].step = "found" => req[w].op = "accept"

Inv == TypeOK /\ RequestsFit

LEMMA NoneIsNoRecord == None \notin Row /\ None \notin Invite /\ None \notin Request
BY DEF None, Row, Invite, Request

LEMMA RequestType ==
    ASSUME Inv, NEW w \in Workers, req[w] # None
    PROVE  /\ req[w] \in Request
           /\ req[w].user \in Users
           /\ account[req[w].user] \in Row
<1>1. req[w] \in Request
  BY DEF Inv, TypeOK
<1>2. QED
  BY <1>1 DEF Inv, TypeOK, RequestsFit, Request

\* A row stays a row, and keeps the flag of deletion, when the copy and what is
\* wanted agree about it.
LEMMA MergedType ==
    ASSUME NEW now \in Row, NEW copy \in Row, NEW row \in Row
    PROVE  /\ Merged(now, copy, row) \in Row
           /\ row.deleted = copy.deleted => Merged(now, copy, row).deleted = now.deleted
<1> DEFINE M == Merged(now, copy, row)
<1>1. DOMAIN now = {"email", "name", "avatar", "deleted"}
  BY DEF Row
<1>2. M = [email |-> M.email, name |-> M.name, avatar |-> M.avatar, deleted |-> M.deleted]
  BY <1>1 DEF Merged
<1>3. /\ M.email \in {row.email, now.email}
      /\ M.name \in {row.name, now.name}
      /\ M.avatar \in {row.avatar, now.avatar}
      /\ M.deleted \in {row.deleted, now.deleted}
      /\ row.deleted = copy.deleted => M.deleted = now.deleted
  BY <1>1 DEF Merged
<1> HIDE DEF M
<1>4. M \in Row
  BY <1>2, <1>3 DEF Row
<1>5. QED
  BY <1>3, <1>4 DEF M

LEMMA SyncedType ==
    ASSUME NEW copy \in Row, NEW c \in Claims
    PROVE  /\ Synced(copy, c) \in Row
           /\ Synced(copy, c).deleted = copy.deleted
           /\ Synced(copy, c).avatar \in Keys => Synced(copy, c).avatar = copy.avatar
           /\ copy.avatar \in Keys => Synced(copy, c).avatar = copy.avatar
BY ParametersAssumption DEF Synced, Row, Claims, Pictures

-------------------------------------------------------------------------------
LEMMA InitIsFine == Init => Inv
BY ParametersAssumption DEF Init, Inv, TypeOK, RequestsFit

\* A request begins.
LEMMA BeginStep ==
    ASSUME Inv, NEW w \in Workers, NEW u \in Users, NEW op \in Operations,
           NEW arg \in Arguments(u, op), SignUp(w, u, op, arg) \/ LoadUser(w, u, op, arg)
    PROVE  Inv'
<1> USE DEF Inv
<1>1. arg \in Names \cup Keys \cup Emails \cup {Nobody} \cup Invites
  BY DEF Arguments, Operations
<1>2. /\ op = "profile" => arg \in Names
      /\ op = "avatar" => arg \in Keys
      /\ op = "invite" => arg \in Emails \cup {Nobody}
      /\ op = "accept" => arg \in Invites /\ invite[arg] # None
  BY DEF Arguments
<1>3. \A c \in Tokens[u] : c \in Claims
  BY ParametersAssumption
<1>4. begun' \in 0 .. MaxRequests
  <2>1. begun < MaxRequests /\ begun' = begun + 1
    BY DEF SignUp, LoadUser
  <2>2. begun \in 0 .. MaxRequests
    BY DEF TypeOK
  <2>3. QED
    BY <2>1, <2>2, ParametersAssumption
<1> DEFINE Began(step, c, copy) == Fresh(step, u, op, c, copy, arg)
<1>5. \A step, c, copy :
         /\ Began(step, c, copy).step = step /\ Began(step, c, copy).op = op
         /\ Began(step, c, copy).user = u /\ Began(step, c, copy).arg = arg
         /\ step \in {"loaded", "authenticated"} /\ c \in Claims /\ copy \in Row
               => Began(step, c, copy) \in Request
  BY <1>1 DEF Fresh, Request
<1> HIDE DEF Began
<1>6. CASE SignUp(w, u, op, arg)
  <2> DEFINE Signed(c) == [email |-> c.email, name |-> c.name, avatar |-> c.avatar,
                           deleted |-> FALSE]
  <2>1. PICK c \in Tokens[u] :
           /\ account' = [account EXCEPT ![u] = Signed(c)]
           /\ req' = [req EXCEPT ![w] = Began("authenticated", c, Signed(c))]
    BY <1>6 DEF SignUp, Began
  <2>2. Signed(c) \in Row
    BY <1>3 DEF Claims, Row, Pictures
  <2>3. Signed(c) # None
    BY <2>2, NoneIsNoRecord
  <2> HIDE DEF Signed
  <2>4. TypeOK'
    BY <1>3, <1>4, <1>5, <1>6, <2>1, <2>2 DEF SignUp, TypeOK
  <2>5. /\ \A v \in Users : account[v] # None => account'[v] # None
        /\ account'[u] # None /\ UNCHANGED invite
    BY <1>6, <2>1, <2>3 DEF SignUp, TypeOK
  <2>6. /\ req'[w] = Began("authenticated", c, Signed(c))
        /\ \A v \in Workers \ {w} : req'[v] = req[v]
    BY <2>1 DEF TypeOK
  <2>7. RequestsFit'
    BY <1>2, <1>5, <2>5, <2>6, RequestType DEF RequestsFit
  <2>8. QED
    BY <2>4, <2>7
<1>7. CASE LoadUser(w, u, op, arg)
  <2>1. PICK c \in Tokens[u] : req' = [req EXCEPT ![w] = Began("loaded", c, account[u])]
    BY <1>7 DEF LoadUser, Began
  <2>2. account[u] \in Row
    BY <1>7 DEF LoadUser, TypeOK
  <2>3. TypeOK'
    BY <1>3, <1>4, <1>5, <1>7, <2>1, <2>2 DEF LoadUser, TypeOK, db
  <2>4. /\ req'[w] = Began("loaded", c, account[u])
        /\ \A v \in Workers \ {w} : req'[v] = req[v]
    BY <2>1 DEF TypeOK
  <2>5. RequestsFit'
    BY <1>2, <1>5, <1>7, <2>4, RequestType DEF LoadUser, RequestsFit, db
  <2>6. QED
    BY <2>3, <2>5
<1>8. QED
  BY <1>6, <1>7

\* The row as the request leaves it.
LEMMA SavedStep ==
    ASSUME Inv, NEW w \in Workers, req[w] # None, NEW row \in Row,
           row.deleted = req[w].copy.deleted
    PROVE  /\ Saved(req[w].user, req[w].copy, row) \in [Users -> Row \cup {None}]
           /\ \A u \in Users : account[u] # None =>
                 /\ Saved(req[w].user, req[w].copy, row)[u] # None
                 /\ Saved(req[w].user, req[w].copy, row)[u].deleted = account[u].deleted
<1> DEFINE c == req[w]
<1>1. c \in Request /\ c.user \in Users /\ account[c.user] \in Row /\ c.copy \in Row
  BY RequestType DEF Request
<1>2. /\ Merged(account[c.user], c.copy, row) \in Row
      /\ Merged(account[c.user], c.copy, row).deleted = account[c.user].deleted
  BY <1>1, MergedType
<1>3. QED
  BY <1>1, <1>2, NoneIsNoRecord DEF Saved, Inv, TypeOK

LEMMA AuthenticateStep ==
    ASSUME Inv, NEW w \in Workers, Authenticate(w)
    PROVE  Inv'
<1> DEFINE c == req[w]
           row == Synced(c.copy, c.claims)
<1> USE DEF Inv
<1>1. c \in Request /\ c.user \in Users /\ c.copy \in Row /\ c.claims \in Claims
  BY RequestType DEF Authenticate, Request
<1>2. row \in Row /\ row.deleted = c.copy.deleted
  BY <1>1, SyncedType
<1>3. account' \in [Users -> Row \cup {None}]
      /\ \A u \in Users : account[u] # None => account'[u] # None
  BY <1>2, SavedStep DEF Authenticate, TypeOK
<1>4. req'[w] = None \/ req'[w] = [c EXCEPT !.step = "authenticated", !.copy = row]
  BY DEF Authenticate, TypeOK
<1>5. [c EXCEPT !.step = "authenticated", !.copy = row] \in Request
  BY <1>1, <1>2 DEF Request
<1>6. req' = [req EXCEPT ![w] = req'[w]]
  BY DEF Authenticate, TypeOK
<1>7. TypeOK'
  BY <1>3, <1>4, <1>5, <1>6 DEF Authenticate, TypeOK
<1>8. RequestsFit'
  <2> SUFFICES ASSUME NEW v \in Workers, req'[v] # None
               PROVE  /\ req[v] # None
                      /\ req'[v].user = req[v].user /\ req'[v].op = req[v].op
                      /\ req'[v].arg = req[v].arg
                      /\ req'[v].step = "found" => req[v].step = "found"
    BY <1>3, RequestType DEF RequestsFit, Authenticate
  <2>1. CASE v = w
    BY <1>1, <1>4, <2>1 DEF Authenticate, Request
  <2>2. CASE v # w
    BY <1>6, <2>2 DEF TypeOK
  <2>3. QED
    BY <2>1, <2>2
<1>9. QED
  BY <1>7, <1>8
\* No row goes away, so that what the other requests need stays.
LEMMA FitKept ==
    ASSUME Inv, \A u \in Users : account[u] # None => account'[u] # None,
           \A i \in Invites : invite[i] # None => invite'[i] # None,
           \A w \in Workers : req'[w] \in {req[w], None}
    PROVE  RequestsFit'
BY RequestType DEF RequestsFit, Inv

LEMMA AccountStep ==
    ASSUME Inv, NEW w \in Workers,
           UpdateProfile(w) \/ ConfirmAvatarUpload(w) \/ DeleteAccount(w)
    PROVE  Inv'
<1> DEFINE c == req[w]
<1> USE DEF Inv
<1>1. c # None /\ c.step = "authenticated"
  BY DEF UpdateProfile, ConfirmAvatarUpload, DeleteAccount, Performs
<1>2. c \in Request /\ c.user \in Users /\ account[c.user] \in Row /\ c.copy \in Row
  BY <1>1, RequestType DEF Request
<1>3. req' = [req EXCEPT ![w] = None] /\ UNCHANGED <<invite, lapsed, begun>>
  BY DEF UpdateProfile, ConfirmAvatarUpload, DeleteAccount, Answer
<1>4. \A row \in Row : [account EXCEPT ![c.user] = row] \in [Users -> Row \cup {None}]
                      /\ \A u \in Users : account[u] # None =>
                            [account EXCEPT ![c.user] = row][u] # None
  BY <1>2, NoneIsNoRecord DEF TypeOK
<1>5. CASE UpdateProfile(w)
  <2>1. [c.copy EXCEPT !.name = c.arg] \in Row
           /\ [c.copy EXCEPT !.name = c.arg].deleted = c.copy.deleted
    BY <1>1, <1>2, <1>5 DEF UpdateProfile, Performs, RequestsFit, Row
  <2>2. /\ account' \in [Users -> Row \cup {None}]
        /\ \A u \in Users : account[u] # None => account'[u] # None
    BY <1>1, <1>5, <2>1, SavedStep DEF UpdateProfile
  <2>3. QED
    BY <1>3, <1>5, <2>2, FitKept DEF UpdateProfile, TypeOK
<1>6. CASE ConfirmAvatarUpload(w)
  <2>1. c.arg \in Keys /\ c.copy.avatar \in Pictures
    BY <1>1, <1>2, <1>6 DEF ConfirmAvatarUpload, Performs, RequestsFit, Row
  <2>2. [account[c.user] EXCEPT !.avatar = c.arg] \in Row
    BY <1>2, <2>1 DEF Row, Pictures
  <2>3. account' = [account EXCEPT ![c.user] = [account[c.user] EXCEPT !.avatar = c.arg]]
    BY <1>2, <1>6 DEF ConfirmAvatarUpload, TypeOK
  <2>4. removed' \subseteq Keys
    BY <1>6, <2>1 DEF ConfirmAvatarUpload, Replaced, TypeOK
  <2>5. QED
    BY <1>3, <1>4, <1>6, <2>2, <2>3, <2>4, FitKept DEF ConfirmAvatarUpload, TypeOK
<1>7. CASE DeleteAccount(w)
  <2>1. Erased(c.user) \in Row
    BY <1>2 DEF Erased, Row, Pictures
  <2>2. purge' \in [Users -> {"none", "queued", "ended"}]
    BY <1>2, <1>7 DEF DeleteAccount, TypeOK
  <2>3. account' = [account EXCEPT ![c.user] = Erased(c.user)]
    BY <1>7 DEF DeleteAccount
  <2>4. QED
    BY <1>3, <1>4, <1>7, <2>1, <2>2, <2>3, FitKept, ZenonT(60) DEF DeleteAccount, TypeOK
<1>8. QED
  BY <1>5, <1>6, <1>7

LEMMA PurgeStep ==
    ASSUME Inv, NEW u \in Users, DeleteUserData(u)
    PROVE  Inv'
<1>1. /\ purge' \in [Users -> {"none", "queued", "ended"}]
      /\ UNCHANGED <<account, invite, lapsed, removed, req, begun>>
  BY DEF DeleteUserData, Inv, TypeOK
<1>2. QED
  BY <1>1, FitKept DEF Inv, TypeOK

LEMMA InvitationStep ==
    ASSUME Inv, NEW w \in Workers, CreateInvite(w) \/ FindInvite(w) \/ AcceptInvite(w)
    PROVE  Inv'
<1> DEFINE c == req[w]
<1> USE DEF Inv
<1>1. c # None /\ c \in Request /\ c.user \in Users
  BY RequestType DEF CreateInvite, FindInvite, AcceptInvite, Performs
<1>2. UNCHANGED <<account, lapsed, removed, purge, begun>>
  BY DEF CreateInvite, FindInvite, AcceptInvite, db
<1>3. CASE CreateInvite(w)
  <2> DEFINE New == [inviter |-> c.user, email |-> c.arg, status |-> "pending",
                     by |-> Nobody, deleted |-> FALSE]
  <2>1. New \in Invite
    BY <1>1, <1>3 DEF CreateInvite, Performs, RequestsFit, Invite
  <2>2. New # None
    BY <2>1, NoneIsNoRecord
  <2>3. PICK i \in Invites : invite[i] = None /\ invite' = [invite EXCEPT ![i] = New]
    BY <1>3 DEF CreateInvite
  <2> HIDE DEF New
  <2>4. req' = [req EXCEPT ![w] = None]
    BY <1>3 DEF CreateInvite, Answer
  <2>5. QED
    BY <1>2, <2>1, <2>2, <2>3, <2>4, FitKept DEF TypeOK
<1>4. CASE FindInvite(w)
  <2>1. [c EXCEPT !.step = "found"] \in Request
    BY <1>1 DEF Request
  <2>2. /\ req'[w] \in {[c EXCEPT !.step = "found"], None}
        /\ req' = [req EXCEPT ![w] = req'[w]]
    BY <1>4 DEF FindInvite, TypeOK
  <2>3. TypeOK'
    BY <1>2, <1>4, <2>1, <2>2 DEF FindInvite, TypeOK, db
  <2>4. ASSUME NEW v \in Workers, req'[v] # None
        PROVE  /\ req[v] # None
               /\ req'[v].user = req[v].user /\ req'[v].op = req[v].op
               /\ req'[v].arg = req[v].arg
               /\ req'[v].step = "found" => req[v].op = "accept"
    <3>1. CASE v = w
      BY <1>1, <1>4, <2>2, <2>4, <3>1 DEF FindInvite, Performs, Request
    <3>2. CASE v # w
      BY <2>2, <2>4, <3>2 DEF TypeOK, RequestsFit
    <3>3. QED
      BY <3>1, <3>2
  <2>5. RequestsFit'
    BY <1>4, <2>4 DEF FindInvite, RequestsFit, db
  <2>6. QED
    BY <2>3, <2>5
<1>5. CASE AcceptInvite(w)
  <2>1. c.arg \in Invites /\ invite[c.arg] \in Invite
    BY <1>1, <1>5 DEF AcceptInvite, RequestsFit, TypeOK
  <2>2. /\ [invite[c.arg] EXCEPT !.status = "expired"] \in Invite
        /\ [invite[c.arg] EXCEPT !.status = "accepted", !.by = c.user] \in Invite
    BY <1>1, <2>1 DEF Invite
  <2>3. /\ invite' = [invite EXCEPT ![c.arg] = invite'[c.arg]]
        /\ invite'[c.arg] \in Invite
    BY <1>5, <2>1, <2>2 DEF AcceptInvite, TypeOK
  <2>4. req' = [req EXCEPT ![w] = None]
    BY <1>5 DEF AcceptInvite, Answer
  <2>5. QED
    BY <1>2, <2>1, <2>3, <2>4, NoneIsNoRecord, FitKept DEF TypeOK
<1>6. QED
  BY <1>3, <1>4, <1>5

LEMMA InvStep == Inv /\ [Next]_vars => Inv'
<1> SUFFICES ASSUME Inv, [Next]_vars
             PROVE  Inv'
  OBVIOUS
<1>1. CASE UNCHANGED vars
  BY <1>1 DEF Inv, TypeOK, RequestsFit, vars, db
<1>2. ASSUME NEW i \in Invites, Lapse(i)
      PROVE  Inv'
  BY <1>2 DEF Lapse, Inv, TypeOK, RequestsFit
<1>3. QED
  BY <1>1, <1>2, BeginStep, AuthenticateStep, AccountStep, PurgeStep, InvitationStep
     DEF Next, Serve

\* Whatever the users, tokens, workers and bounds, rows and requests are well
\* formed (apps/users/models.py, the views of apps/users).
THEOREM TypeCorrect == Spec => []TypeOK
<1>1. Inv => TypeOK
  BY DEF Inv
<1>2. QED
  BY <1>1, InitIsFine, InvStep, PTL DEF Spec
-------------------------------------------------------------------------------
(* For any number of workers.                                                *)

LEMMA AccountNotUndone ==
    ASSUME Inv, NEW w \in Workers,
           \/ Authenticate(w) \/ UpdateProfile(w)
           \/ ConfirmAvatarUpload(w) \/ DeleteAccount(w)
    PROVE  NotUndone
<1> DEFINE c == req[w]
<1> USE DEF Inv
<1>1. c # None
  BY DEF Authenticate, UpdateProfile, ConfirmAvatarUpload, DeleteAccount, Performs
<1>2. /\ c \in Request /\ c.user \in Users /\ account[c.user] \in Row
      /\ c.copy \in Row /\ c.claims \in Claims
  BY <1>1, RequestType DEF Request
<1>3. UNCHANGED invite
  BY DEF Authenticate, UpdateProfile, ConfirmAvatarUpload, DeleteAccount
<1>4. SUFFICES ASSUME NEW u \in Users, account[u] # None, account[u].deleted
               PROVE  account'[u].deleted
  BY <1>3 DEF NotUndone
<1>5. CASE Authenticate(w)
  BY <1>1, <1>2, <1>4, <1>5, SyncedType, SavedStep DEF Authenticate
<1>6. CASE UpdateProfile(w)
  <2>1. [c.copy EXCEPT !.name = c.arg] \in Row
           /\ [c.copy EXCEPT !.name = c.arg].deleted = c.copy.deleted
    BY <1>1, <1>2, <1>6 DEF UpdateProfile, Performs, RequestsFit, Row
  <2>2. QED
    BY <1>1, <1>4, <1>6, <2>1, SavedStep DEF UpdateProfile
<1>7. CASE ConfirmAvatarUpload(w)
  <2>1. [account[c.user] EXCEPT !.avatar = c.arg].deleted = account[c.user].deleted
    BY <1>2 DEF Row
  <2>2. QED
    BY <1>2, <1>4, <1>7, <2>1 DEF ConfirmAvatarUpload, TypeOK
<1>8. CASE DeleteAccount(w)
  BY <1>2, <1>4, <1>8 DEF DeleteAccount, Erased, TypeOK
<1>9. QED
  BY <1>5, <1>6, <1>7, <1>8

LEMMA InviteNotUndone ==
    ASSUME Inv, \/ \E w \in Workers : CreateInvite(w) \/ FindInvite(w) \/ AcceptInvite(w)
                \/ \E u \in Users : DeleteUserData(u)
    PROVE  NotUndone
<1> USE DEF Inv
<1>1. UNCHANGED account
  BY DEF CreateInvite, FindInvite, AcceptInvite, DeleteUserData, db
<1>2. SUFFICES ASSUME NEW i \in Invites, invite[i] # None, invite[i].status # "pending"
               PROVE  invite'[i].status # "pending"
  BY <1>1 DEF NotUndone
<1>3. invite[i] \in Invite
  BY <1>2 DEF TypeOK
<1>4. ASSUME NEW w \in Workers, CreateInvite(w) \/ FindInvite(w)
      PROVE  invite'[i] = invite[i]
  BY <1>2, <1>4 DEF CreateInvite, FindInvite, db, TypeOK
<1>5. ASSUME NEW w \in Workers, AcceptInvite(w)
      PROVE  invite'[i] \in {invite[i], [invite[i] EXCEPT !.status = "expired"],
                             [invite[i] EXCEPT !.status = "accepted", !.by = req[w].user]}
  BY <1>5 DEF AcceptInvite, TypeOK
<1>6. ASSUME NEW u \in Users, DeleteUserData(u)
      PROVE  invite'[i] = invite[i]
  BY <1>6 DEF DeleteUserData
<1>7. QED
  BY <1>2, <1>3, <1>4, <1>5, <1>6 DEF Invite

\* Whatever overlaps, what is deleted stays deleted and what is answered stays
\* answered (the update_fields of the saves in apps/users/services.py).
THEOREM SavesUndoNothing == Spec => NothingUndone
<1>1. ASSUME Inv, [Next]_vars
      PROVE  [NotUndone]_vars
  <2>1. ASSUME NEW w \in Workers, NEW u \in Users, NEW op \in Operations,
               NEW arg \in Arguments(u, op), SignUp(w, u, op, arg) \/ LoadUser(w, u, op, arg)
        PROVE  NotUndone
    BY <1>1, <2>1 DEF SignUp, LoadUser, NotUndone, Inv, TypeOK, db
  <2>2. ASSUME NEW i \in Invites, Lapse(i)
        PROVE  NotUndone
    BY <2>2 DEF Lapse, NotUndone
  <2>3. QED
    BY <1>1, <2>1, <2>2, AccountNotUndone, InviteNotUndone DEF Next, Serve
<1>2. QED
  BY <1>1, InitIsFine, InvStep, PTL DEF Spec, NothingUndone

\* Nothing is done for a request that was not let in.
LetInLive ==
    \A w \in Workers : req[w] # None /\ req[w].step # "loaded" => ~req[w].copy.deleted

LEMMA LetInStep ==
    ASSUME Inv, LetInLive, [Next]_vars
    PROVE  LetInLive'
<1> USE DEF Inv
<1>1. ASSUME NEW w \in Workers, NEW next, req' = [req EXCEPT ![w] = next],
             next # None /\ next.step # "loaded" => ~next.copy.deleted
      PROVE  LetInLive'
  BY <1>1 DEF LetInLive, TypeOK
<1>2. ASSUME NEW w \in Workers, NEW u \in Users, NEW op \in Operations,
             NEW arg \in Arguments(u, op), SignUp(w, u, op, arg) \/ LoadUser(w, u, op, arg)
      PROVE  LetInLive'
  <2>1. CASE SignUp(w, u, op, arg)
    <3> DEFINE fresh(c) == Fresh("authenticated", u, op, c,
                             [email |-> c.email, name |-> c.name, avatar |-> c.avatar,
                              deleted |-> FALSE], arg)
    <3>1. PICK c \in Tokens[u] : req' = [req EXCEPT ![w] = fresh(c)]
      BY <2>1 DEF SignUp
    <3>2. ~fresh(c).copy.deleted
      BY DEF Fresh
    <3> HIDE DEF fresh
    <3>3. QED
      BY <1>1, <3>1, <3>2
  <2>2. CASE LoadUser(w, u, op, arg)
    <3> DEFINE fresh(c) == Fresh("loaded", u, op, c, account[u], arg)
    <3>1. PICK c \in Tokens[u] : req' = [req EXCEPT ![w] = fresh(c)]
      BY <2>2 DEF LoadUser
    <3>2. fresh(c).step = "loaded"
      BY DEF Fresh
    <3> HIDE DEF fresh
    <3>3. QED
      BY <1>1, <3>1, <3>2
  <2>3. QED
    BY <1>2, <2>1, <2>2
<1>3. ASSUME NEW w \in Workers, Authenticate(w)
      PROVE  LetInLive'
  <2> DEFINE c == req[w]
             row == Synced(c.copy, c.claims)
  <2>1. c \in Request /\ c.copy \in Row /\ c.claims \in Claims
    BY <1>3, RequestType DEF Authenticate, Request
  <2>2. row.deleted = c.copy.deleted
    BY <2>1, SyncedType
  <2>3. CASE Refused(c)
    BY <1>1, <1>3, <2>3 DEF Authenticate
  <2>4. CASE ~Refused(c)
    <3>1. PICK next : next = [c EXCEPT !.step = "authenticated", !.copy = row]
      OBVIOUS
    <3>2. req' = [req EXCEPT ![w] = next]
      BY <1>3, <2>4, <3>1 DEF Authenticate, TypeOK
    <3>3. ~next.copy.deleted
      BY <2>1, <2>2, <2>4, <3>1 DEF Refused, Request
    <3>4. QED
      BY <1>1, <3>2, <3>3
  <2>5. QED
    BY <2>3, <2>4
<1>4. ASSUME NEW w \in Workers, FindInvite(w)
      PROVE  LetInLive'
  <2> DEFINE c == req[w]
  <2>1. c \in Request /\ c # None /\ c.step = "authenticated"
    BY <1>4, RequestType DEF FindInvite, Performs
  <2>2. PICK next : next = IF Pending(invite[c.arg]) THEN [c EXCEPT !.step = "found"] ELSE None
    OBVIOUS
  <2>3. req' = [req EXCEPT ![w] = next]
    BY <1>4, <2>2 DEF FindInvite
  <2>4. next # None => next.copy = c.copy
    BY <2>1, <2>2 DEF Request
  <2>5. QED
    BY <1>1, <2>1, <2>3, <2>4 DEF LetInLive
<1>5. ASSUME NEW w \in Workers,
             \/ UpdateProfile(w) \/ ConfirmAvatarUpload(w) \/ DeleteAccount(w)
             \/ CreateInvite(w) \/ AcceptInvite(w)
      PROVE  LetInLive'
  BY <1>1, <1>5 DEF UpdateProfile, ConfirmAvatarUpload, DeleteAccount, CreateInvite,
                    AcceptInvite, Answer
<1>6. CASE UNCHANGED req
  BY <1>6 DEF LetInLive
<1>7. QED
  BY <1>2, <1>3, <1>4, <1>5, <1>6 DEF Next, Serve, DeleteUserData, Lapse, vars

\* A request writes into the row of its own user and into invitations that it names
\* as the sender or the acceptor.
LEMMA OthersUntouched ==
    ASSUME Inv, NEW w \in Workers, Serve(w), NEW u \in Users, u # req[w].user
    PROVE  Untouched(u)
<1> DEFINE c == req[w]
<1> USE DEF Inv
<1>1. c # None /\ c \in Request /\ c.user \in Users
  BY RequestType DEF Serve, Authenticate, UpdateProfile, ConfirmAvatarUpload, DeleteAccount,
                     CreateInvite, FindInvite, AcceptInvite, Performs
<1>2. account'[u] = account[u]
  BY <1>1 DEF Serve, Authenticate, UpdateProfile, ConfirmAvatarUpload, DeleteAccount, Saved,
              CreateInvite, FindInvite, AcceptInvite, TypeOK, db
<1>3. ASSUME NEW i \in Invites, Concerns(u, invite'[i])
      PROVE  Concerns(u, invite[i])
  <2>1. CASE CreateInvite(w)
    <3> DEFINE new == [inviter |-> c.user, email |-> c.arg, status |-> "pending",
                       by |-> Nobody, deleted |-> FALSE]
    <3>1. PICK j \in Invites : invite' = [invite EXCEPT ![j] = new]
      BY <2>1 DEF CreateInvite
    <3>2. ~Concerns(u, new)
      BY ParametersAssumption DEF Concerns
    <3> HIDE DEF new
    <3>3. QED
      BY <1>3, <3>1, <3>2 DEF TypeOK
  <2>2. CASE AcceptInvite(w)
    <3>1. c.arg \in Invites /\ invite[c.arg] \in Invite /\ invite[c.arg] # None
      BY <1>1, <2>2 DEF AcceptInvite, RequestsFit, TypeOK
    <3>2. /\ \A k \in Invites \ {c.arg} : invite'[k] = invite[k]
          /\ invite'[c.arg] \in
                {invite[c.arg], [invite[c.arg] EXCEPT !.status = "expired"],
                 [invite[c.arg] EXCEPT !.status = "accepted", !.by = c.user]}
      BY <2>2, <3>1 DEF AcceptInvite, TypeOK
    <3>3. CASE invite'[i] = invite[i]
      BY <1>3, <3>3
    <3>4. CASE invite'[i] # invite[i]
      <4>1. invite'[i].inviter = invite[i].inviter /\ invite'[i].by \in {invite[i].by, c.user}
        BY <3>1, <3>2, <3>4 DEF Invite
      <4>2. QED
        BY <1>3, <3>1, <3>2, <3>4, <4>1 DEF Concerns
    <3>5. QED
      BY <3>3, <3>4
  <2>3. CASE UNCHANGED invite
    BY <1>3, <2>3
  <2>4. QED
    BY <2>1, <2>2, <2>3 DEF Serve, Authenticate, UpdateProfile, ConfirmAvatarUpload,
                            DeleteAccount, FindInvite, db
<1>4. QED
  BY <1>2, <1>3 DEF Untouched

\* A request ends or goes on, and nothing is done by one that is not let in.
LEMMA OwnRow ==
    ASSUME Inv, LetInLive, NEW w \in Workers, Serve(w)
    PROVE  BeganEarlier(req[w].user) \/ Untouched(req[w].user)
<1> DEFINE c == req[w]
<1> USE DEF Inv
<1>1. c # None /\ c \in Request
  BY RequestType DEF Serve, Authenticate, UpdateProfile, ConfirmAvatarUpload, DeleteAccount,
                     CreateInvite, FindInvite, AcceptInvite, Performs
<1>2. CASE c.copy.deleted
  <2>1. c.step = "loaded"
    BY <1>1, <1>2 DEF LetInLive
  <2>2. Authenticate(w)
    BY <2>1 DEF Serve, UpdateProfile, ConfirmAvatarUpload, DeleteAccount,
                CreateInvite, FindInvite, AcceptInvite, Performs
  <2>3. UNCHANGED <<account, invite>>
    BY <1>2, <2>2 DEF Authenticate, Refused
  <2>4. QED
    BY <2>3 DEF Untouched
<1>3. CASE ~c.copy.deleted
  <2>1. req'[w] # c
    <3>1. CASE Authenticate(w)
      <4>1. req'[w] = None \/ req'[w].step = "authenticated"
        BY <1>1, <3>1 DEF Authenticate, TypeOK, Request
      <4>2. QED
        BY <1>1, <3>1, <4>1 DEF Authenticate
    <3>2. CASE FindInvite(w)
      <4>1. req'[w] = None \/ req'[w].step = "found"
        BY <1>1, <3>2 DEF FindInvite, TypeOK, Request
      <4>2. QED
        BY <1>1, <3>2, <4>1 DEF FindInvite, Performs
    <3>3. CASE ~Authenticate(w) /\ ~FindInvite(w)
      <4>1. req' = [req EXCEPT ![w] = None]
        BY <3>3 DEF Serve, UpdateProfile, ConfirmAvatarUpload, DeleteAccount, CreateInvite,
                    AcceptInvite, Answer
      <4>2. QED
        BY <1>1, <4>1 DEF TypeOK
    <3>4. QED
      BY <3>1, <3>2, <3>3
  <2>2. QED
    BY <1>1, <1>3, <2>1 DEF BeganEarlier
<1>4. QED
  BY <1>2, <1>3

\* Whatever overlaps, only a request that loaded the row before the deletion may
\* still do something in a deleted user's name (sync_from_supabase_claims).
THEOREM DeletedUsersStayOut == Spec => DeletedStayOut
<1>1. ASSUME Inv, LetInLive, [Next]_vars
      PROVE  [OnlyEarlierRequests]_vars
  <2> SUFFICES ASSUME Next, NEW u \in Users, account[u] # None, account[u].deleted
               PROVE  BeganEarlier(u) \/ Untouched(u)
    BY <1>1 DEF OnlyEarlierRequests
  <2>1. ASSUME NEW w \in Workers, NEW v \in Users, NEW op \in Operations,
               NEW arg \in Arguments(v, op), SignUp(w, v, op, arg) \/ LoadUser(w, v, op, arg)
        PROVE  Untouched(u)
    BY <1>1, <2>1 DEF SignUp, LoadUser, Untouched, Inv, TypeOK, db
  <2>2. ASSUME NEW w \in Workers, Serve(w)
        PROVE  BeganEarlier(u) \/ Untouched(u)
    BY <1>1, <2>2, OthersUntouched, OwnRow
  <2>3. CASE UNCHANGED <<account, invite>>
    BY <2>3 DEF Untouched
  <2>4. QED
    BY <2>1, <2>2, <2>3 DEF Next, DeleteUserData, Lapse
<1>2. Init => LetInLive
  BY DEF Init, LetInLive
<1>3. Inv /\ LetInLive /\ [Next]_vars => Inv' /\ LetInLive'
  BY InvStep, LetInStep
<1>4. QED
  BY <1>1, <1>2, <1>3, InitIsFine, PTL DEF Spec, DeletedStayOut
-------------------------------------------------------------------------------
(* Requests in turn.  The copy a request works with is the row as it is:     *)
(* this is what another worker in between breaks.                            *)

Alone(w) == \A v \in Workers \ {w} : req[v] = None

RequestsCurrent ==
    \A w \in Workers : req[w] # None =>
        /\ req[w].copy = account[req[w].user]
        /\ req[w].step = "found" => invite[req[w].arg].status = "pending"
        /\ req[w].op = "avatar" => Owner[req[w].arg] = req[w].user

\* So that no replacement of somebody else's avatar can be of this one.
UploadsOwned ==
    \A u \in Users : account[u] # None /\ account[u].avatar \in Keys =>
        Owner[account[u].avatar] = u

Turn == RequestsCurrent /\ UploadsOwned
TurnInv == Inv /\ (inTurn => Turn /\ \A w \in Workers \ {w1} : req[w] = None)

LEMMA UploadsStayOwned ==
    ASSUME Inv, Turn, NEW u \in Users, NEW row \in Row,
           account' = [account EXCEPT ![u] = row],
           row.avatar \in Keys => Owner[row.avatar] = u
    PROVE  UploadsOwned'
<1>1. /\ account'[u] = row /\ row # None
      /\ \A v \in Users \ {u} : account'[v] = account[v]
  BY NoneIsNoRecord DEF Inv, TypeOK
<1>2. QED
  BY <1>1 DEF Turn, UploadsOwned

LEMMA MergedCurrent ==
    ASSUME NEW now \in Row, NEW row \in Row
    PROVE  Merged(now, now, row) = row
<1>1. DOMAIN now = {"email", "name", "avatar", "deleted"} /\ DOMAIN row = DOMAIN now
  BY DEF Row
<1>2. Merged(now, now, row) = [f \in DOMAIN now |-> row[f]]
  BY DEF Merged
<1>3. row = [f \in DOMAIN row |-> row[f]]
  BY DEF Row
<1>4. QED
  BY <1>1, <1>2, <1>3
LEMMA BeginTurn ==
    ASSUME Inv, Turn, NEW w \in Workers, Alone(w), NEW u \in Users, NEW op \in Operations,
           NEW arg \in Arguments(u, op), SignUp(w, u, op, arg) \/ LoadUser(w, u, op, arg)
    PROVE  Turn'
<1> USE DEF Inv, Turn
<1>1. op = "avatar" => Owner[arg] = u
  BY DEF Arguments
<1>2. UNCHANGED <<invite, removed, purge>>
  BY DEF SignUp, LoadUser, db
<1> DEFINE Began(step, c, copy) == Fresh(step, u, op, c, copy, arg)
<1>3. \A step, c, copy :
         /\ Began(step, c, copy).step = step /\ Began(step, c, copy).op = op
         /\ Began(step, c, copy).user = u /\ Began(step, c, copy).arg = arg
         /\ Began(step, c, copy).copy = copy
  BY DEF Fresh
<1> HIDE DEF Began
<1>4. CASE SignUp(w, u, op, arg)
  <2> DEFINE Signed(c) == [email |-> c.email, name |-> c.name, avatar |-> c.avatar,
                           deleted |-> FALSE]
  <2>1. PICK c \in Tokens[u] :
           /\ account' = [account EXCEPT ![u] = Signed(c)]
           /\ req' = [req EXCEPT ![w] = Began("authenticated", c, Signed(c))]
    BY <1>4 DEF SignUp, Began
  <2>2. Signed(c) \in Row /\ Signed(c).avatar \notin Keys
    BY ParametersAssumption DEF Claims, Row, Pictures
  <2> HIDE DEF Signed
  <2>4. UploadsOwned'
    BY <2>1, <2>2, UploadsStayOwned
  <2>5. /\ req'[w] = Began("authenticated", c, Signed(c))
        /\ \A v \in Workers \ {w} : req'[v] = None
        /\ account'[u] = Signed(c)
    BY <2>1 DEF TypeOK, Alone
  <2>6. RequestsCurrent'
    BY <1>1, <1>2, <1>3, <2>2, <2>5 DEF RequestsCurrent
  <2>7. QED
    BY <2>4, <2>6
<1>5. CASE LoadUser(w, u, op, arg)
  <2>1. PICK c \in Tokens[u] : req' = [req EXCEPT ![w] = Began("loaded", c, account[u])]
    BY <1>5 DEF LoadUser, Began
  <2>2. /\ req'[w] = Began("loaded", c, account[u])
        /\ \A v \in Workers \ {w} : req'[v] = None
    BY <2>1 DEF TypeOK, Alone
  <2>3. UNCHANGED account
    BY <1>5 DEF LoadUser, db
  <2>4. RequestsCurrent'
    BY <1>1, <1>2, <1>3, <2>2, <2>3 DEF RequestsCurrent
  <2>5. QED
    BY <2>3, <2>4 DEF UploadsOwned
<1>6. QED
  BY <1>4, <1>5

LEMMA AnswerTurn ==
    ASSUME Inv, NEW w \in Workers, Alone(w), req' = [req EXCEPT ![w] = None]
    PROVE  RequestsCurrent'
BY DEF Alone, RequestsCurrent, Inv, TypeOK

\* What the request writes into its row is what it wanted to write.
LEMMA SavedCurrent ==
    ASSUME Inv, Turn, NEW w \in Workers, req[w] # None, NEW row \in Row,
           account' = Saved(req[w].user, req[w].copy, row)
    PROVE  account' = [account EXCEPT ![req[w].user] = row]
<1>1. account[req[w].user] = req[w].copy /\ req[w].copy \in Row
  BY RequestType DEF Turn, RequestsCurrent
<1>2. QED
  BY <1>1, MergedCurrent DEF Saved

LEMMA AccountTurn ==
    ASSUME Inv, Turn, NEW w \in Workers, Alone(w),
           \/ Authenticate(w) \/ UpdateProfile(w)
           \/ ConfirmAvatarUpload(w) \/ DeleteAccount(w)
    PROVE  Turn' /\ UploadKept
<1> DEFINE c == req[w]
           u == c.user
<1> USE DEF Inv, Turn
<1>1. c # None
  BY DEF Authenticate, UpdateProfile, ConfirmAvatarUpload, DeleteAccount, Performs
<1>2. /\ c \in Request /\ u \in Users /\ account[u] \in Row
      /\ c.copy = account[u] /\ c.claims \in Claims
  BY <1>1, RequestType DEF Request, RequestsCurrent
<1>3. UNCHANGED invite
  BY DEF Authenticate, UpdateProfile, ConfirmAvatarUpload, DeleteAccount
<1>4. account[u].avatar \in Keys => Owner[account[u].avatar] = u
  BY <1>2, NoneIsNoRecord DEF UploadsOwned
\* What is to be shown of each of them.
<1>5. ASSUME NEW row \in Row, account' = [account EXCEPT ![u] = row],
             row.avatar \in Keys => Owner[row.avatar] = u /\ row.avatar \notin removed' \ removed,
             account[u].avatar \in Keys => row.deleted \/ row.avatar \in Keys,
             \A k \in removed' \ removed : Owner[k] = u
      PROVE  UploadsOwned' /\ UploadKept
  <2>1. UploadsOwned'
    BY <1>2, <1>5, UploadsStayOwned
  <2>2. ASSUME NEW v \in Users, account[v] # None, account[v].avatar \in Keys
        PROVE  account'[v].deleted \/ account'[v].avatar \in Keys \ (removed' \ removed)
    <3>1. account'[v] = IF v = u THEN row ELSE account[v]
      BY <1>2, <1>5 DEF TypeOK
    <3>2. v # u => account[v].avatar \notin removed' \ removed
      BY <1>5, <2>2 DEF UploadsOwned
    <3>3. QED
      BY <1>5, <2>2, <3>1, <3>2
  <2>3. QED
    BY <2>1, <2>2 DEF UploadKept
<1>6. CASE Authenticate(w) /\ req'[w] = None
  <2>1. req' = [req EXCEPT ![w] = None] /\ UNCHANGED <<account, removed, purge>>
    BY <1>2, <1>6, NoneIsNoRecord DEF Authenticate, TypeOK, Request, None
  <2>2. RequestsCurrent'
    BY <2>1, AnswerTurn
  <2>3. QED
    BY <2>1, <2>2 DEF UploadsOwned, UploadKept
<1>7. CASE Authenticate(w) /\ req'[w] # None
  <2> DEFINE row == Synced(c.copy, c.claims)
  <2>1. /\ row \in Row /\ row.deleted = c.copy.deleted
        /\ row.avatar \in Keys => row.avatar = account[u].avatar
        /\ account[u].avatar \in Keys => row.avatar = account[u].avatar
    BY <1>2, SyncedType
  <2>2. /\ account' = Saved(u, c.copy, row)
        /\ req' = [req EXCEPT ![w] = [c EXCEPT !.step = "authenticated", !.copy = row]]
        /\ UNCHANGED <<removed, purge>>
    BY <1>7 DEF Authenticate, TypeOK
  <2> HIDE DEF row
  <2>3. account' = [account EXCEPT ![u] = row]
    BY <1>1, <2>1, <2>2, SavedCurrent
  <2>4. UploadsOwned' /\ UploadKept
    BY <1>2, <1>4, <1>5, <2>1, <2>2, <2>3
  <2>5. /\ \A v \in Workers \ {w} : req'[v] = None
        /\ req'[w].copy = row /\ req'[w].user = u /\ req'[w].step = "authenticated"
        /\ req'[w].op = c.op /\ req'[w].arg = c.arg
    BY <1>2, <2>2 DEF TypeOK, Alone, Request
  <2>6. account'[u] = row
    BY <1>2, <2>3 DEF TypeOK
  <2>7. RequestsCurrent'
    BY <1>1, <2>1, <2>2, <2>5, <2>6 DEF RequestsCurrent
  <2>8. QED
    BY <2>4, <2>7
<1>8. CASE ~Authenticate(w)
  <2>1. RequestsCurrent'
    <3>1. req' = [req EXCEPT ![w] = None]
      BY <1>8 DEF UpdateProfile, ConfirmAvatarUpload, DeleteAccount, Answer
    <3>2. QED
      BY <3>1, AnswerTurn
  <2>2. CASE UpdateProfile(w)
    <3> DEFINE row == [c.copy EXCEPT !.name = c.arg]
    <3>1. /\ row \in Row /\ row.deleted = account[u].deleted /\ row.avatar = account[u].avatar
      BY <1>1, <1>2, <2>2 DEF UpdateProfile, Performs, RequestsFit, Row
    <3>2. account' = Saved(u, c.copy, row) /\ UNCHANGED <<removed, purge>>
      BY <2>2 DEF UpdateProfile
    <3> HIDE DEF row
    <3>3. account' = [account EXCEPT ![u] = row]
      BY <1>1, <3>1, <3>2, SavedCurrent
    <3>4. QED
      BY <1>4, <1>5, <2>1, <3>1, <3>2, <3>3
  <2>3. CASE ConfirmAvatarUpload(w)
    <3> DEFINE row == [account[u] EXCEPT !.avatar = c.arg]
    <3>1. c.arg \in Keys /\ Owner[c.arg] = u
      BY <1>1, <2>3 DEF ConfirmAvatarUpload, Performs, RequestsCurrent, RequestsFit
    <3>2. row \in Row /\ row.deleted = account[u].deleted /\ row.avatar = c.arg
      BY <1>2, <3>1 DEF Row, Pictures
    <3>3. account' = [account EXCEPT ![u] = row]
      BY <1>2, <2>3 DEF ConfirmAvatarUpload, TypeOK
    <3>4. \A k \in removed' \ removed : k = account[u].avatar /\ k \in Keys /\ k # c.arg
      BY <1>2, <2>3 DEF ConfirmAvatarUpload, Replaced
    <3> HIDE DEF row
    <3>5. QED
      BY <1>4, <1>5, <2>1, <3>1, <3>2, <3>3, <3>4
  <2>4. CASE DeleteAccount(w)
    <3>1. /\ Erased(u) \in Row /\ Erased(u).deleted /\ Erased(u).avatar \notin Keys
      BY <1>2, ParametersAssumption DEF Erased, Row, Pictures
    <3>2. /\ account' = [account EXCEPT ![u] = Erased(u)]
          /\ UNCHANGED removed
      BY <2>4 DEF DeleteAccount
    <3>3. QED
      BY <1>5, <2>1, <3>1, <3>2
  <2>5. QED
    BY <1>8, <2>2, <2>3, <2>4
<1>9. QED
  BY <1>6, <1>7, <1>8
LEMMA InvitationTurn ==
    ASSUME Inv, Turn, NEW w \in Workers, Alone(w),
           CreateInvite(w) \/ FindInvite(w) \/ AcceptInvite(w)
    PROVE  Turn'
<1> DEFINE c == req[w]
<1> USE DEF Inv, Turn
<1>1. c # None /\ c \in Request /\ c.user \in Users
  BY RequestType DEF CreateInvite, FindInvite, AcceptInvite, Performs
<1>2. UNCHANGED account
  BY DEF CreateInvite, FindInvite, AcceptInvite, db
<1>3. UploadsOwned'
  BY <1>2 DEF UploadsOwned
<1>4. CASE FindInvite(w)
  <2>1. UNCHANGED <<account, invite>>
    BY <1>4 DEF FindInvite, db
  <2>2. c.copy = account[c.user] /\ (c.op = "avatar" => Owner[c.arg] = c.user)
    BY <1>1 DEF RequestsCurrent
  <2>3. req'[w] # None => req'[w] = [c EXCEPT !.step = "found"] /\ Pending(invite[c.arg])
    BY <1>4 DEF FindInvite, TypeOK
  <2>4. \A v \in Workers \ {w} : req'[v] = None
    BY <1>4 DEF FindInvite, TypeOK, Alone
  <2>5. ASSUME req'[w] # None
        PROVE  /\ req'[w].copy = c.copy /\ req'[w].user = c.user
               /\ req'[w].op = c.op /\ req'[w].arg = c.arg
    BY <1>1, <2>3, <2>5 DEF Request
  <2>6. RequestsCurrent'
    BY <2>1, <2>2, <2>3, <2>4, <2>5 DEF RequestsCurrent, Pending
  <2>7. QED
    BY <1>3, <2>6
<1>5. CASE CreateInvite(w) \/ AcceptInvite(w)
  <2>1. req' = [req EXCEPT ![w] = None]
    BY <1>5 DEF CreateInvite, AcceptInvite, Answer
  <2>2. QED
    BY <1>3, <2>1, AnswerTurn
<1>6. QED
  BY <1>4, <1>5

\* In turn, nobody but the one worker does anything.
LEMMA OneActs ==
    ASSUME TurnInv, TurnNext, inTurn, NEW w \in Workers, req[w] # None \/ req'[w] # None
    PROVE  Alone(w) /\ Turn
BY DEF TurnInv, TurnNext, Alone

LEMMA TurnStep == TurnInv /\ [TurnNext]_<<vars, inTurn>> => TurnInv'
<1> SUFFICES ASSUME TurnInv, [TurnNext]_<<vars, inTurn>>
             PROVE  TurnInv'
  OBVIOUS
<1>1. CASE UNCHANGED <<vars, inTurn>>
  BY <1>1 DEF TurnInv, Inv, TypeOK, RequestsFit, Turn, RequestsCurrent, UploadsOwned,
              vars, db
<1>2. CASE TurnNext
  <2>1. Inv'
    BY <1>2, InvStep DEF TurnInv, TurnNext
  <2>2. SUFFICES ASSUME inTurn
                 PROVE  Turn'
    BY <1>2, <2>1 DEF TurnInv, TurnNext
  <2>3. Inv /\ Turn
    BY <2>2 DEF TurnInv
  <2>4. ASSUME NEW w \in Workers, NEW u \in Users, NEW op \in Operations,
               NEW arg \in Arguments(u, op), SignUp(w, u, op, arg) \/ LoadUser(w, u, op, arg)
        PROVE  Turn'
    <3>1. req'[w] # None
      BY <2>3, <2>4 DEF SignUp, LoadUser, Fresh, None, Inv, TypeOK
    <3>2. QED
      BY <1>2, <2>2, <2>3, <2>4, <3>1, OneActs, BeginTurn
  <2>5. ASSUME NEW w \in Workers, Serve(w)
        PROVE  Turn'
    <3>1. req[w] # None
      BY <2>5 DEF Serve, Authenticate, UpdateProfile, ConfirmAvatarUpload, DeleteAccount,
                  CreateInvite, FindInvite, AcceptInvite, Performs
    <3>2. QED
      BY <1>2, <2>2, <2>3, <2>5, <3>1, OneActs, AccountTurn, InvitationTurn DEF Serve
  <2>6. ASSUME NEW i \in Invites, Lapse(i)
        PROVE  Turn'
    BY <2>3, <2>6 DEF Lapse, Turn, RequestsCurrent, UploadsOwned
  <2>7. ASSUME NEW u \in Users, DeleteUserData(u)
        PROVE  Turn'
    BY <2>3, <2>7 DEF DeleteUserData, Turn, RequestsCurrent, UploadsOwned
  <2>8. QED
    BY <1>2, <2>3, <2>4, <2>5, <2>6, <2>7 DEF TurnNext, Next
<1>3. QED
  BY <1>1, <1>2

LEMMA TurnInvHolds == TurnSpec => []TurnInv
<1>1. TurnInit => TurnInv
  BY InitIsFine DEF TurnInit, TurnInv, Turn, Init, RequestsCurrent, UploadsOwned
<1>2. QED
  BY <1>1, TurnStep, PTL DEF TurnSpec

\* In turn, an uploaded avatar gives way only to another upload or the deletion
\* (sync_from_supabase_claims, confirm_avatar_upload).
THEOREM UploadsAreKept == TurnSpec => AvatarKeptInTurn
<1>1. ASSUME TurnInv, [TurnNext]_<<vars, inTurn>>
      PROVE  [inTurn => UploadKept]_<<vars, inTurn>>
  <2> SUFFICES ASSUME TurnNext, inTurn
               PROVE  UploadKept
    BY <1>1
  <2>1. CASE \E w \in Workers : \/ Authenticate(w) \/ UpdateProfile(w)
                                \/ ConfirmAvatarUpload(w) \/ DeleteAccount(w)
    <3>1. PICK w \in Workers : \/ Authenticate(w) \/ UpdateProfile(w)
                                \/ ConfirmAvatarUpload(w) \/ DeleteAccount(w)
      BY <2>1
    <3>2. req[w] # None
      BY <3>1 DEF Authenticate, UpdateProfile, ConfirmAvatarUpload, DeleteAccount, Performs
    <3>3. QED
      BY <1>1, <3>1, <3>2, OneActs, AccountTurn DEF TurnInv
  <2>2. CASE ~\E w \in Workers : \/ Authenticate(w) \/ UpdateProfile(w)
                                 \/ ConfirmAvatarUpload(w) \/ DeleteAccount(w)
    <3>1. UNCHANGED removed /\ \A u \in Users : account[u] # None => account'[u] = account[u]
      <4>1. ASSUME NEW w \in Workers, NEW u \in Users, NEW op \in Operations,
                   NEW arg \in Arguments(u, op), SignUp(w, u, op, arg)
            PROVE  UNCHANGED removed
                   /\ \A v \in Users : account[v] # None => account'[v] = account[v]
        BY <1>1, <4>1 DEF SignUp, TurnInv, Inv, TypeOK
      <4>2. QED
        BY <2>2, <4>1 DEF TurnNext, Next, Serve, LoadUser, DeleteUserData,
           CreateInvite, FindInvite, AcceptInvite, Lapse, db
    <3>2. QED
      BY <1>1, <3>1 DEF UploadKept, TurnInv, Turn, UploadsOwned
  <2>3. QED
    BY <2>1, <2>2
<1>2. QED
  BY <1>1, TurnInvHolds, PTL DEF TurnSpec, AvatarKeptInTurn

\* In turn, who accepted an invitation stays its acceptor (accept_invite).
THEOREM AcceptorsStay == TurnSpec => AcceptedOnceInTurn
<1>1. ASSUME TurnInv, [TurnNext]_<<vars, inTurn>>
      PROVE  [inTurn => AcceptanceKept]_<<vars, inTurn>>
  <2> SUFFICES ASSUME TurnNext, inTurn, NEW i \in Invites,
                      invite[i] # None, invite[i].status = "accepted"
               PROVE  invite'[i].status = "accepted" /\ invite'[i].by = invite[i].by
    BY <1>1 DEF AcceptanceKept
  <2>1. Inv /\ Turn /\ invite[i] \in Invite
    BY <1>1 DEF TurnInv, Inv, TypeOK
  <2>2. ASSUME NEW w \in Workers, AcceptInvite(w)
        PROVE  invite'[i] = invite[i]
    <3>1. req[w].arg # i
      BY <2>1, <2>2 DEF AcceptInvite, Turn, RequestsCurrent
    <3>2. QED
      BY <2>1, <2>2, <3>1 DEF AcceptInvite, Inv, TypeOK
  <2>4. CASE \A w \in Workers : ~AcceptInvite(w)
    <3>1. invite'[i] = invite[i]
      BY <2>1, <2>4, ZenonT(60) DEF Inv, TypeOK, TurnNext, Next, Serve, SignUp, LoadUser,
         Authenticate, UpdateProfile, ConfirmAvatarUpload, DeleteAccount, DeleteUserData,
         CreateInvite, FindInvite, Lapse, db
    <3>2. QED
      BY <2>1, <3>1 DEF Invite
  <2>5. QED
    BY <2>2, <2>4
<1>2. QED
  BY <1>1, TurnInvHolds, PTL DEF TurnSpec, AcceptedOnceInTurn
===============================================================================
