----------------------------- MODULE GroupsProofs -----------------------------
(***************************************************************************)
(* Groups: their members on the server, and the paged lists that the app   *)
(* shows of them.  The two components share no variable.                   *)
(*                                                                         *)
(* GroupMembership: type correctness, and what holds for requests served   *)
(* in turn: the last-admin rule, while no account is deleted, and the      *)
(* creator's place.  The hypotheses are needed, as README.md shows.        *)
(*                                                                         *)
(* Lists: type correctness, and that a list whose calls did not overlap    *)
(* shows nothing that is gone and is complete when it says so.             *)
(***************************************************************************)
EXTENDS MCGroupMembership, Lists, SequenceTheorems, FiniteSetTheorems, TLAPS

LEMMA InitIsTyped == Init => TypeOK
<1> SUFFICES ASSUME Init
             PROVE  TypeOK
  OBVIOUS
<1>1. \A r \in Roles : [id |-> 0, role |-> r, deleted |-> FALSE] \in Membership
  BY DEF Membership
<1>2. {"ADMIN", "MEMBER"} \subseteq Roles
  BY DEF Roles
<1>3. row \in [Users -> Membership \cup {NoRow}]
  BY <1>1, <1>2 DEF Init
<1>4. QED
  BY <1>3 DEF Init, TypeOK

LEMMA TypeStep == TypeOK /\ [Next]_vars => TypeOK'
<1> SUFFICES ASSUME TypeOK, [Next]_vars
             PROVE  TypeOK'
  OBVIOUS
<1> USE DEF TypeOK
<1>1. CASE UNCHANGED vars
  BY <1>1 DEF vars
<1>2. ASSUME NEW w \in Workers, Begin(w)
      PROVE  TypeOK'
  BY <1>2 DEF Begin, Request, Idle, NoRow
<1>3. ASSUME NEW w \in Workers, Check(w)
      PROVE  TypeOK'
  <2>1. req[w] \in Request
    BY <1>3 DEF Check
  <2>2. req'[w] \in Request \cup {Idle}
    BY <1>3, <2>1 DEF Check, Request
  <2>3. QED
    BY <1>3, <2>2 DEF Check
<1>4. ASSUME NEW w \in Workers, Add(w)
      PROVE  TypeOK'
  <2>1. req[w] \in Request
    BY <1>4 DEF Add
  <2>2. [id |-> req[w].n, role |-> req[w].role, deleted |-> FALSE] \in Membership
    BY <2>1 DEF Request, Membership
  <2>3. QED
    BY <1>4, <2>1, <2>2 DEF Add, Request
<1>5. ASSUME NEW w \in Workers, ChangeRole(w)
      PROVE  TypeOK'
  <2> DEFINE c == req[w]
  <2>1. c \in Request
    BY <1>5 DEF ChangeRole
  <2>2. ASSUME StillThere(c), c.loaded.role # c.role
        PROVE  [row[c.target] EXCEPT !.role = c.role] \in Membership \cup {NoRow}
    BY <2>1, <2>2 DEF Request, Membership, NoRow, StillThere
  <2>3. row' \in [Users -> Membership \cup {NoRow}]
    BY <1>5, <2>1, <2>2 DEF ChangeRole, Request
  <2>4. QED
    BY <1>5, <2>3 DEF ChangeRole
<1>6. ASSUME NEW w \in Workers, RemoveMember(w)
      PROVE  TypeOK'
  BY <1>6 DEF RemoveMember
<1>7. ASSUME NEW w \in Workers, DeleteGroup(w) \/ DeleteAccount(w)
      PROVE  TypeOK'
  BY <1>7 DEF DeleteGroup, DeleteAccount
<1>8. ASSUME NEW u \in Users, Purge(u)
      PROVE  TypeOK'
  <2>1. ASSUME row[u] # NoRow
        PROVE  [row[u] EXCEPT !.deleted = TRUE] \in Membership
    BY <2>1 DEF Membership
  <2>2. row' \in [Users -> Membership \cup {NoRow}]
    BY <1>8, <2>1 DEF Purge
  <2>3. QED
    BY <1>8, <2>2 DEF Purge
<1>9. QED
  BY <1>1, <1>2, <1>3, <1>4, <1>5, <1>6, <1>7, <1>8 DEF Next, Serve

\* Every state of the membership service is well formed, whatever the users,
\* workers and bounds (the rows and requests of apps/groups).
THEOREM TypeCorrect == Spec => []TypeOK
<1>1. Init => TypeOK
  BY InitIsTyped
<1>2. QED
  BY <1>1, TypeStep, PTL DEF Spec

\* However requests overlap, only an addition brings a membership back: the
\* other writes keep a row's key or delete it (save(update_fields) of change_role,
\* delete of remove_member, the unique constraint under add_member).
THEOREM OnlyAdditionsRevive == Spec => NoResurrection
<1> DEFINE Kept ==
        \A u \in Users :
            (row'[u] # NoRow /\ row'[u].id # row[u].id)
               => \E w \in Workers :
                      /\ req[w] # Idle /\ req[w].op = "add"
                      /\ req[w].target = u /\ req[w].n = row'[u].id
<1>1. ASSUME TypeOK, [Next]_vars
      PROVE  [Kept]_vars
  <2> SUFFICES ASSUME Next, NEW u \in Users, row'[u] # NoRow, row'[u].id # row[u].id
               PROVE  \E w \in Workers :
                          /\ req[w] # Idle /\ req[w].op = "add"
                          /\ req[w].target = u /\ req[w].n = row'[u].id
    BY <1>1
  <2>1. row \in [Users -> Membership \cup {NoRow}]
    BY <1>1 DEF TypeOK
  <2>2. ASSUME NEW v \in Users, Purge(v)
        PROVE  FALSE
    BY <2>1, <2>2 DEF Purge, Membership
  <2>3. ASSUME NEW w \in Workers, ChangeRole(w)
        PROVE  FALSE
    <3>1. /\ row'[u] = [row[u] EXCEPT !.role = req[w].role]
          /\ row[req[w].target].id = req[w].loaded.id
      BY <2>1, <2>3 DEF ChangeRole, StillThere
    <3>2. QED
      BY <2>1, <3>1 DEF Membership, NoRow
  <2>4. ASSUME NEW w \in Workers, RemoveMember(w)
        PROVE  FALSE
    BY <2>1, <2>4 DEF RemoveMember
  <2>5. PICK w \in Workers : Add(w)
    BY <2>2, <2>3, <2>4 DEF Next, Serve, Begin, Check, DeleteGroup, DeleteAccount
  <2>6. /\ row' = [row EXCEPT ![req[w].target] =
                      [id |-> req[w].n, role |-> req[w].role, deleted |-> FALSE]]
        /\ req[w].target = u
    BY <2>1, <2>5 DEF Add
  <2>7. QED
    BY <2>1, <2>5, <2>6 DEF Add
<1>2. QED
  BY <1>1, TypeCorrect, PTL DEF Spec, NoResurrection

-------------------------------------------------------------------------------
(***************************************************************************)
(* The last-admin rule.  Two facts travel with "some admin exists": what a *)
(* request was allowed for is still true when it writes, and the actor of  *)
(* an administrative request is still an admin, so demoting or removing    *)
(* another admin leaves at least the actor.                                *)
(***************************************************************************)
NobodyDeleted ==
    /\ accounts = Users /\ purges = {}
    /\ \A u \in Users : row[u] # NoRow => ~row[u].deleted

StillAuthorised(c) ==
    /\ c.op = "leave" => c.target = c.actor
    /\ c.op # "leave" => c.actor \in Admins

StillAllowed(c) == Allowed(c) /\ c.loaded = row[c.target]

LastAdminInv ==
    /\ TypeOK
    /\ NobodyDeleted
    /\ Admins # {}
    /\ \A w \in Workers : req[w] # Idle =>
           /\ StillAuthorised(req[w])
           /\ req[w].step = "checked" => StillAllowed(req[w])

\* Unless it is the only one, an admin is not the last to go.
LEMMA AnotherAdmin ==
    ASSUME NEW u \in Admins, ~LastAdmin
    PROVE  \E v \in Admins : v # u
<1>1. SUFFICES ASSUME Admins = {u}
               PROVE  FALSE
  OBVIOUS
<1>2. Cardinality({u}) = 1
  BY FS_Singleton
<1>3. QED
  BY <1>1, <1>2 DEF LastAdmin

\* The writes: each leaves an admin.
LEMMA WriteLeavesAdmin ==
    ASSUME LastAdminInv, NEW w \in Workers,
           Add(w) \/ ChangeRole(w) \/ RemoveMember(w)
    PROVE  Admins' # {}
<1> DEFINE c == req[w]
<1>1. /\ c \in Request /\ c.step = "checked"
      /\ StillAuthorised(c) /\ Allowed(c) /\ c.loaded = row[c.target]
  BY DEF LastAdminInv, TypeOK, StillAllowed, Add, ChangeRole, RemoveMember
<1>2. c.actor \in Users /\ c.target \in Users
  BY <1>1 DEF Request
\* An admin whose row the write leaves alone remains one.
<1>3. ASSUME NEW v \in Admins, row'[v] = row[v]
      PROVE  Admins' # {}
  BY <1>3 DEF Admins, Members, IsMember
<1>4. CASE Add(w)
  <2>1. PICK v \in Admins : TRUE
    BY DEF LastAdminInv
  <2>2. row[c.target] = NoRow => v # c.target
    BY DEF Admins, Members, IsMember
  <2>3. row'[v] = row[v]
    BY <1>4, <2>2 DEF Add, LastAdminInv, TypeOK, Admins, Members
  <2>4. QED
    BY <1>3, <2>3
<1>5. CASE ChangeRole(w)
  <2>1. CASE row[c.target].role = "ADMIN" /\ c.role # "ADMIN"
    <3>1. c.op = "role" /\ c.target \in Admins
      BY <1>1, <1>2, <1>5, <2>1
         DEF ChangeRole, Allowed, RoleChangeAllowed, LastAdminInv, NobodyDeleted,
             Admins, Members, IsMember
    <3>2. c.actor \in Admins
      BY <1>1, <3>1 DEF StillAuthorised
    <3>3. \E v \in Admins : v # c.target
      <4>1. CASE c.actor # c.target
        BY <3>2, <4>1
      <4>2. CASE c.actor = c.target
        BY <1>1, <2>1, <3>1, <4>2, AnotherAdmin DEF Allowed, RoleChangeAllowed
      <4>3. QED
        BY <4>1, <4>2
    <3>4. \A v \in Users : v # c.target => row'[v] = row[v]
      BY <1>5 DEF ChangeRole, LastAdminInv, TypeOK
    <3>5. QED
      BY <1>3, <3>3, <3>4 DEF Admins, Members
  <2>2. CASE ~(row[c.target].role = "ADMIN" /\ c.role # "ADMIN")
    <3>1. PICK v \in Admins : TRUE
      BY DEF LastAdminInv
    <3>2. v \in Users /\ row[v] \in Membership
      BY DEF Admins, Members, IsMember, LastAdminInv, TypeOK
    <3>3. CASE v # c.target
      BY <1>3, <1>5, <3>2, <3>3 DEF ChangeRole, LastAdminInv, TypeOK
    <3>4. CASE v = c.target
      <4>1. c.role = "ADMIN"
        BY <2>2, <3>4 DEF Admins
      <4>2. row' = row
        BY <1>1, <1>5, <3>4, <4>1 DEF ChangeRole, Admins
      <4>3. QED
        BY <1>3, <4>2
    <3>5. QED
      BY <3>3, <3>4
  <2>3. QED
    BY <2>1, <2>2
<1>6. CASE RemoveMember(w)
  <2>1. \E v \in Admins : v # c.target
    <3>1. c.target \in Admins => ~LastAdmin
      BY <1>1, <1>6
         DEF RemoveMember, Allowed, RemovalAllowed, LeavingAllowed, Admins
    <3>2. CASE c.target \in Admins
      BY <3>1, <3>2, AnotherAdmin
    <3>3. CASE c.target \notin Admins
      BY <3>3 DEF LastAdminInv
    <3>4. QED
      BY <3>2, <3>3
  <2>2. \A v \in Users : v # c.target => row'[v] = row[v]
    BY <1>6 DEF RemoveMember, LastAdminInv, TypeOK
  <2>3. QED
    BY <1>3, <2>1, <2>2 DEF Admins, Members
<1>7. QED
  BY <1>4, <1>5, <1>6

\* What a lone worker's request was allowed for, it is still allowed for.
LEMMA RequestStaysAllowed ==
    ASSUME LastAdminInv, NEW w \in Workers, \A v \in Workers \ {w} : req[v] = Idle,
           \/ Begin(w) \/ Check(w) \/ Add(w) \/ ChangeRole(w) \/ RemoveMember(w)
           \/ DeleteGroup(w)
    PROVE  \A v \in Workers : req'[v] # Idle =>
               /\ StillAuthorised(req[v])'
               /\ req'[v].step = "checked" => StillAllowed(req[v])'
<1> SUFFICES ASSUME req'[w] # Idle
             PROVE  /\ StillAuthorised(req[w])'
                    /\ req'[w].step = "checked" => StillAllowed(req[w])'
  <2>1. \A v \in Workers \ {w} : req'[v] = Idle
    BY DEF Begin, Check, Add, ChangeRole, RemoveMember, DeleteGroup, LastAdminInv, TypeOK
  <2>2. QED
    BY <2>1
<1>1. req \in [Workers -> Request \cup {Idle}]
  BY DEF LastAdminInv, TypeOK
<1>2. CASE Begin(w)
  <2>1. PICK op \in {"add", "role", "remove", "leave"}, a \in accounts,
             t \in Users, r \in Roles :
           /\ IsMember(a) /\ Rank[row[a].role] >= Rank[MinRole(op)]
           /\ op = "leave" => t = a
           /\ req' = [req EXCEPT ![w] =
                 [step |-> "authorised", op |-> op, actor |-> a, target |-> t,
                  role |-> r, n |-> begun + 1, loaded |-> NoRow]]
    BY <1>2, ZenonT(60) DEF Begin
  <2>2. a \in Users /\ row[a] \in Membership
    BY <2>1 DEF LastAdminInv, TypeOK, IsMember
  <2>3. op # "leave" => a \in Admins
    BY <2>1, <2>2 DEF MinRole, Rank, Membership, Roles, Admins, Members
  <2>4. Admins' = Admins
    BY <1>2 DEF Begin, Admins, Members, IsMember
  <2>5. QED
    BY <1>1, <2>1, <2>3, <2>4 DEF StillAuthorised
<1>3. CASE Check(w)
  <2>1. req[w] \in Request /\ StillAuthorised(req[w]) /\ UNCHANGED row
    BY <1>1, <1>3 DEF Check, LastAdminInv
  <2>2. /\ Allowed(req[w])
        /\ req'[w] = [req[w] EXCEPT !.step = "checked",
                                    !.loaded = row[req[w].target]]
    BY <1>1, <1>3 DEF Check
  <2>3. /\ req'[w].op = req[w].op /\ req'[w].actor = req[w].actor
        /\ req'[w].target = req[w].target /\ req'[w].role = req[w].role
        /\ req'[w].loaded = row[req[w].target]
    BY <2>1, <2>2 DEF Request
  <2>4. UNCHANGED <<Admins, LastAdmin, accounts>>
    BY <1>3 DEF Check, Admins, Members, IsMember, LastAdmin
  <2>5. Allowed(req[w])'
    BY <2>1, <2>2, <2>3, <2>4
       DEF Allowed, AdditionAllowed, RoleChangeAllowed, RemovalAllowed,
           LeavingAllowed, IsMember
  <2>6. QED
    BY <2>1, <2>3, <2>4, <2>5 DEF StillAuthorised, StillAllowed
<1>4. CASE Add(w) \/ ChangeRole(w) \/ RemoveMember(w)
  BY <1>1, <1>4 DEF Add, ChangeRole, RemoveMember
<1>5. CASE DeleteGroup(w)
  <2>1. UNCHANGED <<row, accounts, req>>
    BY <1>5 DEF DeleteGroup
  <2>2. /\ StillAuthorised(req[w])
        /\ req[w].step = "checked" => StillAllowed(req[w])
    BY <2>1 DEF LastAdminInv
  <2>3. QED
    BY <2>1, <2>2
       DEF StillAuthorised, StillAllowed, Admins, Members, IsMember, LastAdmin,
           Allowed, AdditionAllowed, RoleChangeAllowed, RemovalAllowed,
           LeavingAllowed
<1>6. QED
  BY <1>2, <1>3, <1>4, <1>5

LEMMA LastAdminStep ==
    ASSUME LastAdminInv, accounts' = Users,
           \/ \E w \in Workers : Serve(w) /\ \A v \in Workers \ {w} : req[v] = Idle
           \/ \E u \in Users : Purge(u)
    PROVE  LastAdminInv'
<1>1. TypeOK'
  BY TypeStep DEF LastAdminInv, Next
<1>2. ASSUME NEW w \in Workers, DeleteAccount(w)
      PROVE  FALSE
  BY <1>2 DEF DeleteAccount, LastAdminInv, NobodyDeleted
<1>3. ASSUME NEW u \in Users, Purge(u)
      PROVE  FALSE
  BY <1>3 DEF Purge, LastAdminInv, NobodyDeleted
<1>4. ASSUME NEW w \in Workers, \A v \in Workers \ {w} : req[v] = Idle,
             Add(w) \/ ChangeRole(w) \/ RemoveMember(w)
      PROVE  LastAdminInv'
  <2>1. Admins' # {}
    BY <1>4, WriteLeavesAdmin
  <2>2. NobodyDeleted'
    BY <1>4 DEF Add, ChangeRole, RemoveMember, LastAdminInv, NobodyDeleted, TypeOK,
                Membership, Request, NoRow, StillThere
  <2>3. QED
    BY <1>1, <1>4, <2>1, <2>2, RequestStaysAllowed DEF LastAdminInv
<1>5. ASSUME NEW w \in Workers, \A v \in Workers \ {w} : req[v] = Idle,
             Begin(w) \/ Check(w) \/ DeleteGroup(w)
      PROVE  LastAdminInv'
  <2>1. UNCHANGED <<row, accounts, purges>>
    BY <1>5 DEF Begin, Check, DeleteGroup
  <2>2. Admins' # {} /\ NobodyDeleted'
    BY <2>1 DEF LastAdminInv, NobodyDeleted, Admins, Members, IsMember
  <2>3. QED
    BY <1>1, <1>5, <2>2, RequestStaysAllowed DEF LastAdminInv
<1>6. QED
  BY <1>2, <1>3, <1>4, <1>5 DEF Serve

-------------------------------------------------------------------------------
(***************************************************************************)
(* The creator's place.  A request that was checked does not aim at it,    *)
(* unless it is the creator's own; a purge of an account changes no role.  *)
(***************************************************************************)
SparesCreator(c) ==
    /\ c.op = "leave" => c.target = c.actor
    /\ c.step = "checked" /\ c.op = "remove" => c.target # Creator
    /\ c.step = "checked" /\ c.op = "role" /\ c.target = Creator /\ c.actor # Creator
          => row[Creator].role # "ADMIN" \/ c.role = "ADMIN"

TurnInv ==
    /\ TypeOK /\ crew \subseteq Workers
    /\ \A v \in Workers \ crew : req[v] = Idle
    /\ InTurn /\ accounts = Users => LastAdminInv
    /\ InTurn => \A w \in Workers : req[w] # Idle => SparesCreator(req[w])

LEMMA CreatorSpared ==
    ASSUME TypeOK, NEW w \in Workers, \A v \in Workers \ {w} : req[v] = Idle,
           \A v \in Workers : req[v] # Idle => SparesCreator(req[v]),
           Serve(w) \/ \E u \in Users : Purge(u)
    PROVE  \A v \in Workers : req'[v] # Idle => SparesCreator(req[v])'
<1>1. req \in [Workers -> Request \cup {Idle}] /\ row \in [Users -> Membership \cup {NoRow}]
  BY DEF TypeOK
<1>2. CASE Begin(w)
  BY <1>1, <1>2 DEF Begin, SparesCreator
<1>3. CASE Check(w)
  <2> SUFFICES ASSUME req'[w] # Idle
               PROVE  SparesCreator(req[w])'
    BY <1>1, <1>3 DEF Check
  <2>1. /\ req[w] \in Request /\ Allowed(req[w]) /\ SparesCreator(req[w]) /\ row' = row
        /\ req'[w] = [req[w] EXCEPT !.step = "checked", !.loaded = row[req[w].target]]
    BY <1>1, <1>3 DEF Check
  <2>2. /\ req'[w].op = req[w].op /\ req'[w].actor = req[w].actor
        /\ req'[w].target = req[w].target /\ req'[w].role = req[w].role
    BY <2>1 DEF Request
  <2>3. QED
    BY <2>1, <2>2 DEF SparesCreator, Allowed, RoleChangeAllowed, RemovalAllowed
<1>4. CASE Add(w) \/ ChangeRole(w) \/ RemoveMember(w)
  BY <1>1, <1>4 DEF Add, ChangeRole, RemoveMember
<1>5. CASE DeleteGroup(w) \/ DeleteAccount(w)
  BY <1>5 DEF DeleteGroup, DeleteAccount, SparesCreator
<1>6. ASSUME NEW u \in Users, Purge(u)
      PROVE  \A v \in Workers : req'[v] # Idle => SparesCreator(req[v])'
  <2>1. req' = req /\ row'[Creator].role = row[Creator].role
    BY <1>1, <1>6, CreatorAssumption DEF Purge, Membership
  <2>2. QED
    BY <2>1 DEF SparesCreator
<1>7. QED
  BY <1>2, <1>3, <1>4, <1>5, <1>6 DEF Serve

LEMMA TurnStep ==
    ASSUME TurnInv, [CrewNext]_<<vars, crew>>
    PROVE  TurnInv'
<1>1. CASE UNCHANGED <<vars, crew>>
  <2>1. UNCHANGED <<row, accounts, purges, groupGone, req, begun, crew>>
    BY <1>1 DEF vars
  <2>2. TypeOK'
    BY <1>1, TypeStep DEF TurnInv
  <2>3. UNCHANGED <<Members, Admins, LastAdmin>>
    BY <2>1 DEF Members, Admins, IsMember, LastAdmin
  <2>4. LastAdminInv => LastAdminInv'
    BY <2>1, <2>2, <2>3, ZenonT(60)
       DEF LastAdminInv, NobodyDeleted, StillAuthorised, StillAllowed, IsMember, Allowed,
           AdditionAllowed, RoleChangeAllowed, RemovalAllowed, LeavingAllowed
  <2>5. QED
    BY <2>1, <2>2, <2>4 DEF TurnInv, InTurn, SparesCreator
<1>2. CASE CrewNext
  <2>1. crew' = crew /\ accounts' \subseteq accounts /\ accounts \subseteq Users
    BY <1>2 DEF CrewNext, Serve, Begin, Check, Add, ChangeRole, RemoveMember, DeleteGroup,
                DeleteAccount, Purge, TurnInv, TypeOK
  <2>2. TypeOK'
    BY <1>2, TypeStep DEF TurnInv, CrewNext, Next
  <2>3. \A v \in Workers \ crew : req'[v] = Idle
    BY <1>2, ZenonT(60) DEF CrewNext, Serve, Begin, Check, Add, ChangeRole, RemoveMember, DeleteGroup,
                DeleteAccount, Purge, TurnInv, TypeOK
  <2>4. ASSUME InTurn
        PROVE  \E w \in Workers :
                   /\ \A v \in Workers \ {w} : req[v] = Idle
                   /\ Serve(w) \/ \E u \in Users : Purge(u)
    BY <1>2, <2>4 DEF CrewNext, InTurn, TurnInv
  <2>5. ASSUME InTurn, accounts' = Users
        PROVE  LastAdminInv'
    BY <2>1, <2>4, <2>5, LastAdminStep DEF TurnInv
  <2>6. ASSUME InTurn
        PROVE  \A w \in Workers : req'[w] # Idle => SparesCreator(req[w])'
    BY <2>4, <2>6, CreatorSpared DEF TurnInv
  <2>7. QED
    BY <2>1, <2>2, <2>3, <2>5, <2>6 DEF TurnInv, InTurn
<1>3. QED
  BY <1>1, <1>2

LEMMA TurnInvariant == CrewSpec => []TurnInv
<1>1. CrewInit => TurnInv
  <2> SUFFICES ASSUME CrewInit
               PROVE  TurnInv
    OBVIOUS
  <2>1. Creator \in Admins /\ NobodyDeleted
    BY CreatorAssumption
       DEF CrewInit, Init, Admins, Members, IsMember, NobodyDeleted, NoRow
  <2>2. QED
    BY <2>1, InitIsTyped DEF LastAdminInv, CrewInit, Init, TurnInv
<1>2. QED
  BY <1>1, TurnStep, PTL DEF CrewSpec

\* Requests served in turn never leave a group without an admin, as long as no
\* account is deleted (the last-admin checks of apps/groups).
THEOREM AdminKept == CrewSpec => []AdminExistsInTurn
<1>1. TurnInv => AdminExistsInTurn
  BY DEF TurnInv, AdminExistsInTurn, LastAdminInv, AdminExists
<1>2. QED
  BY <1>1, TurnInvariant, PTL

\* In turn, only the creator's own requests, or the end of its account, end the
\* creator's being an admin (change_role's "Cannot demote the group creator",
\* remove_member's "Cannot remove").
THEOREM CreatorStaysAdmin == CrewSpec => CreatorKeepsAdminInTurn
<1>1. ASSUME TurnInv, [CrewNext]_<<vars, crew>>
      PROVE  [InTurn => CreatorKept]_<<vars, crew>>
  <2> SUFFICES ASSUME CrewNext, InTurn, Creator \in Admins, Creator \notin Admins'
               PROVE  \/ Creator \notin accounts
                      \/ \E w \in Workers :
                             req[w] # Idle /\ req'[w] = Idle /\ req[w].actor = Creator
    BY <1>1 DEF CreatorKept
  <2>1. /\ row \in [Users -> Membership \cup {NoRow}] /\ purges \subseteq Users \ accounts
        /\ req \in [Workers -> Request \cup {Idle}] /\ crew \subseteq Workers
        /\ \A w \in Workers : req[w] # Idle => SparesCreator(req[w])
    BY <1>1 DEF TurnInv, TypeOK
  <2>2. /\ row[Creator].role = "ADMIN" /\ row[Creator] # NoRow /\ row'[Creator] # row[Creator]
    BY DEF Admins, Members, IsMember
  <2>3. CASE \E u \in Users : Purge(u)
    BY <2>1, <2>2, <2>3 DEF Purge
  <2>4. CASE \E w \in crew : Serve(w)
    <3>1. PICK w \in Workers : Add(w) \/ ChangeRole(w) \/ RemoveMember(w)
      BY <2>1, <2>2, <2>4 DEF Serve, Begin, Check, DeleteGroup, DeleteAccount
    <3> DEFINE c == req[w]
    <3>2. /\ c # Idle /\ c \in Request /\ c.step = "checked" /\ SparesCreator(c)
          /\ req'[w] = Idle /\ c.op \in {"add", "role", "remove", "leave"}
      BY <2>1, <3>1 DEF Add, ChangeRole, RemoveMember, Request
    <3>3. c.target = Creator
      BY <2>1, <2>2, <3>1, <3>2, CreatorAssumption DEF Add, ChangeRole, RemoveMember, Request
    <3>4. c.actor = Creator
      <4>1. CASE Add(w)
        BY <2>2, <3>3, <4>1 DEF Add
      <4>2. CASE ChangeRole(w)
        <5>1. c.op = "role" /\ c.role # "ADMIN"
          <6>1. c.op = "role" /\ row'[Creator] = [row[Creator] EXCEPT !.role = c.role]
            BY <2>1, <2>2, <3>3, <4>2, CreatorAssumption DEF ChangeRole
          <6>2. row[Creator] \in Membership
            BY <2>1, <2>2, CreatorAssumption
          <6>3. QED
            BY <2>2, <6>1, <6>2 DEF Membership
        <5>2. QED
          BY <2>2, <3>2, <3>3, <5>1 DEF SparesCreator
      <4>3. CASE RemoveMember(w)
        BY <3>2, <3>3, <4>3 DEF RemoveMember, SparesCreator
      <4>4. QED
        BY <3>1, <4>1, <4>2, <4>3
    <3>5. QED
      BY <3>2, <3>4
  <2>5. QED
    BY <2>3, <2>4 DEF CrewNext
<1>2. QED
  BY <1>1, TurnInvariant, PTL DEF CrewSpec, CreatorKeepsAdminInTurn

-------------------------------------------------------------------------------
(***************************************************************************)
(* Lists.  A page is a piece of the server's list, and the pages up to one *)
(* are its top.  A call that was alone from its sending to its delivery    *)
(* completes what the pages before it show: items that were added since    *)
(* only push others down, to pages that are still to come.                 *)
(***************************************************************************)
LEMMA SmallestSubset ==
    ASSUME NEW S, IsFiniteSet(S), NEW Some \in SUBSET SUBSET S, Some # {}
    PROVE  \E T \in Some : \A U \in Some : U \subseteq T => U = T
<1>1. FiniteSubsetsOf(S) = SUBSET S
  BY FS_FiniteSubsetsOfFinite
<1>2. PICK T \in Some : \A U \in Some : <<U, T>> \notin StrictSubsetOrdering(S)
  BY <1>1, FS_StrictSubsetOrderingWellFounded, WFMin
<1>3. QED
  BY <1>2 DEF StrictSubsetOrdering

LEMMA Least ==
    ASSUME NEW n \in Nat, NEW Bad \in SUBSET (0 .. n), Bad # {}
    PROVE  \E k \in Bad : \A j \in Bad : k <= j
<1> DEFINE Some == {0 .. k : k \in Bad}
           R == 0 .. n
<1>1. IsFiniteSet(R)
  BY FS_Interval
<1>2. Some \in SUBSET SUBSET R /\ Some # {}
  <2>1. \A k \in Bad : 0 .. k \in SUBSET R
    OBVIOUS
  <2>2. PICK k \in Bad : TRUE
    OBVIOUS
  <2>3. 0 .. k \in Some
    BY <2>2
  <2>4. QED
    BY <2>1, <2>3
<1>3. PICK T \in Some : \A U \in Some : U \subseteq T => U = T
  <2> HIDE DEF Some, R
  <2>1. QED
    BY <1>1, <1>2, SmallestSubset
<1> HIDE DEF Some
<1>4. PICK k \in Bad : T = 0 .. k
  BY DEF Some
<1>5. ASSUME NEW j \in Bad, j < k
      PROVE  FALSE
  <2>1. (0 .. j) \in Some /\ (0 .. j) \subseteq (0 .. k)
    BY <1>5 DEF Some
  <2>2. 0 .. j = 0 .. k
    BY <1>3, <1>4, <2>1
  <2>3. k \in 0 .. k /\ k \notin 0 .. j
    BY <1>5
  <2>4. QED
    BY <2>2, <2>3
<1>6. \A j \in Bad : k <= j
  BY <1>5
<1>7. QED
  BY <1>6

LEMMA MinOf ==
    ASSUME NEW a \in Int, NEW b \in Int
    PROVE  Min({a, b}) = IF a <= b THEN a ELSE b
<1>1. \E x \in {a, b} : \A y \in {a, b} : x <= y
  BY DEF Min
<1>2. QED
  BY <1>1 DEF Min

LEMMA ToSetIs ==
    ASSUME NEW S, NEW s \in Seq(S)
    PROVE  ToSet(s) = {s[i] : i \in 1 .. Len(s)} /\ ToSet(s) \subseteq S
BY DEF ToSet

\* The items on the first p pages.
Top(p) == {feed[i] : i \in {j \in DOMAIN feed : j <= p * PageSize}}

Injective(s) == \A i, j \in DOMAIN s : s[i] = s[j] => i = j

LEMMA Products ==
    ASSUME NEW p \in Nat \ {0}
    PROVE  /\ p * PageSize \in Nat /\ (p - 1) * PageSize \in Nat
           /\ p * PageSize = (p - 1) * PageSize + PageSize
<1>1. PageSize \in Nat \ {0} /\ p - 1 \in Nat
  BY ListsAssumption
<1>2. \A a, b \in Nat : a * b \in Nat /\ (a + 1) * b = a * b + b
  OBVIOUS
<1>3. (p - 1) + 1 = p
  OBVIOUS
<1>4. QED
  BY <1>1, <1>2, <1>3

LEMMA PageIs ==
    ASSUME feed \in Seq(Items), NEW p \in Nat \ {0}
    PROVE  /\ Page(p) \in Seq(Items)
           /\ \A i \in DOMAIN Page(p) :
                 /\ (p - 1) * PageSize + i \in DOMAIN feed /\ i <= PageSize
                 /\ Page(p)[i] = feed[(p - 1) * PageSize + i]
           /\ \A k \in DOMAIN feed :
                 (p - 1) * PageSize < k /\ k <= p * PageSize
                     => k - (p - 1) * PageSize \in DOMAIN Page(p)
<1> DEFINE a == (p - 1) * PageSize
           b == p * PageSize
           m == IF b <= Len(feed) THEN b ELSE Len(feed)
<1>1. a \in Nat /\ b \in Nat /\ b = a + PageSize /\ PageSize \in Nat \ {0}
  BY Products, ListsAssumption
<1>2. Len(feed) \in Nat /\ DOMAIN feed = 1 .. Len(feed)
  OBVIOUS
<1>3. Page(p) = SubSeq(feed, a + 1, m)
  <2>1. b \in Int /\ Len(feed) \in Int
    BY <1>1, <1>2
  <2>2. Min({b, Len(feed)}) = m
    <3> HIDE DEF b
    <3>1. QED
      BY <2>1, MinOf
  <2>3. QED
    BY <2>2 DEF Page
<1> HIDE DEF a, b
<1>4. m \in Nat /\ m <= Len(feed) /\ m <= b
  BY <1>1, <1>2
<1>5. \A i \in a + 1 .. m : i \in 1 .. Len(feed) /\ feed[i] \in Items
  BY <1>1, <1>2, <1>4
<1> HIDE DEF m
<1>6. /\ SubSeq(feed, a + 1, m) \in Seq(Items)
      /\ Len(SubSeq(feed, a + 1, m)) = IF a + 1 <= m THEN m - (a + 1) + 1 ELSE 0
      /\ \A i \in 1 .. m - (a + 1) + 1 : SubSeq(feed, a + 1, m)[i] = feed[(a + 1) + i - 1]
  <2>1. a + 1 \in Int /\ m \in Int
    BY <1>1, <1>4
  <2>2. \A i \in a + 1 .. m : feed[i] \in Items
    BY <1>5
  <2>3. QED
    BY <2>1, <2>2, SubSeqProperties
<1>7. DOMAIN Page(p) = 1 .. (IF a + 1 <= m THEN m - a ELSE 0)
  BY <1>1, <1>3, <1>4, <1>6
<1>8. ASSUME NEW i \in DOMAIN Page(p)
      PROVE  a + i \in DOMAIN feed /\ i <= PageSize /\ Page(p)[i] = feed[a + i]
  <2>1. i \in 1 .. m - a /\ i \in 1 .. m - (a + 1) + 1 /\ (a + 1) + i - 1 = a + i
    BY <1>1, <1>4, <1>7
  <2>2. Page(p)[i] = feed[a + i]
    BY <1>3, <1>6, <2>1
  <2>3. a + i \in DOMAIN feed /\ i <= PageSize
    BY <1>1, <1>2, <1>4, <2>1
  <2>4. QED
    BY <2>2, <2>3
<1>9. \A k \in DOMAIN feed : a < k /\ k <= b => k - a \in DOMAIN Page(p)
  BY <1>1, <1>2, <1>4, <1>7 DEF m
<1>10. QED
  BY <1>3, <1>6, <1>8, <1>9 DEF a, b

\* What a page says of the list it was cut from.
LEMMA PageShows ==
    ASSUME feed \in Seq(Items), NEW p \in Nat \ {0}
    PROVE  /\ ToSet(Page(p)) \subseteq ToSet(feed)
           /\ Injective(feed) => Injective(Page(p))
           /\ Top(p) \subseteq Top(p - 1) \cup ToSet(Page(p))
           /\ p = 1 => Top(p - 1) = {}
           /\ Page(p) = <<>> => ToSet(feed) \subseteq Top(p - 1)
           /\ IsLast(Page(p)) => ToSet(feed) \subseteq Top(p)
<1> DEFINE a == (p - 1) * PageSize
           b == p * PageSize
           P == Page(p)
<1>1. a \in Nat /\ b \in Nat /\ b = a + PageSize /\ PageSize \in Nat \ {0} /\ (p = 1 => a = 0)
  BY Products, ListsAssumption
<1>2. /\ P \in Seq(Items)
      /\ \A i \in DOMAIN P : a + i \in DOMAIN feed /\ i <= PageSize /\ P[i] = feed[a + i]
      /\ \A k \in DOMAIN feed : a < k /\ k <= b => k - a \in DOMAIN P
  BY PageIs
<1>3. /\ Top(p) = {feed[i] : i \in {j \in DOMAIN feed : j <= b}}
      /\ Top(p - 1) = {feed[i] : i \in {j \in DOMAIN feed : j <= a}}
  BY DEF Top
<1> HIDE DEF a, b, P
<1>4. /\ Len(feed) \in Nat /\ DOMAIN feed = 1 .. Len(feed)
      /\ Len(P) \in Nat /\ DOMAIN P = 1 .. Len(P)
  BY <1>2
<1>5. ToSet(P) \subseteq ToSet(feed)
  BY <1>2 DEF ToSet
<1>6. ASSUME Injective(feed)
      PROVE  Injective(P)
  <2> SUFFICES ASSUME NEW i \in DOMAIN P, NEW j \in DOMAIN P, P[i] = P[j]
               PROVE  i = j
    BY DEF Injective
  <2>1. a + i = a + j
    BY <1>2, <1>6 DEF Injective
  <2>2. QED
    BY <1>1, <1>4, <2>1
<1>7. ASSUME NEW k \in DOMAIN feed, k <= b
      PROVE  feed[k] \in Top(p - 1) \cup ToSet(P)
  <2>1. CASE k <= a
    BY <1>3, <2>1
  <2>2. CASE ~(k <= a)
    <3>1. k - a \in DOMAIN P /\ a + (k - a) = k
      BY <1>1, <1>2, <1>4, <1>7, <2>2
    <3>2. QED
      BY <1>2, <3>1 DEF ToSet
  <2>3. QED
    BY <2>1, <2>2
<1>8. Top(p) \subseteq Top(p - 1) \cup ToSet(P)
  BY <1>3, <1>7
<1>9. p = 1 => Top(p - 1) = {}
  BY <1>1, <1>3, <1>4
<1>10. ASSUME P = <<>>
       PROVE  ToSet(feed) \subseteq Top(p - 1) /\ ToSet(feed) \subseteq Top(p)
  <2>1. ASSUME NEW k \in DOMAIN feed
        PROVE  k <= a
    <3> SUFFICES ASSUME a < k
                 PROVE  FALSE
      BY <1>1, <1>4
    <3>1. a + 1 \in DOMAIN feed /\ a < a + 1 /\ a + 1 <= b
      BY <1>1, <1>4
    <3>2. (a + 1) - a \in DOMAIN P
      BY <1>2, <3>1
    <3>3. QED
      BY <1>10, <3>2
  <2>2. \A k \in DOMAIN feed : k <= b
    BY <1>1, <1>4, <2>1
  <2>3. QED
    BY <1>3, <2>1, <2>2 DEF ToSet
<1>11. ASSUME Len(P) < PageSize
       PROVE  ToSet(feed) \subseteq Top(p)
  <2>1. ASSUME NEW k \in DOMAIN feed
        PROVE  k <= b
    <3> SUFFICES ASSUME b < k
                 PROVE  FALSE
      BY <1>1, <1>4
    <3>1. b \in DOMAIN feed /\ a < b
      BY <1>1, <1>4
    <3>2. b - a \in DOMAIN P
      BY <1>1, <1>2, <3>1
    <3>3. QED
      BY <1>1, <1>4, <1>11, <3>2
  <2>2. QED
    BY <1>3, <2>1 DEF ToSet
<1>12. IsLast(P) => Len(P) < PageSize \/ P = <<>>
  BY DEF IsLast, Short
<1>13. QED
  BY <1>5, <1>6, <1>8, <1>9, <1>10, <1>11, <1>12 DEF P

LEMMA InsertedAt ==
    ASSUME NEW S, NEW s \in Seq(S), NEW i \in 1 .. Len(s) + 1, NEW e \in S
    PROVE  /\ InsertAt(s, i, e) \in Seq(S)
           /\ Len(InsertAt(s, i, e)) = Len(s) + 1
           /\ \A j \in 1 .. Len(s) + 1 :
                 InsertAt(s, i, e)[j] = IF j < i THEN s[j] ELSE IF j = i THEN e ELSE s[j - 1]
<1> DEFINE before == SubSeq(s, 1, i - 1)
           after == SubSeq(s, i, Len(s))
<1>1. Len(s) \in Nat /\ \A j \in 1 .. Len(s) : s[j] \in S
  OBVIOUS
<1>2. /\ before \in Seq(S) /\ Len(before) = i - 1
      /\ \A j \in 1 .. i - 1 : before[j] = s[j]
  <2>1. 1 \in Int /\ i - 1 \in Int /\ \A j \in 1 .. i - 1 : s[j] \in S
    BY <1>1
  <2>2. /\ before \in Seq(S) /\ Len(before) = IF 1 <= i - 1 THEN (i - 1) - 1 + 1 ELSE 0
        /\ \A j \in 1 .. (i - 1) - 1 + 1 : before[j] = s[1 + j - 1]
    BY <2>1, SubSeqProperties
  <2>3. QED
    BY <2>2
<1>3. /\ after \in Seq(S) /\ Len(after) = Len(s) - i + 1
      /\ \A j \in 1 .. Len(s) - i + 1 : after[j] = s[i + j - 1]
  <2>1. i \in Int /\ Len(s) \in Int /\ \A j \in i .. Len(s) : s[j] \in S
    BY <1>1
  <2>2. /\ after \in Seq(S) /\ Len(after) = IF i <= Len(s) THEN Len(s) - i + 1 ELSE 0
        /\ \A j \in 1 .. Len(s) - i + 1 : after[j] = s[i + j - 1]
    BY <2>1, SubSeqProperties
  <2>3. QED
    BY <1>1, <2>2
<1>4. InsertAt(s, i, e) = (before \o <<e>>) \o after
  BY DEF InsertAt
<1> HIDE DEF before, after
<1>5. <<e>> \in Seq(S) /\ Len(<<e>>) = 1 /\ <<e>>[1] = e
  OBVIOUS
<1>6. /\ before \o <<e>> \in Seq(S) /\ Len(before \o <<e>>) = i
      /\ \A j \in 1 .. i : (before \o <<e>>)[j] = IF j < i THEN s[j] ELSE e
  BY <1>2, <1>5, ConcatProperties
<1> DEFINE front == before \o <<e>>
<1>7. /\ front \in Seq(S) /\ Len(front) = i
      /\ \A j \in 1 .. i : front[j] = IF j < i THEN s[j] ELSE e
  BY <1>6
<1> HIDE DEF front
<1>8. /\ front \o after \in Seq(S) /\ Len(front \o after) = Len(front) + Len(after)
      /\ \A j \in 1 .. Len(front) + Len(after) :
            (front \o after)[j] = IF j <= Len(front) THEN front[j] ELSE after[j - Len(front)]
  BY <1>3, <1>7, ConcatProperties
<1>9. InsertAt(s, i, e) = front \o after
  BY <1>4 DEF front
<1>10. ASSUME NEW j \in 1 .. Len(s) + 1
       PROVE  (front \o after)[j] = IF j < i THEN s[j] ELSE IF j = i THEN e ELSE s[j - 1]
  <2>1. CASE j <= i
    BY <1>1, <1>3, <1>7, <1>8, <2>1
  <2>2. CASE ~(j <= i)
    <3>1. j - i \in 1 .. Len(s) - i + 1 /\ i + (j - i) - 1 = j - 1
      BY <1>1, <2>2
    <3>2. (front \o after)[j] = after[j - i] /\ after[j - i] = s[j - 1]
      BY <1>1, <1>3, <1>7, <1>8, <2>2, <3>1
    <3>3. QED
      BY <2>2, <3>2
  <2>3. QED
    BY <2>1, <2>2
<1>11. QED
  BY <1>1, <1>3, <1>7, <1>8, <1>9, <1>10

LEMMA RemovedAt ==
    ASSUME NEW S, NEW s \in Seq(S), NEW i \in 1 .. Len(s)
    PROVE  /\ RemoveAt(s, i) \in Seq(S)
           /\ Len(RemoveAt(s, i)) = Len(s) - 1
           /\ \A j \in 1 .. Len(s) - 1 : RemoveAt(s, i)[j] = IF j < i THEN s[j] ELSE s[j + 1]
<1> DEFINE before == SubSeq(s, 1, i - 1)
           after == SubSeq(s, i + 1, Len(s))
<1>1. Len(s) \in Nat /\ \A j \in 1 .. Len(s) : s[j] \in S
  OBVIOUS
<1>2. /\ before \in Seq(S) /\ Len(before) = i - 1
      /\ \A j \in 1 .. i - 1 : before[j] = s[j]
  <2>1. 1 \in Int /\ i - 1 \in Int /\ \A j \in 1 .. i - 1 : s[j] \in S
    BY <1>1
  <2>2. /\ before \in Seq(S) /\ Len(before) = IF 1 <= i - 1 THEN (i - 1) - 1 + 1 ELSE 0
        /\ \A j \in 1 .. (i - 1) - 1 + 1 : before[j] = s[1 + j - 1]
    BY <2>1, SubSeqProperties
  <2>3. QED
    BY <2>2
<1>3. /\ after \in Seq(S) /\ Len(after) = Len(s) - i
      /\ \A j \in 1 .. Len(s) - i : after[j] = s[i + j]
  <2>1. i + 1 \in Int /\ Len(s) \in Int /\ \A j \in i + 1 .. Len(s) : s[j] \in S
    BY <1>1
  <2>2. /\ after \in Seq(S)
        /\ Len(after) = IF i + 1 <= Len(s) THEN Len(s) - (i + 1) + 1 ELSE 0
        /\ \A j \in 1 .. Len(s) - (i + 1) + 1 : after[j] = s[(i + 1) + j - 1]
    BY <2>1, SubSeqProperties
  <2>3. QED
    BY <1>1, <2>2
<1>4. RemoveAt(s, i) = before \o after
  BY DEF RemoveAt
<1> HIDE DEF before, after
<1>5. /\ before \o after \in Seq(S) /\ Len(before \o after) = Len(before) + Len(after)
      /\ \A j \in 1 .. Len(before) + Len(after) :
            (before \o after)[j] = IF j <= Len(before) THEN before[j] ELSE after[j - Len(before)]
  BY <1>2, <1>3, ConcatProperties
<1>6. ASSUME NEW j \in 1 .. Len(s) - 1
      PROVE  (before \o after)[j] = IF j < i THEN s[j] ELSE s[j + 1]
  <2>1. CASE j < i
    BY <1>1, <1>2, <1>3, <1>5, <2>1
  <2>2. CASE ~(j < i)
    <3>1. j - (i - 1) \in 1 .. Len(s) - i /\ i + (j - (i - 1)) = j + 1
      BY <1>1, <2>2
    <3>2. (before \o after)[j] = after[j - (i - 1)] /\ after[j - (i - 1)] = s[j + 1]
      BY <1>1, <1>2, <1>3, <1>5, <2>2, <3>1
    <3>3. QED
      BY <2>2, <3>2
  <2>3. QED
    BY <2>1, <2>2
<1>7. QED
  BY <1>1, <1>2, <1>3, <1>4, <1>5, <1>6

LEMMA InsertedSet ==
    ASSUME NEW S, NEW s \in Seq(S), NEW i \in 1 .. Len(s) + 1, NEW e \in S, e \notin ToSet(s)
    PROVE  /\ ToSet(InsertAt(s, i, e)) = ToSet(s) \cup {e}
           /\ Injective(s) => Injective(InsertAt(s, i, e))
<1> DEFINE t == InsertAt(s, i, e)
<1> HIDE DEF t
<1>1. /\ t \in Seq(S) /\ Len(t) = Len(s) + 1
      /\ \A j \in 1 .. Len(s) + 1 :
            t[j] = IF j < i THEN s[j] ELSE IF j = i THEN e ELSE s[j - 1]
  <2>1. /\ InsertAt(s, i, e) \in Seq(S) /\ Len(InsertAt(s, i, e)) = Len(s) + 1
        /\ \A j \in 1 .. Len(s) + 1 :
              InsertAt(s, i, e)[j]
                  = IF j < i THEN s[j] ELSE IF j = i THEN e ELSE s[j - 1]
    BY InsertedAt
  <2>2. QED
    BY <2>1 DEF t
<1>2. /\ ToSet(s) = {s[j] : j \in 1 .. Len(s)} /\ ToSet(t) = {t[j] : j \in 1 .. Len(s) + 1}
      /\ Len(s) \in Nat /\ DOMAIN s = 1 .. Len(s) /\ DOMAIN t = 1 .. Len(s) + 1
  <2>1. Len(s) \in Nat /\ DOMAIN s = 1 .. Len(s) /\ DOMAIN t = 1 .. Len(s) + 1
    BY <1>1
  <2>2. ToSet(s) = {s[j] : j \in 1 .. Len(s)} /\ ToSet(t) = {t[j] : j \in 1 .. Len(t)}
    BY <1>1, ToSetIs
  <2>3. QED
    BY <1>1, <2>1, <2>2
<1>3. ASSUME NEW j \in 1 .. Len(s) + 1
      PROVE  t[j] \in ToSet(s) \cup {e}
  BY <1>1, <1>2
<1>4. t[i] = e
  BY <1>1
<1>5. ASSUME NEW j \in 1 .. Len(s)
      PROVE  s[j] \in ToSet(t)
  <2>1. CASE j < i
    BY <1>1, <1>2, <2>1
  <2>2. CASE ~(j < i)
    <3>1. j + 1 \in 1 .. Len(s) + 1 /\ t[j + 1] = s[j]
      BY <1>1, <1>2, <2>2
    <3>2. QED
      BY <1>2, <3>1
  <2>3. QED
    BY <2>1, <2>2
<1>6. ToSet(t) = ToSet(s) \cup {e}
  <2>1. ToSet(t) \subseteq ToSet(s) \cup {e}
    BY <1>2, <1>3
  <2>2. ToSet(s) \subseteq ToSet(t) /\ e \in ToSet(t)
    BY <1>2, <1>4, <1>5
  <2>3. QED
    BY <2>1, <2>2
<1>7. ASSUME Injective(s)
      PROVE  Injective(t)
  <2> SUFFICES ASSUME NEW j \in 1 .. Len(s) + 1, NEW k \in 1 .. Len(s) + 1, t[j] = t[k]
               PROVE  j = k
    BY <1>2 DEF Injective
  <2>1. \A l \in 1 .. Len(s) : s[l] # e
    BY <1>2
  <2>2. \A l, m \in 1 .. Len(s) : s[l] = s[m] => l = m
    BY <1>2, <1>7 DEF Injective
  <2>3. (j < i => j \in 1 .. Len(s)) /\ (~(j < i) /\ j # i => j - 1 \in 1 .. Len(s))
    BY <1>2
  <2>4. (k < i => k \in 1 .. Len(s)) /\ (~(k < i) /\ k # i => k - 1 \in 1 .. Len(s))
    BY <1>2
  <2>5. t[j] = IF j < i THEN s[j] ELSE IF j = i THEN e ELSE s[j - 1]
    BY <1>1
  <2>6. t[k] = IF k < i THEN s[k] ELSE IF k = i THEN e ELSE s[k - 1]
    BY <1>1
  <2> DEFINE from(l) == IF l < i THEN l ELSE l - 1
  <2>7. j # i => t[j] = s[from(j)] /\ from(j) \in 1 .. Len(s)
    BY <1>2, <2>3, <2>5
  <2>8. k # i => t[k] = s[from(k)] /\ from(k) \in 1 .. Len(s)
    BY <1>2, <2>4, <2>6
  <2>9. (j = i => t[j] = e) /\ (k = i => t[k] = e)
    BY <1>1, <1>2
  <2>10. j # i /\ k # i => from(j) = from(k)
    <3> HIDE DEF from
    <3>1. QED
      BY <2>2, <2>7, <2>8
  <2>11. j # i /\ k # i => j = k
    BY <1>2, <2>10
  <2>12. j = i <=> k = i
    <3> HIDE DEF from
    <3>1. QED
      BY <2>1, <2>7, <2>8, <2>9
  <2>13. QED
    BY <2>11, <2>12
<1>8. QED
  BY <1>6, <1>7 DEF t

LEMMA RemovedSet ==
    ASSUME NEW S, NEW s \in Seq(S), NEW i \in 1 .. Len(s), Injective(s)
    PROVE  /\ ToSet(RemoveAt(s, i)) = ToSet(s) \ {s[i]}
           /\ Injective(RemoveAt(s, i))
<1> DEFINE t == RemoveAt(s, i)
           from(j) == IF j < i THEN j ELSE j + 1
<1>0. Len(s) \in Nat /\ DOMAIN s = 1 .. Len(s)
  OBVIOUS
<1>1. /\ t \in Seq(S) /\ Len(t) = Len(s) - 1 /\ Len(s) \in Nat
      /\ \A j \in 1 .. Len(s) - 1 : t[j] = IF j < i THEN s[j] ELSE s[j + 1]
  BY <1>0, RemovedAt, Zenon
<1> HIDE DEF t
<1>2. /\ ToSet(s) = {s[j] : j \in 1 .. Len(s)} /\ ToSet(t) = {t[j] : j \in 1 .. Len(s) - 1}
      /\ DOMAIN s = 1 .. Len(s) /\ DOMAIN t = 1 .. Len(s) - 1
  BY <1>1, ToSetIs
<1>3. \A j \in 1 .. Len(s) - 1 : from(j) \in 1 .. Len(s) /\ from(j) # i /\ t[j] = s[from(j)]
  BY <1>1
<1>4. \A l, m \in 1 .. Len(s) : s[l] = s[m] => l = m
  BY <1>2 DEF Injective
<1>5. ToSet(t) \subseteq ToSet(s) \ {s[i]}
  BY <1>2, <1>3, <1>4
<1>6. ASSUME NEW j \in 1 .. Len(s), j # i
      PROVE  s[j] \in ToSet(t)
  <2>1. CASE j < i
    BY <1>1, <1>2, <2>1
  <2>2. CASE ~(j < i)
    <3>1. j - 1 \in 1 .. Len(s) - 1 /\ t[j - 1] = s[j]
      BY <1>1, <1>6, <2>2
    <3>2. QED
      BY <1>2, <3>1
  <2>3. QED
    BY <2>1, <2>2
<1>7. ToSet(s) \ {s[i]} \subseteq ToSet(t)
  BY <1>2, <1>6
<1>8. Injective(t)
  <2> SUFFICES ASSUME NEW j \in 1 .. Len(s) - 1, NEW k \in 1 .. Len(s) - 1, t[j] = t[k]
               PROVE  j = k
    BY <1>2 DEF Injective
  <2>1. from(j) = from(k)
    BY <1>3, <1>4
  <2>2. QED
    BY <2>1
<1>9. QED
  BY <1>5, <1>7, <1>8 DEF t

\* A list without repetitions is as long as its set is large.
LEMMA InjectiveCount ==
    ASSUME NEW S, NEW s \in Seq(S), Injective(s)
    PROVE  Len(s) = Cardinality(ToSet(s)) /\ IsFiniteSet(ToSet(s))
<1>1. Len(s) \in Nat /\ DOMAIN s = 1 .. Len(s) /\ ToSet(s) = {s[j] : j \in 1 .. Len(s)}
  BY ToSetIs
<1>2. s \in Bijection(1 .. Len(s), ToSet(s))
  <2>1. s \in [1 .. Len(s) -> ToSet(s)]
    BY <1>1
  <2>2. \A i, j \in 1 .. Len(s) : s[i] = s[j] => i = j
    BY <1>1 DEF Injective
  <2>3. \A x \in ToSet(s) : \E i \in 1 .. Len(s) : s[i] = x
    BY <1>1
  <2>4. QED
    BY <2>1, <2>2, <2>3 DEF Bijection, Injection, Surjection, IsInjective
<1>3. ExistsBijection(1 .. Len(s), ToSet(s))
  BY <1>2 DEF ExistsBijection
<1>4. QED
  BY <1>1, <1>3, FS_CountingElements, FS_NatBijection

LEMMA AppendedSet ==
    ASSUME NEW S, NEW s \in Seq(S), NEW e \in S
    PROVE  /\ Append(s, e) \in Seq(S) /\ ToSet(Append(s, e)) = ToSet(s) \cup {e}
           /\ Injective(s) /\ e \notin ToSet(s) => Injective(Append(s, e))
<1> DEFINE t == Append(s, e)
<1>1. /\ t \in Seq(S) /\ Len(t) = Len(s) + 1 /\ Len(s) \in Nat
      /\ \A j \in 1 .. Len(s) : t[j] = s[j]
      /\ t[Len(s) + 1] = e
  BY AppendProperties
<1> HIDE DEF t
<1>2. /\ ToSet(s) = {s[j] : j \in 1 .. Len(s)} /\ ToSet(t) = {t[j] : j \in 1 .. Len(s) + 1}
      /\ DOMAIN s = 1 .. Len(s) /\ DOMAIN t = 1 .. Len(s) + 1
  <2>1. ToSet(s) = {s[j] : j \in 1 .. Len(s)} /\ ToSet(t) = {t[j] : j \in 1 .. Len(t)}
    BY <1>1, ToSetIs
  <2>2. QED
    BY <1>1, <2>1
<1>3. \A j \in 1 .. Len(s) + 1 : j = Len(s) + 1 \/ j \in 1 .. Len(s)
  BY <1>1
<1>4. ToSet(t) = ToSet(s) \cup {e}
  <2>1. ToSet(t) \subseteq ToSet(s) \cup {e}
    BY <1>1, <1>2, <1>3
  <2>2. \A j \in 1 .. Len(s) : j \in 1 .. Len(s) + 1
    BY <1>1
  <2>3. ToSet(s) \subseteq ToSet(t)
    BY <1>1, <1>2, <2>2
  <2>4. Len(s) + 1 \in 1 .. Len(s) + 1
    BY <1>1
  <2>5. QED
    BY <1>1, <1>2, <2>1, <2>3, <2>4
<1>5. ASSUME Injective(s), e \notin ToSet(s)
      PROVE  Injective(t)
  <2> SUFFICES ASSUME NEW i \in 1 .. Len(s) + 1, NEW j \in 1 .. Len(s) + 1, t[i] = t[j]
               PROVE  i = j
    BY <1>2 DEF Injective
  <2>1. \A k \in 1 .. Len(s) : t[k] # e
    BY <1>1, <1>2, <1>5
  <2>2. \A k, l \in 1 .. Len(s) : t[k] = t[l] => k = l
    BY <1>1, <1>2, <1>5 DEF Injective
  <2>3. QED
    BY <1>1, <1>3, <2>1, <2>2
<1>6. QED
  BY <1>1, <1>4, <1>5 DEF t

\* What the loop of a merge does in round n, given the rounds before.
Rounds(out, n, base, s) ==
    IF n = 0 THEN base
    ELSE IF s[n] \in ToSet(out[n - 1]) THEN out[n - 1]
    ELSE Append(out[n - 1], s[n])

IsLoop(out, n, base, s) == out = [i \in 0 .. n |-> Rounds(out, i, base, s)]

LEMMA RoundsExist ==
    ASSUME NEW n \in Nat, NEW base, NEW s
    PROVE  \E out : IsLoop(out, n, base, s)
<1> USE DEF IsLoop
<1> DEFINE Bad == {m \in 0 .. n : ~ \E out : out = [i \in 0 .. m |-> Rounds(out, i, base, s)]}
<1> SUFFICES ASSUME n \in Bad
             PROVE  FALSE
  OBVIOUS
<1>1. PICK m \in Bad : \A j \in Bad : m <= j
  <2>1. Bad \in SUBSET (0 .. n) /\ Bad # {}
    OBVIOUS
  <2> HIDE DEF Bad
  <2>2. QED
    BY <2>1, Least
<1>2. m # 0
  <2> DEFINE f == [i \in 0 .. 0 |-> base]
  <2>1. \A i \in 0 .. 0 : Rounds(f, i, base, s) = base
    BY DEF Rounds
  <2>2. f = [i \in 0 .. 0 |-> Rounds(f, i, base, s)]
    BY <2>1
  <2>3. QED
    BY <2>2
<1>3. m \in 1 .. n /\ m - 1 \in 0 .. n /\ m - 1 \notin Bad
  BY <1>1, <1>2
<1>4. PICK f : f = [i \in 0 .. m - 1 |-> Rounds(f, i, base, s)]
  BY <1>3
<1> DEFINE g == [i \in 0 .. m |-> IF i = m THEN Rounds(f, m, base, s) ELSE f[i]]
<1>5. ASSUME NEW i \in 0 .. m
      PROVE  Rounds(g, i, base, s) = Rounds(f, i, base, s)
  <2>1. CASE i = 0
    BY <2>1 DEF Rounds
  <2>2. CASE i # 0
    <3>1. i - 1 \in 0 .. m /\ i - 1 # m
      BY <1>3, <2>2
    <3>2. g[i - 1] = f[i - 1]
      BY <3>1
    <3> HIDE DEF g
    <3>3. QED
      BY <3>2 DEF Rounds
  <2>3. QED
    BY <2>1, <2>2
<1>6. ASSUME NEW i \in 0 .. m
      PROVE  g[i] = Rounds(f, i, base, s)
  <2>1. CASE i = m
    BY <2>1
  <2>2. CASE i # m
    <3>1. i \in 0 .. m - 1
      BY <1>3, <2>2
    <3>2. f[i] = Rounds(f, i, base, s)
      BY <1>4, <3>1
    <3>3. QED
      BY <2>2, <3>2
  <2>3. QED
    BY <2>1, <2>2
<1>7. g = [i \in 0 .. m |-> Rounds(g, i, base, s)]
  BY <1>5, <1>6
<1>8. QED
  BY <1>7

\* Merging appends what is new, once.
LEMMA MergedIs ==
    ASSUME NEW S, NEW base \in Seq(S), NEW incoming \in Seq(S)
    PROVE  /\ Merged(base, incoming) \in Seq(S)
           /\ ToSet(Merged(base, incoming)) = ToSet(base) \cup ToSet(incoming)
           /\ Injective(base) => Injective(Merged(base, incoming))
<1> DEFINE N == Len(incoming)
           out == CHOOSE out : IsLoop(out, N, base, incoming)
<1>1. N \in Nat
  OBVIOUS
<1>2. Merged(base, incoming) = out[N]
  BY DEF Merged, Rounds, IsLoop
<1>3. out = [i \in 0 .. N |-> Rounds(out, i, base, incoming)]
  <2>1. \E f : IsLoop(f, N, base, incoming)
    <3> HIDE DEF N
    <3>1. QED
      BY <1>1, RoundsExist
  <2>2. IsLoop(out, N, base, incoming)
    BY <2>1
  <2>3. QED
    BY <2>2 DEF IsLoop
<1> HIDE DEF out
<1>4. \A i \in 1 .. N : incoming[i] \in S
  OBVIOUS
<1>5. ToSet(incoming) = {incoming[i] : i \in 1 .. N}
  BY ToSetIs
<1> HIDE DEF N
<1> DEFINE Good(n) ==
              /\ out[n] \in Seq(S)
              /\ ToSet(out[n]) = ToSet(base) \cup {incoming[i] : i \in 1 .. n}
              /\ Injective(base) => Injective(out[n])
<1>6. \A n \in 0 .. N : Good(n)
  <2> DEFINE Bad == {n \in 0 .. N : ~Good(n)}
  <2> SUFFICES ASSUME Bad # {}
               PROVE  FALSE
    OBVIOUS
  <2>1. PICK m \in Bad : \A j \in Bad : m <= j
    <3>1. Bad \in SUBSET (0 .. N)
      OBVIOUS
    <3> HIDE DEF Bad
    <3>2. QED
      BY <1>1, <3>1, Least
  <2>2. out[m] = Rounds(out, m, base, incoming)
    BY <1>3
  <2>3. m # 0
    <3>1. ASSUME m = 0
          PROVE  Good(m)
      <4>1. out[m] = base
        BY <2>2, <3>1 DEF Rounds
      <4>2. {incoming[i] : i \in 1 .. m} = {}
        BY <3>1
      <4>3. QED
        BY <4>1, <4>2
    <3>2. QED
      BY <2>1, <3>1
  <2>4. m \in 1 .. N /\ m - 1 \in 0 .. N /\ m - 1 \notin Bad
    <3>1. m \in 0 .. N
      OBVIOUS
    <3> HIDE DEF Bad
    <3>2. m \in 1 .. N /\ m - 1 \in 0 .. N /\ ~(m <= m - 1)
      BY <1>1, <2>3, <3>1
    <3>3. QED
      BY <2>1, <3>2
  <2>5. Good(m - 1)
    BY <2>4
  <2> DEFINE o == out[m - 1]
             e == incoming[m]
  <2>6. out[m] = IF e \in ToSet(o) THEN o ELSE Append(o, e)
    BY <2>2, <2>3 DEF Rounds
  <2>7. {incoming[i] : i \in 1 .. m} = {incoming[i] : i \in 1 .. m - 1} \cup {e}
    BY <1>1, <2>4
  <2>8. o \in Seq(S) /\ e \in S
    BY <1>4, <2>4, <2>5
  <2>9. Good(m)
    <3>1. /\ o \in Seq(S) /\ ToSet(o) = ToSet(base) \cup {incoming[i] : i \in 1 .. m - 1}
          /\ Injective(base) => Injective(o)
      BY <2>5
    <3> HIDE DEF o, e
    <3>2. CASE e \in ToSet(o)
      BY <2>6, <2>7, <3>1, <3>2
    <3>3. CASE e \notin ToSet(o)
      <4>1. /\ Append(o, e) \in Seq(S) /\ ToSet(Append(o, e)) = ToSet(o) \cup {e}
            /\ Injective(o) => Injective(Append(o, e))
        BY <2>8, <3>3, AppendedSet
      <4>2. QED
        BY <2>6, <2>7, <3>1, <3>3, <4>1
    <3>4. QED
      BY <3>2, <3>3
  <2>10. QED
    BY <2>1, <2>9
<1>7. Good(N)
  <2>1. N \in 0 .. N
    BY <1>1
  <2> HIDE DEF Good
  <2>2. QED
    BY <1>6, <2>1
<1>8. QED
  BY <1>2, <1>5, <1>7

-------------------------------------------------------------------------------
(* The server.                                                               *)

\* Items are numbered as they come; each is in the list once, or deleted.
FeedInv ==
    /\ Injective(feed) /\ ToSet(feed) \cap removed = {}
    /\ \E n \in 0 .. MaxInitial :
          /\ ToSet(feed) \cup removed = 1 .. n + posted
          /\ Len(feed) + Cardinality(removed) = n + posted

LEMMA RemovedIsFinite == ListTypeOK => IsFiniteSet(removed) /\ Cardinality(removed) \in Nat
<1> SUFFICES ASSUME ListTypeOK
             PROVE  IsFiniteSet(removed) /\ Cardinality(removed) \in Nat
  OBVIOUS
<1>1. MaxInitial + MaxPosts \in Nat
  BY ListsAssumption
<1>2. IsFiniteSet(Items)
  BY <1>1, FS_Interval DEF Items
<1>3. removed \subseteq Items
  BY DEF ListTypeOK
<1>4. QED
  BY <1>2, <1>3, FS_Subset, FS_CardinalityType

\* An addition: a new item, which shifts others further down.
LEMMA Added ==
    ASSUME ListTypeOK, FeedInv, Post
    PROVE  /\ feed' \in Seq(Items) /\ FeedInv'
           /\ ToSet(feed) \subseteq ToSet(feed')
           /\ \A p \in Nat : Top(p)' \cap ToSet(feed) \subseteq Top(p)
<1> DEFINE k == Len(feed) + Cardinality(removed) + 1
<1>1. /\ feed \in Seq(Items) /\ Len(feed) \in Nat /\ DOMAIN feed = 1 .. Len(feed)
      /\ posted \in 0 .. MaxPosts /\ posted < MaxPosts
      /\ MaxInitial \in Nat /\ MaxPosts \in Nat
  BY ListsAssumption DEF ListTypeOK, Post
<1>2. Cardinality(removed) \in Nat
  BY RemovedIsFinite
<1>3. PICK n \in 0 .. MaxInitial :
        /\ ToSet(feed) \cup removed = 1 .. n + posted
        /\ Len(feed) + Cardinality(removed) = n + posted
  BY DEF FeedInv
<1>4. k = n + posted + 1 /\ k \in Items /\ k \notin ToSet(feed) /\ k \notin removed
  <2>1. k = n + posted + 1
    BY <1>1, <1>2, <1>3
  <2>2. n + posted + 1 \in 1 .. MaxInitial + MaxPosts
    BY <1>1
  <2>3. n + posted + 1 \notin 1 .. n + posted
    BY <1>1
  <2>4. QED
    BY <1>3, <2>1, <2>2, <2>3 DEF Items
<1>5. PICK i \in 1 .. Len(feed) + 1 : feed' = InsertAt(feed, i, k)
  BY DEF Post
<1>6. posted' = posted + 1 /\ removed' = removed
  BY DEF Post
<1> HIDE DEF k
<1>7. /\ feed' \in Seq(Items) /\ Len(feed') = Len(feed) + 1
      /\ \A j \in 1 .. Len(feed) + 1 :
            feed'[j] = IF j < i THEN feed[j] ELSE IF j = i THEN k ELSE feed[j - 1]
  <2>1. /\ InsertAt(feed, i, k) \in Seq(Items) /\ Len(InsertAt(feed, i, k)) = Len(feed) + 1
        /\ \A j \in 1 .. Len(feed) + 1 :
              InsertAt(feed, i, k)[j]
                  = IF j < i THEN feed[j] ELSE IF j = i THEN k ELSE feed[j - 1]
    BY <1>1, <1>4, InsertedAt
  <2>2. QED
    BY <1>5, <2>1
<1>8. ToSet(feed') = ToSet(feed) \cup {k} /\ Injective(feed')
  BY <1>1, <1>4, <1>5, InsertedSet DEF FeedInv
<1>9. FeedInv'
  <2>1. ToSet(feed') \cap removed' = {}
    BY <1>4, <1>6, <1>8 DEF FeedInv
  <2>2. ToSet(feed') \cup removed' = 1 .. n + posted'
    <3>1. 1 .. n + (posted + 1) = (1 .. n + posted) \cup {n + posted + 1}
      BY <1>1
    <3>2. QED
      BY <1>3, <1>4, <1>6, <1>8, <3>1
  <2>3. Len(feed') + Cardinality(removed') = n + posted'
    BY <1>1, <1>2, <1>3, <1>6, <1>7
  <2>4. QED
    BY <1>8, <2>1, <2>2, <2>3 DEF FeedInv
<1>10. ASSUME NEW p \in Nat
       PROVE  Top(p)' \cap ToSet(feed) \subseteq Top(p)
  <2> DEFINE b == p * PageSize
  <2>1. b \in Nat
    <3>1. PageSize \in Nat
      BY ListsAssumption
    <3>2. QED
      BY <3>1
  <2>2. /\ Top(p)' = {feed'[j] : j \in {l \in DOMAIN feed' : l <= b}}
        /\ Top(p) = {feed[j] : j \in {l \in DOMAIN feed : l <= b}}
    BY DEF Top
  <2> HIDE DEF b
  <2>3. DOMAIN feed' = 1 .. Len(feed) + 1
    BY <1>1, <1>7
  <2>4. ASSUME NEW j \in 1 .. Len(feed) + 1, j <= b, feed'[j] \in ToSet(feed)
        PROVE  feed'[j] \in Top(p)
    <3>1. j # i
      BY <1>4, <1>7, <2>4
    <3>2. CASE j < i
      BY <1>1, <1>7, <2>2, <2>4, <3>2
    <3>3. CASE ~(j < i)
      <4>1. j - 1 \in 1 .. Len(feed) /\ j - 1 <= b
        BY <1>1, <2>1, <2>4, <3>1, <3>3
      <4>2. QED
        BY <1>1, <1>7, <2>2, <3>1, <3>3, <4>1
    <3>4. QED
      BY <3>2, <3>3
  <2>5. QED
    BY <2>2, <2>3, <2>4
<1>11. QED
  BY <1>7, <1>8, <1>9, <1>10

\* A deletion.
LEMMA Deleted ==
    ASSUME ListTypeOK, FeedInv, Withdraw
    PROVE  /\ feed' \in Seq(Items) /\ removed' \subseteq Items /\ FeedInv'
           /\ removed \subseteq removed' /\ removed' # removed
<1>1. /\ feed \in Seq(Items) /\ Len(feed) \in Nat /\ DOMAIN feed = 1 .. Len(feed)
      /\ removed \subseteq Items
  BY DEF ListTypeOK
<1>2. PICK i \in DOMAIN feed : feed' = RemoveAt(feed, i) /\ removed' = removed \cup {feed[i]}
  BY DEF Withdraw
<1>3. posted' = posted /\ posted \in Nat
  BY ListsAssumption DEF ListTypeOK, Withdraw
<1>4. PICK n \in 0 .. MaxInitial :
        /\ ToSet(feed) \cup removed = 1 .. n + posted
        /\ Len(feed) + Cardinality(removed) = n + posted
  BY DEF FeedInv
<1>5. feed[i] \in ToSet(feed) /\ feed[i] \in Items /\ feed[i] \notin removed
  BY <1>1, ToSetIs DEF FeedInv
<1>6. /\ feed' \in Seq(Items) /\ Len(feed') = Len(feed) - 1
      /\ ToSet(feed') = ToSet(feed) \ {feed[i]} /\ Injective(feed')
  BY <1>1, <1>2, RemovedAt, RemovedSet DEF FeedInv
<1>7. Cardinality(removed') = Cardinality(removed) + 1 /\ Cardinality(removed) \in Nat
  BY <1>2, <1>5, RemovedIsFinite, FS_AddElement
<1>8. FeedInv'
  <2>1. ToSet(feed') \cap removed' = {}
    BY <1>2, <1>6 DEF FeedInv
  <2>2. ToSet(feed') \cup removed' = 1 .. n + posted'
    BY <1>2, <1>3, <1>4, <1>5, <1>6
  <2>3. Len(feed') + Cardinality(removed') = n + posted'
    BY <1>1, <1>3, <1>4, <1>6, <1>7
  <2>4. QED
    BY <1>6, <2>1, <2>2, <2>3 DEF FeedInv
<1>9. QED
  BY <1>1, <1>2, <1>5, <1>6, <1>8

-------------------------------------------------------------------------------
(* Type correctness.                                                         *)

LEMMA PageType == ListTypeOK => \A p \in Nat \ {0} : Page(p) \in Seq(Items)
BY PageIs DEF ListTypeOK

LEMMA ItemsOf == \A s \in Seq(Items) : ToSet(s) \subseteq Items
BY ToSetIs

LEMMA ListInitIsTyped == ListInit => ListTypeOK /\ FeedInv
<1> SUFFICES ASSUME ListInit
             PROVE  ListTypeOK /\ FeedInv
  OBVIOUS
<1>1. PICK n \in 0 .. MaxInitial : feed = Reverse([i \in 1 .. n |-> i])
  BY DEF ListInit
<1>2. n \in Nat /\ MaxInitial \in Nat /\ MaxPosts \in Nat /\ n <= MaxInitial
      /\ MaxCalls \in Nat /\ MaxFailures \in Nat
  BY ListsAssumption
<1> DEFINE s == [i \in 1 .. n |-> i]
<1>3. s \in Seq(Items) /\ Len(s) = n
  BY <1>2 DEF Items
<1>4. feed = [i \in 1 .. n |-> (n - i) + 1]
  <2>1. feed = [i \in 1 .. Len(s) |-> s[(Len(s) - i) + 1]]
    BY <1>1 DEF Reverse
  <2>2. \A i \in 1 .. n : s[(n - i) + 1] = (n - i) + 1
    BY <1>2
  <2> HIDE DEF s
  <2>3. QED
    BY <1>3, <2>1, <2>2
<1>5. feed \in Seq(Items) /\ Len(feed) = n /\ DOMAIN feed = 1 .. n
  BY <1>2, <1>4 DEF Items
<1>6. ToSet(feed) = 1 .. n
  <2>1. \A i \in 1 .. n : feed[i] \in 1 .. n
    BY <1>2, <1>4
  <2>2. ASSUME NEW i \in 1 .. n
        PROVE  (n - i) + 1 \in 1 .. n /\ feed[(n - i) + 1] = i
    BY <1>2, <1>4
  <2>3. QED
    BY <1>5, <2>1, <2>2 DEF ToSet
<1>7. Injective(feed)
  BY <1>2, <1>4 DEF Injective
<1>8. removed = {} /\ posted = 0 /\ Cardinality(removed) = 0
  BY FS_EmptySet DEF ListInit
<1>9. FeedInv
  BY <1>2, <1>5, <1>6, <1>7, <1>8 DEF FeedInv
<1>10. Page(1) \in Seq(Items)
  BY <1>5, PageIs
<1>11. ToSet(feed) \subseteq Items
  BY <1>5, ItemsOf
<1>12. ListTypeOK
  <2>1. hasMore \in BOOLEAN
    BY DEF ListInit
  <2>2. /\ kind \in Kinds /\ loading = FALSE /\ loadingMore = FALSE /\ gaps = FALSE
        /\ disturbed = FALSE /\ calls = {} /\ sent = 0 /\ failures = 0 /\ page = 1
        /\ buried = {} /\ due = ToSet(feed) /\ shown = Page(1)
    BY DEF ListInit
  <2>3. /\ posted \in 0 .. MaxPosts /\ removed \subseteq Items /\ page \in Nat \ {0}
        /\ calls \subseteq Call /\ sent \in 0 .. MaxCalls /\ failures \in 0 .. MaxFailures
        /\ buried \subseteq Items /\ due \subseteq Items
    BY <1>2, <1>8, <1>11, <2>2
  <2>4. loading \in BOOLEAN /\ loadingMore \in BOOLEAN /\ gaps \in BOOLEAN /\ disturbed \in BOOLEAN
    BY <2>2
  <2>5. QED
    BY <1>5, <1>10, <2>1, <2>2, <2>3, <2>4, Zenon DEF ListTypeOK
<1>13. QED
  BY <1>9, <1>12

LEMMA SendType ==
    ASSUME ListTypeOK, NEW op \in {"refresh", "more"}, NEW p \in Nat \ {0}, Send(op, p)
    PROVE  calls' \subseteq Call /\ sent' \in 0 .. MaxCalls
<1> USE DEF ListTypeOK
<1>1. MaxCalls \in Nat /\ sent + 1 \in 1 .. MaxCalls
  BY ListsAssumption DEF Send
<1>2. \A c \in calls : [c EXCEPT !.alone = FALSE] \in Call
  BY DEF Call
<1>3. ToSet(feed) \subseteq Items
  BY ItemsOf
<1>4. (IF op = "more" THEN shown ELSE <<>>) \in Seq(Items) /\ <<>> \in Seq(Items)
  OBVIOUS
<1>5. [n |-> sent + 1, op |-> op, page |-> p, step |-> "sent", answer |-> <<>>,
       current |-> IF op = "more" THEN shown ELSE <<>>,
       alone |-> calls = {}, gone |-> removed, there |-> ToSet(feed)] \in Call
  BY <1>1, <1>3, <1>4 DEF Call
<1>6. calls' \subseteq Call
  BY <1>2, <1>5 DEF Send
<1>7. QED
  BY <1>1, <1>6 DEF Send

LEMMA ListTypeStep == ListTypeOK /\ FeedInv /\ [ListNext]_listVars => ListTypeOK' /\ FeedInv'
<1> SUFFICES ASSUME ListTypeOK, FeedInv, [ListNext]_listVars
             PROVE  ListTypeOK' /\ FeedInv'
  OBVIOUS
<1>1. CASE Post
  <2>1. feed' \in Seq(Items) /\ FeedInv'
    BY <1>1, Added
  <2>2. posted' \in 0 .. MaxPosts
    BY <1>1, ListsAssumption DEF Post, ListTypeOK
  <2>3. ListTypeOK'
    BY <1>1, <2>1, <2>2 DEF Post, ListTypeOK, notifier, history
  <2>4. QED
    BY <2>1, <2>3
<1>2. CASE Withdraw
  <2>1. feed' \in Seq(Items) /\ removed' \subseteq Items /\ FeedInv'
    BY <1>2, Deleted
  <2>2. ListTypeOK'
    BY <1>2, <2>1 DEF Withdraw, ListTypeOK, notifier
  <2>3. QED
    BY <2>1, <2>2
<1>3. CASE Refresh
  <2>1. calls' \subseteq Call /\ sent' \in 0 .. MaxCalls
    BY <1>3, SendType DEF Refresh
  <2>2. loading' \in BOOLEAN /\ hasMore' = TRUE /\ loadingMore' = FALSE /\ page' = 1
    BY <1>3 DEF Refresh
  <2>3. UNCHANGED <<kind, feed, posted, removed, shown, failures, buried, due, gaps, disturbed>>
    BY <1>3 DEF Refresh, server, history
  <2>4. page' \in Nat \ {0} /\ hasMore' \in BOOLEAN /\ loadingMore' \in BOOLEAN
    <3>1. page' \in Nat \ {0}
      BY <2>2
    <3>2. hasMore' \in BOOLEAN /\ loadingMore' \in BOOLEAN
      BY <2>2, Zenon
    <3>3. QED
      BY <3>1, <3>2
  <2>5. ListTypeOK'
    BY <2>1, <2>2, <2>3, <2>4, Zenon DEF ListTypeOK
  <2>6. FeedInv'
    BY <2>3 DEF FeedInv, Injective
  <2>7. QED
    BY <2>5, <2>6
<1>4. CASE LoadMore
  <2>1. page + 1 \in Nat \ {0}
    BY DEF ListTypeOK
  <2>2. calls' \subseteq Call /\ sent' \in 0 .. MaxCalls
    BY <1>4, <2>1, SendType DEF LoadMore
  <2>3. ListTypeOK' /\ FeedInv'
    BY <1>4, <2>1, <2>2 DEF LoadMore, ListTypeOK, FeedInv, server, history
  <2>4. QED
    BY <2>3
<1>5. ASSUME NEW c \in calls, Answer(c)
      PROVE  ListTypeOK' /\ FeedInv'
  <2>1. c \in Call /\ Page(c.page) \in Seq(Items)
    BY PageType DEF ListTypeOK, Call
  <2>2. /\ [c EXCEPT !.step = "not found"] \in Call
        /\ [c EXCEPT !.step = "answered", !.answer = Page(c.page)] \in Call
    BY <2>1 DEF Call
  <2>3. calls' \subseteq Call
    BY <1>5, <2>2 DEF Answer, ListTypeOK
  <2>4. QED
    BY <1>5, <2>3 DEF Answer, ListTypeOK, FeedInv, server, notifier, history
<1>6. ASSUME NEW c \in calls, Fail(c)
      PROVE  ListTypeOK' /\ FeedInv'
  <2>1. [c EXCEPT !.step = "failed"] \in Call
    BY DEF Call, ListTypeOK
  <2>2. calls' \subseteq Call
    BY <1>6, <2>1 DEF Fail, ListTypeOK
  <2>3. failures' \in 0 .. MaxFailures
    BY <1>6, ListsAssumption DEF Fail, ListTypeOK
  <2>4. QED
    BY <1>6, <2>2, <2>3 DEF Fail, ListTypeOK, FeedInv, server, notifier
<1>7. ASSUME NEW c \in calls, Refreshed(c)
      PROVE  ListTypeOK' /\ FeedInv'
  <2>1. c \in Call /\ c.answer \in Seq(Items) /\ c.gone \subseteq Items /\ c.there \subseteq Items
        /\ c.alone \in BOOLEAN
    BY DEF Call, ListTypeOK
  <2>2. calls' \subseteq Call
    BY <1>7 DEF Refreshed, ListTypeOK
  <2>3. hasMore' \in BOOLEAN
    BY <1>7 DEF Refreshed, ListTypeOK
  <2>4. QED
    BY <1>7, <2>1, <2>2, <2>3 DEF Refreshed, Replaced, ListTypeOK, FeedInv, server, history
<1>8. ASSUME NEW c \in calls, LoadedMore(c)
      PROVE  ListTypeOK' /\ FeedInv'
  <2>1. c \in Call /\ c.answer \in Seq(Items) /\ c.current \in Seq(Items) /\ c.alone \in BOOLEAN
    BY DEF Call, ListTypeOK
  <2>2. Merged(c.current, c.answer) \in Seq(Items)
    BY <2>1, MergedIs
  <2>3. calls' \subseteq Call
    BY <1>8 DEF LoadedMore, ListTypeOK
  <2>4. hasMore' \in BOOLEAN
    BY <1>8 DEF LoadedMore, ListTypeOK
  <2>5. QED
    BY <1>8, <2>1, <2>2, <2>3, <2>4 DEF LoadedMore, Finally, ListTypeOK, FeedInv, server
<1>9. CASE UNCHANGED listVars
  BY <1>9 DEF listVars, server, notifier, history, ListTypeOK, FeedInv
<1>10. QED
  BY <1>1, <1>2, <1>3, <1>4, <1>5, <1>6, <1>7, <1>8, <1>9 DEF ListNext, Deliver

\* Every state of a list and its server is well formed, whatever the pages, items and
\* calls: the notifiers of the app and the endpoints they read.
THEOREM PagesTyped == ListSpec => []ListTypeOK
<1>1. ListInit => ListTypeOK /\ FeedInv
  BY ListInitIsTyped
<1>2. ListTypeOK /\ FeedInv /\ [ListNext]_listVars => (ListTypeOK /\ FeedInv)'
  BY ListTypeStep
<1>3. QED
  BY <1>1, <1>2, PTL DEF ListSpec

-------------------------------------------------------------------------------
(* What is shown, and what the calls under way will add.                     *)

\* What was deleted before the last refresh is not shown again.
ShownInv ==
    /\ buried \subseteq removed /\ Injective(shown)
    /\ ~disturbed => ToSet(shown) \cap buried = {}
    /\ ~gaps => due \subseteq ToSet(feed)

\* A call that is alone works on the list that is shown.
CallFine(c) ==
    /\ c.gone \subseteq removed /\ (removed = c.gone => c.there \subseteq ToSet(feed))
    /\ Injective(c.answer) /\ Injective(c.current) /\ ToSet(c.answer) \cap c.gone = {}
    /\ c.alone => calls = {c}
    /\ c.step = "failed" => gaps \/ disturbed
    /\ c.op = "refresh" =>
          /\ c.page = 1 /\ c.step # "not found"
          /\ c.alone => page = 1 /\ hasMore
    /\ c.op = "more" /\ c.alone => c.current = shown /\ ToSet(c.answer) \cap buried = {}

\* A refresh brings the first page of what was there when it was sent.
RefreshFine(c) ==
    c.op = "refresh" /\ c.step = "answered" /\ removed = c.gone =>
        /\ c.there \cap Top(1) \subseteq ToSet(c.answer)
        /\ IsLast(c.answer) => c.there \subseteq ToSet(c.answer)

\* The call for one more page completes the pages before it.
MoreFine(c) ==
    c.op = "more" /\ c.alone =>
        /\ c.page = page /\ page > 1
        /\ due \cap Top(page - 1) \subseteq ToSet(shown)
        /\ c.step = "not found" => due \cap Top(page) \subseteq ToSet(shown)
        /\ c.step = "answered" =>
              /\ due \cap Top(page) \subseteq ToSet(shown) \cup ToSet(c.answer)
              /\ IsLast(c.answer) => due \subseteq ToSet(shown) \cup ToSet(c.answer)

\* The pages asked for so far are shown.
EndInv ==
    ~gaps /\ ~disturbed =>
        /\ calls = {} => due \cap Top(page) \subseteq ToSet(shown)
        /\ ~hasMore => calls = {} /\ due \subseteq ToSet(shown)
        /\ \A c \in calls : MoreFine(c)

CallsFine == \A c \in calls : CallFine(c) /\ RefreshFine(c)

PagesInv == ListTypeOK /\ FeedInv /\ ShownInv /\ CallsFine /\ EndInv

LEMMA EmptyList == Injective(<<>>) /\ ToSet(<<>>) = {}
BY DEF Injective, ToSet

LEMMA InitIsFine == ListInit => PagesInv
<1> SUFFICES ASSUME ListInit
             PROVE  PagesInv
  OBVIOUS
<1>1. ListTypeOK /\ FeedInv
  BY ListInitIsTyped
<1>2. /\ calls = {} /\ buried = {} /\ removed = {} /\ due = ToSet(feed) /\ page = 1
      /\ shown = Page(1) /\ hasMore = ~IsLast(Page(1))
  BY DEF ListInit
<1>3. /\ ToSet(Page(1)) \subseteq ToSet(feed) /\ Injective(Page(1))
      /\ Top(1) \subseteq ToSet(Page(1))
      /\ IsLast(Page(1)) => ToSet(feed) \subseteq Top(1)
  BY <1>1, PageShows DEF ListTypeOK, FeedInv
<1>4. ShownInv
  BY <1>2, <1>3 DEF ShownInv
<1>5. EndInv
  BY <1>2, <1>3 DEF EndInv
<1>6. QED
  BY <1>1, <1>2, <1>4, <1>5 DEF PagesInv, CallsFine

LEMMA PostKeeps == PagesInv /\ Post => ShownInv' /\ CallsFine' /\ EndInv'
<1> SUFFICES ASSUME PagesInv, Post
             PROVE  ShownInv' /\ CallsFine' /\ EndInv'
  OBVIOUS
<1>1. ListTypeOK /\ FeedInv /\ ShownInv /\ CallsFine /\ EndInv
  BY DEF PagesInv
<1>2. /\ ToSet(feed) \subseteq ToSet(feed')
      /\ \A p \in Nat : Top(p)' \cap ToSet(feed) \subseteq Top(p)
  BY <1>1, Added
<1>3. UNCHANGED <<kind, removed, shown, page, hasMore, calls, buried, due, gaps, disturbed>>
  BY DEF Post, notifier, history
<1>4. page \in Nat /\ page - 1 \in Nat /\ 1 \in Nat
  BY <1>1 DEF ListTypeOK
<1>5. ShownInv'
  BY <1>1, <1>2, <1>3 DEF ShownInv, Injective
<1>6. CallsFine'
  <2> SUFFICES ASSUME NEW c \in calls
               PROVE  CallFine(c)' /\ RefreshFine(c)'
    BY <1>3 DEF CallsFine
  <2>1. CallFine(c) /\ RefreshFine(c)
    BY <1>1 DEF CallsFine
  <2>2. CallFine(c)'
    BY <1>2, <1>3, <2>1 DEF CallFine, Injective
  <2>3. RefreshFine(c)'
    BY <1>2, <1>3, <1>4, <2>1 DEF RefreshFine, CallFine, IsLast, Short
  <2>4. QED
    BY <2>2, <2>3
<1>7. EndInv'
  <2> SUFFICES ASSUME ~gaps, ~disturbed
               PROVE  /\ calls = {} => due \cap Top(page)' \subseteq ToSet(shown)
                      /\ ~hasMore => calls = {} /\ due \subseteq ToSet(shown)
                      /\ \A c \in calls : MoreFine(c)'
    BY <1>3 DEF EndInv
  <2>1. due \subseteq ToSet(feed)
    BY <1>1 DEF ShownInv
  <2>2. Top(page)' \cap due \subseteq Top(page) /\ Top(page - 1)' \cap due \subseteq Top(page - 1)
    <3>1. Top(page)' \cap ToSet(feed) \subseteq Top(page)
      BY <1>2, <1>3, <1>4
    <3>2. Top(page - 1)' \cap ToSet(feed) \subseteq Top(page - 1)
      BY <1>2, <1>3, <1>4
    <3>3. QED
      BY <2>1, <3>1, <3>2
  <2>3. \A c \in calls : MoreFine(c)'
    BY <1>1, <1>3, <2>2 DEF EndInv, MoreFine, IsLast, Short
  <2>4. QED
    BY <1>1, <2>2, <2>3 DEF EndInv
<1>8. QED
  BY <1>5, <1>6, <1>7

LEMMA WithdrawKeeps == PagesInv /\ Withdraw => ShownInv' /\ CallsFine' /\ EndInv'
<1> SUFFICES ASSUME PagesInv, Withdraw
             PROVE  ShownInv' /\ CallsFine' /\ EndInv'
  OBVIOUS
<1>1. ListTypeOK /\ FeedInv /\ ShownInv /\ CallsFine /\ EndInv
  BY DEF PagesInv
<1>2. removed \subseteq removed' /\ removed' # removed
  BY <1>1, Deleted
<1>3. /\ UNCHANGED <<kind, shown, page, hasMore, calls, buried, due, disturbed>>
      /\ gaps' = TRUE
  BY DEF Withdraw, notifier
<1>4. ShownInv' /\ EndInv'
  BY <1>1, <1>2, <1>3 DEF ShownInv, EndInv, Injective
<1>5. ASSUME NEW c \in calls
      PROVE  CallFine(c)' /\ RefreshFine(c)'
  <2>1. CallFine(c)
    BY <1>1 DEF CallsFine
  <2>2. removed' # c.gone /\ c.gone \subseteq removed'
    BY <1>2, <2>1 DEF CallFine
  <2>3. QED
    BY <1>3, <2>1, <2>2 DEF CallFine, RefreshFine, Injective
<1>6. QED
  BY <1>3, <1>4, <1>5 DEF CallsFine

\* Sending a call leaves nobody alone but, if nothing was under way, itself.
LEMMA SendKeeps ==
    ASSUME PagesInv, NEW op \in {"refresh", "more"}, NEW p \in Nat \ {0}, Send(op, p),
           UNCHANGED <<kind, feed, removed, shown, gaps, buried, due, disturbed>>,
           op = "refresh" => p = 1 /\ page' = 1 /\ hasMore' = TRUE
    PROVE  /\ ShownInv' /\ CallsFine' /\ calls' # {}
           /\ \A c \in calls' : c.alone => c.op = op /\ c.page = p /\ c.step = "sent" /\ calls = {}
<1>0. PICK new :
        new = [n |-> sent + 1, op |-> op, page |-> p, step |-> "sent", answer |-> <<>>,
               current |-> IF op = "more" THEN shown ELSE <<>>,
               alone |-> calls = {}, gone |-> removed, there |-> ToSet(feed)]
  OBVIOUS
<1>1. ListTypeOK /\ FeedInv /\ ShownInv /\ CallsFine /\ calls \subseteq Call
  BY DEF PagesInv, ListTypeOK
<1>2. calls' = {[c EXCEPT !.alone = FALSE] : c \in calls} \cup {new}
  BY <1>0 DEF Send
<1>3. ShownInv'
  BY <1>1 DEF ShownInv, Injective
<1>4. /\ new.op = op /\ new.page = p /\ new.step = "sent" /\ new.answer = <<>>
      /\ new.current = (IF op = "more" THEN shown ELSE <<>>)
      /\ (new.alone <=> calls = {}) /\ new.gone = removed /\ new.there = ToSet(feed)
  BY <1>0
<1>5. CallFine(new)' /\ RefreshFine(new)'
  <2>1. new.alone => calls' = {new}
    BY <1>2, <1>4
  <2>2. Injective(new.answer) /\ Injective(new.current) /\ ToSet(new.answer) = {}
    BY <1>1, <1>4, EmptyList DEF ShownInv
  <2>3. CallFine(new)'
    BY <1>4, <2>1, <2>2 DEF CallFine, Injective
  <2>4. QED
    BY <1>4, <2>3 DEF RefreshFine
<1>6. ASSUME NEW c \in calls
      PROVE  LET d == [c EXCEPT !.alone = FALSE] IN ~d.alone /\ CallFine(d)' /\ RefreshFine(d)'
  <2> DEFINE d == [c EXCEPT !.alone = FALSE]
  <2>1. CallFine(c) /\ RefreshFine(c) /\ c \in Call
    BY <1>1 DEF CallsFine
  <2>2. /\ d.op = c.op /\ d.page = c.page /\ d.step = c.step /\ d.answer = c.answer
        /\ d.current = c.current /\ d.gone = c.gone /\ d.there = c.there /\ d.alone = FALSE
    BY <2>1 DEF Call
  <2> HIDE DEF d
  <2>3. CallFine(d)'
    BY <2>1, <2>2 DEF CallFine, Injective
  <2>4. RefreshFine(d)'
    BY <2>1, <2>2 DEF RefreshFine, Top, IsLast, Short
  <2>5. QED
    BY <2>2, <2>3, <2>4 DEF d
<1>7. CallsFine'
  BY <1>2, <1>5, <1>6 DEF CallsFine
<1>8. QED
  BY <1>2, <1>3, <1>4, <1>6, <1>7

LEMMA RefreshKeeps == PagesInv /\ Refresh => ShownInv' /\ CallsFine' /\ EndInv'
<1> SUFFICES ASSUME PagesInv, Refresh
             PROVE  ShownInv' /\ CallsFine' /\ EndInv'
  OBVIOUS
<1>1. /\ ShownInv' /\ CallsFine' /\ calls' # {}
      /\ \A c \in calls' : c.alone => c.op = "refresh"
  <2>1. Send("refresh", 1) /\ page' = 1 /\ hasMore' = TRUE
    BY DEF Refresh
  <2>2. UNCHANGED <<kind, feed, removed, shown, gaps, buried, due, disturbed>>
    BY DEF Refresh, server, history
  <2>3. QED
    BY <2>1, <2>2, SendKeeps
<1>2. \A c \in calls' : MoreFine(c)'
  BY <1>1 DEF MoreFine
<1>3. hasMore'
  BY DEF Refresh
<1>4. QED
  BY <1>1, <1>2, <1>3 DEF EndInv

LEMMA LoadMoreKeeps == PagesInv /\ LoadMore => ShownInv' /\ CallsFine' /\ EndInv'
<1> SUFFICES ASSUME PagesInv, LoadMore
             PROVE  ShownInv' /\ CallsFine' /\ EndInv'
  OBVIOUS
<1>1. ListTypeOK /\ EndInv /\ page \in Nat \ {0}
  BY DEF PagesInv, ListTypeOK
<1>2. /\ Send("more", page + 1) /\ page' = page + 1 /\ hasMore
      /\ UNCHANGED <<kind, feed, removed, shown, hasMore, gaps, buried, due, disturbed>>
  BY DEF LoadMore, server, history
<1>3. /\ ShownInv' /\ CallsFine' /\ calls' # {}
      /\ \A c \in calls' :
            c.alone => c.page = page + 1 /\ c.step = "sent" /\ calls = {}
  <2>1. page + 1 \in Nat \ {0}
    BY <1>1
  <2>2. QED
    BY <1>2, <2>1, SendKeeps
<1>4. ASSUME ~gaps, ~disturbed, NEW c \in calls'
      PROVE  MoreFine(c)'
  <2>1. page' - 1 = page /\ page' > 1
    BY <1>1, <1>2
  <2>2. calls = {} => due \cap Top(page) \subseteq ToSet(shown)
    BY <1>1, <1>4 DEF EndInv
  <2>3. Top(page - 1)' = Top(page)
    BY <1>2, <2>1 DEF Top
  <2>4. c.alone =>
          /\ c.page = page' /\ c.step = "sent"
          /\ due' \cap Top(page - 1)' \subseteq ToSet(shown')
    BY <1>2, <1>3, <2>2, <2>3
  <2>5. QED
    BY <2>1, <2>4 DEF MoreFine
<1>5. QED
  BY <1>2, <1>3, <1>4 DEF EndInv

LEMMA AnswerKeeps ==
    ASSUME PagesInv, NEW c \in calls, Answer(c)
    PROVE  ShownInv' /\ CallsFine' /\ EndInv'
<1> DEFINE none == [c EXCEPT !.step = "not found"]
           one == [c EXCEPT !.step = "answered", !.answer = Page(c.page)]
<1>0. PICK new : new = IF NotFound(c.page) THEN none ELSE one
  OBVIOUS
<1>1. /\ ListTypeOK /\ FeedInv /\ ShownInv /\ CallsFine /\ EndInv
      /\ c \in Call /\ c.page \in Nat \ {0} /\ feed \in Seq(Items)
  BY DEF PagesInv, ListTypeOK, Call
<1>2. CallFine(c) /\ RefreshFine(c) /\ c.step = "sent"
  BY <1>1 DEF CallsFine, Answer
<1>3. calls' = (calls \ {c}) \cup {new}
  BY <1>0 DEF Answer
<1>4. UNCHANGED <<kind, feed, removed, shown, page, hasMore, gaps, buried, due, disturbed>>
  BY DEF Answer, server, notifier, history
<1>5. /\ new.op = c.op /\ new.page = c.page /\ new.current = c.current /\ new.gone = c.gone
      /\ new.there = c.there /\ new.alone = c.alone
      /\ NotFound(c.page) => new.step = "not found" /\ new.answer = c.answer
      /\ ~NotFound(c.page) => new.step = "answered" /\ new.answer = Page(c.page)
  <2>1. /\ none.op = c.op /\ none.page = c.page /\ none.current = c.current
        /\ none.gone = c.gone /\ none.there = c.there /\ none.alone = c.alone
        /\ none.step = "not found" /\ none.answer = c.answer
    BY <1>1 DEF Call
  <2>2. /\ one.op = c.op /\ one.page = c.page /\ one.current = c.current
        /\ one.gone = c.gone /\ one.there = c.there /\ one.alone = c.alone
        /\ one.step = "answered" /\ one.answer = Page(c.page)
    BY <1>1 DEF Call
  <2> HIDE DEF none, one
  <2>3. QED
    BY <1>0, <2>1, <2>2
<1> HIDE DEF none, one
<1>6. /\ ToSet(Page(c.page)) \subseteq ToSet(feed) /\ Injective(Page(c.page))
      /\ Top(c.page) \subseteq Top(c.page - 1) \cup ToSet(Page(c.page))
      /\ c.page = 1 => Top(c.page - 1) = {}
      /\ Page(c.page) = <<>> => ToSet(feed) \subseteq Top(c.page - 1)
      /\ IsLast(Page(c.page)) => ToSet(feed) \subseteq Top(c.page)
  BY <1>1, PageShows DEF FeedInv
<1>7. ShownInv'
  BY <1>1, <1>4 DEF ShownInv, Injective
<1>8. \A d \in calls \ {c} : ~d.alone
  BY <1>1 DEF CallsFine, CallFine
<1>9. ASSUME NEW d \in calls \ {c}
      PROVE  CallFine(d)' /\ RefreshFine(d)'
  <2>1. CallFine(d) /\ RefreshFine(d)
    BY <1>1 DEF CallsFine
  <2>2. QED
    BY <1>4, <1>8, <2>1 DEF CallFine, RefreshFine, Injective, Top, IsLast, Short
<1>10. CallFine(new)'
  <2>1. Injective(new.answer) /\ ToSet(new.answer) \cap c.gone = {}
    <3>1. ToSet(feed) \cap c.gone = {}
      BY <1>1, <1>2 DEF FeedInv, CallFine
    <3>2. QED
      BY <1>2, <1>5, <1>6, <3>1 DEF CallFine
  <2>2. new.alone => calls' = {new}
    BY <1>2, <1>3, <1>5 DEF CallFine
  <2>3. new.op = "refresh" => new.step # "not found"
    <3>1. new.op = "refresh" => c.page = 1
      BY <1>2, <1>5 DEF CallFine
    <3>2. ~NotFound(1)
      BY DEF NotFound
    <3>3. QED
      BY <1>5, <3>1, <3>2
  <2>4. new.step # "failed"
    BY <1>5
  <2>5. new.op = "more" /\ new.alone => ToSet(new.answer) \cap buried = {}
    <3>1. ToSet(feed) \cap buried = {}
      BY <1>1 DEF FeedInv, ShownInv
    <3>2. QED
      BY <1>2, <1>5, <1>6, <3>1 DEF CallFine
  <2>6. QED
    BY <1>2, <1>4, <1>5, <2>1, <2>2, <2>3, <2>4, <2>5 DEF CallFine, Injective
<1>11. RefreshFine(new)'
  <2> SUFFICES ASSUME new.op = "refresh", new.step = "answered", removed = new.gone
               PROVE  /\ new.there \cap Top(1)' \subseteq ToSet(new.answer)
                      /\ IsLast(new.answer)' => new.there \subseteq ToSet(new.answer)
    BY <1>4 DEF RefreshFine
  <2>1. c.page = 1 /\ new.answer = Page(1) /\ new.there \subseteq ToSet(feed)
    BY <1>2, <1>5 DEF CallFine
  <2>2. Top(1) \subseteq ToSet(Page(1)) /\ (IsLast(Page(1)) => ToSet(feed) \subseteq Top(1))
    BY <1>6, <2>1
  <2>3. Top(1)' = Top(1) /\ (IsLast(Page(1)) <=> IsLast(new.answer)')
    BY <1>4, <2>1 DEF Top, IsLast, Short
  <2>4. QED
    BY <2>1, <2>2, <2>3
<1>12. ASSUME ~gaps, ~disturbed
       PROVE  MoreFine(new)'
  <2> SUFFICES ASSUME new.op = "more", new.alone
               PROVE  MoreFine(new)'
    BY DEF MoreFine
  <2>1. /\ c.page = page /\ page > 1 /\ due \cap Top(page - 1) \subseteq ToSet(shown)
    BY <1>1, <1>5, <1>12 DEF EndInv, MoreFine
  <2>2. due \subseteq ToSet(feed)
    BY <1>1, <1>12 DEF ShownInv
  <2>3. Top(page)' = Top(page) /\ Top(page - 1)' = Top(page - 1)
    BY <1>4 DEF Top
  <2>4. new.step = "not found" => due \cap Top(page) \subseteq ToSet(shown)
    <3>1. new.step = "not found" => Page(page) = <<>>
      BY <1>5, <2>1 DEF NotFound
    <3>2. QED
      BY <1>6, <2>1, <2>2, <3>1
  <2>5. new.step = "answered" =>
           /\ due \cap Top(page) \subseteq ToSet(shown) \cup ToSet(new.answer)
           /\ IsLast(new.answer) => due \subseteq ToSet(shown) \cup ToSet(new.answer)
    <3>1. new.step = "answered" => new.answer = Page(page)
      BY <1>5, <2>1
    <3>2. QED
      BY <1>6, <2>1, <2>2, <3>1
  <2>6. IsLast(new.answer)' <=> IsLast(new.answer)
    BY <1>4 DEF IsLast, Short
  <2>7. QED
    BY <1>4, <1>5, <2>1, <2>3, <2>4, <2>5, <2>6 DEF MoreFine
<1>13. EndInv'
  <2>1. ~gaps /\ ~disturbed => hasMore
    BY <1>1 DEF EndInv
  <2>2. \A d \in calls \ {c} : MoreFine(d)'
    BY <1>8 DEF MoreFine
  <2>3. QED
    BY <1>3, <1>4, <1>12, <2>1, <2>2 DEF EndInv
<1>14. CallsFine'
  BY <1>3, <1>9, <1>10, <1>11 DEF CallsFine
<1>15. QED
  BY <1>7, <1>13, <1>14

LEMMA FailKeeps ==
    ASSUME PagesInv, NEW c \in calls, Fail(c)
    PROVE  ShownInv' /\ CallsFine' /\ EndInv'
<1> DEFINE new == [c EXCEPT !.step = "failed"]
<1>1. ListTypeOK /\ ShownInv /\ CallsFine /\ c \in Call
  BY DEF PagesInv, ListTypeOK
<1>2. calls' = (calls \ {c}) \cup {new} /\ gaps' = TRUE
  BY DEF Fail
<1>3. UNCHANGED <<kind, feed, removed, shown, page, hasMore, buried, due, disturbed>>
  BY DEF Fail, server, notifier
<1>4. /\ new.op = c.op /\ new.page = c.page /\ new.current = c.current /\ new.gone = c.gone
      /\ new.there = c.there /\ new.alone = c.alone /\ new.step = "failed"
      /\ new.answer = c.answer
  BY <1>1 DEF Call
<1> HIDE DEF new
<1>5. ShownInv' /\ EndInv'
  BY <1>1, <1>2, <1>3 DEF ShownInv, EndInv, Injective
<1>6. ASSUME NEW d \in calls \ {c}
      PROVE  CallFine(d)' /\ RefreshFine(d)'
  <2>1. CallFine(d) /\ RefreshFine(d) /\ ~d.alone
    BY <1>1 DEF CallsFine, CallFine
  <2>2. QED
    BY <1>2, <1>3, <2>1 DEF CallFine, RefreshFine, Injective, Top, IsLast, Short
<1>7. CallFine(new)' /\ RefreshFine(new)'
  <2>1. CallFine(c)
    BY <1>1 DEF CallsFine
  <2>2. new.alone => calls' = {new}
    BY <1>2, <1>4, <2>1 DEF CallFine
  <2>3. QED
    BY <1>2, <1>3, <1>4, <2>1, <2>2 DEF CallFine, RefreshFine, Injective
<1>8. QED
  BY <1>2, <1>5, <1>6, <1>7 DEF CallsFine

\* Whoever is not the only one under way is not alone.
LEMMA OthersOverlap ==
    ASSUME CallsFine, NEW c \in calls
    PROVE  /\ \A d \in calls \ {c} : ~d.alone /\ ~c.alone
           /\ c.alone => calls = {c}
BY DEF CallsFine, CallFine

LEMMA RefreshedKeeps ==
    ASSUME PagesInv, NEW c \in calls, Refreshed(c)
    PROVE  ShownInv' /\ CallsFine' /\ EndInv'
<1>1. /\ ListTypeOK /\ ShownInv /\ CallsFine /\ EndInv /\ c \in Call
      /\ CallFine(c) /\ RefreshFine(c)
  BY DEF PagesInv, ListTypeOK, CallsFine
<1>2. /\ c.op = "refresh" /\ calls' = calls \ {c}
      /\ UNCHANGED <<kind, feed, removed, page>>
  BY DEF Refreshed, server
<1>3. c.step \in {"answered", "failed"}
  <2>1. c.step \in {"sent", "answered", "not found", "failed"}
    BY <1>1 DEF Call
  <2>2. c.step # "sent" /\ c.step # "not found"
    BY <1>1, <1>2 DEF Refreshed, CallFine
  <2>3. QED
    BY <2>1, <2>2
<1>4. CASE c.step = "failed"
  <2>1. UNCHANGED <<shown, hasMore, buried, due, gaps, disturbed>> /\ (gaps \/ disturbed)
    BY <1>1, <1>4 DEF Refreshed, Refused, history, CallFine
  <2>2. ShownInv' /\ EndInv'
    BY <1>1, <1>2, <2>1 DEF ShownInv, EndInv, Injective
  <2>3. ASSUME NEW d \in calls \ {c}
        PROVE  CallFine(d)' /\ RefreshFine(d)'
    <3>1. CallFine(d) /\ RefreshFine(d) /\ ~d.alone
      BY <1>1, OthersOverlap DEF CallsFine
    <3>2. QED
      BY <1>2, <2>1, <3>1 DEF CallFine, RefreshFine, Injective, Top, IsLast, Short
  <2>4. QED
    BY <1>2, <2>2, <2>3 DEF CallsFine
<1>5. CASE c.step = "answered"
  <2>1. /\ shown' = c.answer /\ buried' = c.gone /\ due' = c.there
        /\ gaps' = (removed # c.gone) /\ disturbed' = ~c.alone
        /\ hasMore' = ((kind = "activity" \/ hasMore) /\ ~IsLast(c.answer))
    BY <1>5 DEF Refreshed, Refused, Replaced
  <2>2. ShownInv'
    BY <1>1, <1>2, <2>1 DEF ShownInv, CallFine, Injective
  <2>3. ASSUME NEW d \in calls \ {c}
        PROVE  CallFine(d)' /\ RefreshFine(d)'
    <3>1. CallFine(d) /\ RefreshFine(d) /\ ~d.alone /\ ~c.alone
      BY <1>1, OthersOverlap DEF CallsFine
    <3>2. disturbed'
      BY <2>1, <3>1
    <3>3. CallFine(d)'
      BY <1>2, <3>1, <3>2 DEF CallFine, Injective
    <3>4. RefreshFine(d)'
      BY <1>2, <3>1 DEF RefreshFine, Top, IsLast, Short
    <3>5. QED
      BY <3>3, <3>4
  <2>4. ASSUME ~gaps', ~disturbed'
        PROVE  /\ calls' = {} /\ (due \cap Top(page))' \subseteq ToSet(shown)'
               /\ ~hasMore' => due' \subseteq ToSet(shown)'
    <3>1. c.alone /\ removed = c.gone
      BY <2>1, <2>4
    <3>2. calls' = {} /\ page = 1 /\ hasMore
      BY <1>1, <1>2, <3>1 DEF CallFine
    <3>3. /\ c.there \cap Top(1) \subseteq ToSet(c.answer)
          /\ IsLast(c.answer) => c.there \subseteq ToSet(c.answer)
      BY <1>1, <1>2, <1>5, <3>1 DEF RefreshFine
    <3>4. Top(page)' = Top(1)
      BY <1>2, <3>2 DEF Top
    <3>5. ~hasMore' => IsLast(c.answer)
      BY <2>1, <3>2
    <3>6. QED
      BY <2>1, <3>2, <3>3, <3>4, <3>5
  <2>5. EndInv'
    BY <2>4 DEF EndInv
  <2>6. QED
    BY <1>2, <2>2, <2>3, <2>5 DEF CallsFine
<1>6. QED
  BY <1>3, <1>4, <1>5

LEMMA LoadedMoreKeeps ==
    ASSUME PagesInv, NEW c \in calls, LoadedMore(c)
    PROVE  ShownInv' /\ CallsFine' /\ EndInv'
<1>1. /\ ListTypeOK /\ ShownInv /\ CallsFine /\ EndInv /\ c \in Call /\ CallFine(c)
      /\ c.current \in Seq(Items) /\ c.answer \in Seq(Items)
  BY DEF PagesInv, ListTypeOK, CallsFine, Call
<1>2. /\ c.op = "more" /\ calls' = calls \ {c} /\ disturbed' = (disturbed \/ ~c.alone)
      /\ hasMore' = (hasMore /\ (Refused(c) \/ ~IsLast(c.answer)))
      /\ UNCHANGED <<kind, feed, removed, page, buried, due, gaps>>
  BY DEF LoadedMore, server
<1>3. c.step \in {"answered", "not found", "failed"}
  <2>1. c.step \in {"sent", "answered", "not found", "failed"} /\ c.step # "sent"
    BY <1>1 DEF Call, LoadedMore
  <2>2. QED
    BY <2>1
<1>4. \/ shown' = shown /\ (Refused(c) \/ c.answer = <<>>)
      \/ ~Refused(c) /\ shown' = Merged(c.current, c.answer)
  BY DEF LoadedMore
<1>5. /\ Injective(Merged(c.current, c.answer))
      /\ ToSet(Merged(c.current, c.answer)) = ToSet(c.current) \cup ToSet(c.answer)
  <2>1. Injective(c.current)
    BY <1>1 DEF CallFine
  <2>2. QED
    BY <1>1, <2>1, MergedIs
<1>6. c.alone => c.current = shown /\ ToSet(c.answer) \cap buried = {} /\ calls' = {}
  BY <1>1, <1>2, OthersOverlap DEF CallFine
<1>7. ShownInv'
  <2>1. Injective(shown')
    BY <1>1, <1>4, <1>5 DEF ShownInv
  <2>2. ~disturbed' => ToSet(shown') \cap buried = {}
    BY <1>1, <1>2, <1>4, <1>5, <1>6 DEF ShownInv
  <2>3. QED
    BY <1>1, <1>2, <2>1, <2>2 DEF ShownInv, Injective
<1>8. ASSUME NEW d \in calls \ {c}
      PROVE  CallFine(d)' /\ RefreshFine(d)'
  <2>1. CallFine(d) /\ RefreshFine(d) /\ ~d.alone /\ ~c.alone
    BY <1>1, OthersOverlap DEF CallsFine
  <2>2. disturbed'
    BY <1>2, <2>1
  <2>3. CallFine(d)'
    <3>1. d.op = "refresh" => d.page = 1 /\ d.step # "not found"
      BY <2>1 DEF CallFine
    <3>2. QED
      BY <1>2, <2>1, <2>2 DEF CallFine, Injective
  <2>4. RefreshFine(d)'
    BY <1>2, <2>1 DEF RefreshFine, Top, IsLast, Short
  <2>5. QED
    BY <2>3, <2>4
<1>9. ASSUME ~gaps', ~disturbed'
      PROVE  /\ calls' = {} /\ (due \cap Top(page))' \subseteq ToSet(shown)'
             /\ ~hasMore' => due' \subseteq ToSet(shown)'
  <2>1. ~gaps /\ ~disturbed /\ c.alone
    BY <1>2, <1>9
  <2>2. MoreFine(c) /\ hasMore /\ calls' = {}
    BY <1>1, <1>6, <2>1 DEF EndInv
  <2>3. Top(page)' = Top(page)
    BY <1>2 DEF Top
  <2>4. c.step # "failed"
    BY <1>1, <2>1 DEF CallFine
  <2>5. CASE c.step = "not found"
    <3>1. Refused(c) /\ shown' = shown /\ hasMore'
      BY <1>2, <2>2, <2>5, <1>4 DEF Refused
    <3>2. due \cap Top(page) \subseteq ToSet(shown)
      BY <1>2, <2>1, <2>2, <2>5 DEF MoreFine
    <3>3. QED
      BY <1>2, <2>2, <2>3, <3>1, <3>2
  <2>6. CASE c.step = "answered"
    <3>1. /\ due \cap Top(page) \subseteq ToSet(shown) \cup ToSet(c.answer)
          /\ IsLast(c.answer) => due \subseteq ToSet(shown) \cup ToSet(c.answer)
      BY <1>2, <2>1, <2>2, <2>6 DEF MoreFine
    <3>2. ~Refused(c)
      BY <2>6 DEF Refused
    <3>3. ToSet(shown') = ToSet(shown) \cup ToSet(c.answer)
      <4>1. CASE shown' = shown /\ c.answer = <<>>
        BY <4>1, EmptyList
      <4>2. CASE shown' = Merged(c.current, c.answer)
        BY <1>5, <1>6, <2>1, <4>2
      <4>3. QED
        BY <1>4, <3>2, <4>1, <4>2
    <3>4. ~hasMore' => IsLast(c.answer)
      BY <1>2, <2>2, <3>2
    <3>5. QED
      BY <1>2, <2>2, <2>3, <3>1, <3>3, <3>4
  <2>7. QED
    BY <1>3, <2>4, <2>5, <2>6
<1>10. EndInv'
  BY <1>9 DEF EndInv
<1>11. QED
  BY <1>2, <1>7, <1>8, <1>10 DEF CallsFine

LEMMA PagesStep == PagesInv /\ [ListNext]_listVars => PagesInv'
<1> SUFFICES ASSUME PagesInv, [ListNext]_listVars
             PROVE  PagesInv'
  OBVIOUS
<1>1. ListTypeOK' /\ FeedInv'
  BY ListTypeStep DEF PagesInv
<1>2. CASE Post \/ Withdraw \/ Refresh \/ LoadMore
  BY <1>1, <1>2, PostKeeps, WithdrawKeeps, RefreshKeeps, LoadMoreKeeps DEF PagesInv
<1>3. ASSUME NEW c \in calls, Answer(c) \/ Fail(c) \/ Deliver(c)
      PROVE  PagesInv'
  BY <1>1, <1>3, AnswerKeeps, FailKeeps, RefreshedKeeps, LoadedMoreKeeps DEF PagesInv, Deliver
<1>4. CASE UNCHANGED listVars
  <2>1. /\ UNCHANGED <<kind, feed, removed, shown, page, hasMore, calls>>
        /\ UNCHANGED <<buried, due, gaps, disturbed>>
    BY <1>4 DEF listVars, server, notifier, history
  <2>2. ShownInv'
    BY <2>1 DEF PagesInv, ShownInv, Injective
  <2>3. CallsFine'
    <3>1. ASSUME NEW c \in calls
          PROVE  CallFine(c)' /\ RefreshFine(c)'
      <4>1. CallFine(c) /\ RefreshFine(c)
        BY DEF PagesInv, CallsFine
      <4>2. CallFine(c)'
        BY <2>1, <4>1 DEF CallFine, Injective
      <4>3. RefreshFine(c)'
        BY <2>1, <4>1 DEF RefreshFine, Top, IsLast, Short
      <4>4. QED
        BY <4>2, <4>3
    <3>2. QED
      BY <2>1, <3>1 DEF CallsFine
  <2>4. EndInv'
    <3>1. Top(page)' = Top(page) /\ Top(page - 1)' = Top(page - 1)
      BY <2>1 DEF Top
    <3>2. \A c \in calls : MoreFine(c) => MoreFine(c)'
      BY <2>1, <3>1 DEF MoreFine, IsLast, Short
    <3>3. QED
      BY <2>1, <3>1, <3>2 DEF PagesInv, EndInv
  <2>5. QED
    BY <1>1, <2>2, <2>3, <2>4 DEF PagesInv
<1>5. QED
  BY <1>2, <1>3, <1>4 DEF ListNext

LEMMA PagesHold == ListSpec => []PagesInv
<1>1. ListInit => PagesInv
  BY InitIsFine
<1>2. PagesInv /\ [ListNext]_listVars => PagesInv'
  BY PagesStep
<1>3. QED
  BY <1>1, <1>2, PTL DEF ListSpec

\* However calls, answers, additions and deletions interleave, nothing that was gone
\* before the last refresh is shown, unless calls overlapped (refresh, loadMore).
THEOREM NothingBuriedIsShown == ListSpec => []NoGhosts
<1>1. PagesInv => NoGhosts
  BY DEF PagesInv, ShownInv, NoGhosts
<1>2. QED
  BY <1>1, PagesHold, PTL

\* For pages and lists of any length: when the notifier says that there is no more,
\* everything is shown, once, although pages are cut by offset and items are added.
THEOREM TheEndIsTheEnd == ListSpec => []EndMeansAll
<1>1. PagesInv => EndMeansAll
  <2> SUFFICES ASSUME PagesInv, ~hasMore, ~gaps, ~disturbed
               PROVE  due \subseteq ToSet(shown) /\ Len(shown) = Cardinality(ToSet(shown))
    BY DEF EndMeansAll
  <2>1. due \subseteq ToSet(shown)
    BY DEF PagesInv, EndInv
  <2>2. shown \in Seq(Items) /\ Injective(shown)
    BY DEF PagesInv, ListTypeOK, ShownInv
  <2>3. QED
    BY <2>1, <2>2, InjectiveCount
<1>2. QED
  BY <1>1, PagesHold, PTL
===============================================================================
