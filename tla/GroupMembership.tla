--------------------------- MODULE GroupMembership ----------------------------
(***************************************************************************)
(* Members and roles of one group (apps/groups), from its creation on.     *)
(* A request of a web worker is three steps: the view checks the actor's   *)
(* role, the service loads the rows its checks need, the write follows;    *)
(* nothing is locked in between.  Deleting an account (apps/users) queues  *)
(* a task that soft-deletes the memberships of that user.  Recalculations  *)
(* of the ledger fill a cache that is not served, and are left out.        *)
(***************************************************************************)
EXTENDS Integers, FiniteSets

CONSTANTS
    Users,
    Creator,                \* the user who creates the group
    Workers,                \* web workers serving requests
    MaxRequests,            \* bound: membership requests started
    MaxDeletions            \* bound: accounts deleted

ASSUME CreatorAssumption == Creator \in Users
ASSUME BoundAssumption == MaxRequests \in Nat /\ MaxDeletions \in Nat

Roles == {"VIEWER", "MEMBER", "ADMIN"}
Rank == [VIEWER |-> 1, MEMBER |-> 2, ADMIN |-> 3]    \* ROLE_HIERARCHY

VARIABLES
    row,        \* row[u]: the membership row of u, NoRow without one
    accounts,   \* users whose account is not deleted
    purges,     \* users whose delete_user_data task is queued
    groupGone,  \* the group is soft-deleted
    req,        \* what each worker is doing
    begun       \* requests started; numbers the rows they create

vars == <<row, accounts, purges, groupGone, req, begun>>

NoRow == [id |-> -1]
Membership == [id : Nat, role : Roles, deleted : BOOLEAN]
Idle == [step |-> "idle"]
Request ==
    [step : {"authorised", "checked"}, op : {"add", "role", "remove", "leave"},
     actor : Users, target : Users, role : Roles, n : Nat,
     loaded : Membership \cup {NoRow}]

TypeOK ==
    /\ row \in [Users -> Membership \cup {NoRow}]
    /\ accounts \subseteq Users /\ purges \subseteq Users \ accounts
    /\ groupGone \in BOOLEAN
    /\ req \in [Workers -> Request \cup {Idle}]
    /\ begun \in Nat

-------------------------------------------------------------------------------
\* get_membership: the row of u, unless soft-deleted.
IsMember(u) == row[u] # NoRow /\ ~row[u].deleted
Members == {u \in Users : IsMember(u)}

\* admin_count counts these.
Admins == {u \in Members : row[u].role = "ADMIN"}
LastAdmin == Cardinality(Admins) = 1

\* create_group, with any members the creator names.
Init ==
    /\ \E others \in SUBSET (Users \ {Creator}) :
           row = [u \in Users |->
                     IF u = Creator THEN [id |-> 0, role |-> "ADMIN", deleted |-> FALSE]
                     ELSE IF u \in others
                          THEN [id |-> 0, role |-> "MEMBER", deleted |-> FALSE]
                          ELSE NoRow]
    /\ accounts = Users /\ purges = {} /\ groupGone = FALSE
    /\ req = [w \in Workers |-> Idle] /\ begun = 0

\* _require_role in the view: leaving takes MEMBER, the rest ADMIN.
MinRole(op) == IF op = "leave" THEN "MEMBER" ELSE "ADMIN"

Begin(w) ==
    /\ req[w] = Idle /\ begun < MaxRequests /\ ~groupGone
    /\ \E op \in {"add", "role", "remove", "leave"}, a \in accounts,
          t \in Users, r \in Roles :
           /\ IsMember(a) /\ Rank[row[a].role] >= Rank[MinRole(op)]
           /\ op \in {"remove", "leave"} => r = "VIEWER"     \* takes no role
           /\ op = "leave" => t = a
           /\ req' = [req EXCEPT ![w] =
                 [step |-> "authorised", op |-> op, actor |-> a, target |-> t,
                  role |-> r, n |-> begun + 1, loaded |-> NoRow]]
    /\ begun' = begun + 1
    /\ UNCHANGED <<row, accounts, purges, groupGone>>

\* Mutant of RoleChangeAllowed: the creator is like any other member.
RoleChangeAllowedToCreator(c) ==
    LET demotes == row[c.target].role = "ADMIN" /\ c.role # "ADMIN" IN
    /\ row[c.target] # NoRow
    /\ ~(c.actor = c.target /\ demotes /\ LastAdmin)

\* change_role: others may not demote the creator; the last admin may not
\* demote itself.
RoleChangeAllowed(c) ==
    LET demotes == row[c.target].role = "ADMIN" /\ c.role # "ADMIN" IN
    /\ row[c.target] # NoRow
    /\ ~(c.actor # c.target /\ c.target = Creator /\ demotes)
    /\ ~(c.actor = c.target /\ demotes /\ LastAdmin)

\* remove_member: loads the row even when it is soft-deleted.
RemovalAllowed(c) ==
    /\ c.actor # c.target /\ c.target # Creator
    /\ row[c.target] # NoRow
    /\ ~(row[c.target].role = "ADMIN" /\ LastAdmin)

\* Mutant of LeavingAllowed: no last-admin check.
LeavingAllowedToAll(c) == IsMember(c.target)

LeavingAllowed(c) ==
    /\ IsMember(c.target)
    /\ ~(row[c.target].role = "ADMIN" /\ LastAdmin)

\* add_member: any row, soft-deleted or not, is in the way.
AdditionAllowed(c) == c.target \in accounts /\ row[c.target] = NoRow

Allowed(c) ==
    CASE c.op = "add"    -> AdditionAllowed(c)
      [] c.op = "role"   -> RoleChangeAllowed(c)
      [] c.op = "remove" -> RemovalAllowed(c)
      [] c.op = "leave"  -> LeavingAllowed(c)

Check(w) ==
    /\ req[w] # Idle /\ req[w].step = "authorised"
    /\ req' = [req EXCEPT ![w] =
                 IF Allowed(req[w])
                 THEN [req[w] EXCEPT !.step = "checked", !.loaded = row[req[w].target]]
                 ELSE Idle]
    /\ UNCHANGED <<row, accounts, purges, groupGone, begun>>

\* The loaded row is still there, under the same primary key.
StillThere(c) == row[c.target].id = c.loaded.id

\* The unique constraint refuses a second row for a user.
Add(w) ==
    LET c == req[w] IN
    /\ c # Idle /\ c.step = "checked" /\ c.op = "add"
    /\ row' = IF row[c.target] = NoRow
              THEN [row EXCEPT ![c.target] =
                       [id |-> c.n, role |-> c.role, deleted |-> FALSE]]
              ELSE row
    /\ req' = [req EXCEPT ![w] = Idle]
    /\ UNCHANGED <<accounts, purges, groupGone, begun>>

\* Mutant of ChangeRole: a plain save() inserts the row again when it is gone.
ChangeRoleUpsert(w) ==
    LET c == req[w] IN
    /\ c # Idle /\ c.step = "checked" /\ c.op = "role"
    /\ row' = [row EXCEPT ![c.target] = [c.loaded EXCEPT !.role = c.role]]
    /\ req' = [req EXCEPT ![w] = Idle]
    /\ UNCHANGED <<accounts, purges, groupGone, begun>>

\* save(update_fields=["role"]) writes nothing for an unchanged role and
\* fails when the row is gone.
ChangeRole(w) ==
    LET c == req[w] IN
    /\ c # Idle /\ c.step = "checked" /\ c.op = "role"
    /\ row' = IF StillThere(c) /\ c.loaded.role # c.role
              THEN [row EXCEPT ![c.target].role = c.role] ELSE row
    /\ req' = [req EXCEPT ![w] = Idle]
    /\ UNCHANGED <<accounts, purges, groupGone, begun>>

\* remove_member and leave_group delete the row itself.
RemoveMember(w) ==
    LET c == req[w] IN
    /\ c # Idle /\ c.step = "checked" /\ c.op \in {"remove", "leave"}
    /\ row' = IF StillThere(c) THEN [row EXCEPT ![c.target] = NoRow] ELSE row
    /\ req' = [req EXCEPT ![w] = Idle]
    /\ UNCHANGED <<accounts, purges, groupGone, begun>>

\* delete_group, by an admin.
DeleteGroup(w) ==
    /\ req[w] = Idle /\ ~groupGone
    /\ \E a \in accounts : a \in Admins
    /\ groupGone' = TRUE
    /\ UNCHANGED <<row, accounts, purges, req, begun>>

\* anonymize_and_soft_delete, then its task.
DeleteAccount(w) ==
    /\ req[w] = Idle
    /\ Cardinality(Users \ accounts) < MaxDeletions
    /\ \E u \in accounts :
           accounts' = accounts \ {u} /\ purges' = purges \cup {u}
    /\ UNCHANGED <<row, groupGone, req, begun>>

\* delete_user_data, its first statement: the only one that touches members.
Purge(u) ==
    /\ u \in purges
    /\ purges' = purges \ {u}
    /\ row' = IF row[u] = NoRow THEN row ELSE [row EXCEPT ![u].deleted = TRUE]
    /\ UNCHANGED <<accounts, groupGone, req, begun>>

Serve(w) ==
    \/ Begin(w) \/ Check(w) \/ Add(w) \/ ChangeRole(w) \/ RemoveMember(w)
    \/ DeleteGroup(w) \/ DeleteAccount(w)

Next ==
    \/ \E w \in Workers : Serve(w)
    \/ \E u \in Users : Purge(u)

Spec == Init /\ [][Next]_vars

-------------------------------------------------------------------------------
(* Properties.                                                               *)

\* A group always has an admin: the last one can neither leave, nor be removed,
\* nor be demoted (the last-admin checks of leave_group, remove_member and
\* change_role).
AdminExists == groupGone \/ Admins # {}

\* Nobody but the creator ends the creator's being an admin (change_role's
\* "Cannot demote the group creator", remove_member's "Cannot remove").
CreatorKept ==
    (Creator \in Admins /\ Creator \notin Admins')
        => \/ Creator \notin accounts
           \/ \E w \in Workers :
                  req[w] # Idle /\ req'[w] = Idle /\ req[w].actor = Creator
CreatorKeepsAdmin == [][CreatorKept]_vars

\* A membership that was deleted comes back only as the new row of an addition:
\* a role change that was checked before the deletion does not restore it.
NoResurrection ==
    [][\A u \in Users :
          (row'[u] # NoRow /\ row'[u].id # row[u].id)
             => \E w \in Workers :
                    /\ req[w] # Idle /\ req[w].op = "add"
                    /\ req[w].target = u /\ req[w].n = row'[u].id]_vars
===============================================================================
