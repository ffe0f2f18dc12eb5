------------------------------- MODULE Expenses --------------------------------
(***************************************************************************)
(* Expenses of one group (apps/expenses) and its currency (apps/groups).   *)
(* A request of a web worker is three steps: the view loads the rows, the  *)
(* service validates, the transaction writes.  A transaction of an expense *)
(* that exists starts by updating its row, and keeps that row locked until *)
(* the commit: what it writes is one step.  Nothing else is locked.        *)
(***************************************************************************)
EXTENDS Integers, FiniteSets

CONSTANTS
    Users,
    ExpenseIds,
    Methods,                \* split methods
    Texts,                  \* description, category, expense_date
    Currencies,
    Workers,                \* web workers serving requests
    MaxAmount,              \* bound: largest amount
    MaxRequests,            \* bound: requests started
    MaxRestores             \* bound: of these, restores

ASSUME BoundsAssumption ==
    MaxAmount \in Nat /\ MaxRequests \in Nat /\ MaxRestores \in Nat

VARIABLES
    expense,    \* expense[e]: the row of e
    splits,     \* splits[e]: the batches of live split rows of e
    audit,      \* audit[e]: the latest AuditLog entry of e
    members,    \* active members of the group
    currency,   \* of the group
    req,        \* what each worker is doing
    begun,      \* requests started; numbers the batches of splits
    restores    \* restores started

vars == <<expense, splits, audit, members, currency, req, begun, restores>>

Amounts == 1 .. MaxAmount
None == [amount |-> 0]
Row == [creator : Users, method : Methods, amount : Amounts, text : Texts,
        currency : Currencies, deleted : BOOLEAN]
Batch == [n : Nat, method : Methods, total : Amounts, people : SUBSET Users]
State == [row : Row \cup {None}, splits : SUBSET Batch]
Entry == [n : Nat, before : State, after : State \cup {None}]
Idle == [step |-> "idle"]
ExpenseRequest ==
    [step : {"loaded", "checked"},
     op : {"create", "update", "text", "delete", "restore"},
     n : Nat, e : ExpenseIds,
     copy : Row \cup {None},    \* the row the view loaded
     row : Row,                 \* the object in memory, as it will be saved
     people : SUBSET Users,     \* payer and participants, when they are sent
     before : State]            \* before_state of the audit entry
CurrencyRequest == [step : {"loaded", "checked"}, op : {"currency"},
                    currency : Currencies]

TypeOK ==
    /\ expense \in [ExpenseIds -> Row \cup {None}]
    /\ splits \in [ExpenseIds -> SUBSET Batch]
    /\ audit \in [ExpenseIds -> Entry \cup {None}]
    /\ members \subseteq Users /\ currency \in Currencies
    /\ req \in [Workers -> ExpenseRequest \cup CurrencyRequest \cup {Idle}]
    /\ begun \in Nat /\ restores \in Nat

-------------------------------------------------------------------------------
Live(e) == expense[e] # None /\ ~expense[e].deleted

\* _serialize_expense: the columns of the object, the splits of the database.
Serialized(row, e) == [row |-> row, splits |-> splits[e]]

Init ==
    /\ expense = [e \in ExpenseIds |-> None]
    /\ splits = [e \in ExpenseIds |-> {}]
    /\ audit = [e \in ExpenseIds |-> None]
    /\ members = Users /\ currency \in Currencies
    /\ req = [w \in Workers |-> Idle]
    /\ begun = 0 /\ restores = 0

InUse(e) ==
    \/ expense[e] # None
    \/ \E w \in Workers : req[w] # Idle /\ req[w].op # "currency" /\ req[w].e = e

\* The objects a request may save.  A creation takes a new id and converts to
\* the currency of the group it loaded.
Created(e) == IF InUse(e) THEN {} ELSE
    [creator : Users, method : Methods, amount : Amounts, text : Texts,
     currency : {currency}, deleted : {FALSE}]
Edited(row, m, a, t) == [row EXCEPT !.method = m, !.amount = a, !.text = t]
Updated(e) ==
    {Edited(expense[e], m, a, t) : m \in Methods, a \in Amounts, t \in Texts}
Retitled(e) == {[expense[e] EXCEPT !.text = t] : t \in Texts}
Flagged(e, gone) == {[expense[e] EXCEPT !.deleted = gone]}

Objects(op, e) ==
    CASE op = "create"  -> Created(e)
      [] op = "update"  -> Updated(e)
      [] op = "text"    -> Retitled(e)
      [] op = "delete"  -> Flagged(e, TRUE)
      [] op = "restore" -> Flagged(e, FALSE)

Begin(w, op) ==
    /\ req[w] = Idle /\ begun < MaxRequests
    /\ op = "restore" => restores < MaxRestores
    /\ \E e \in ExpenseIds :
           /\ CASE op = "create"  -> TRUE
                [] op = "restore" -> expense[e] # None /\ expense[e].deleted
                [] OTHER          -> Live(e)
           /\ \E row \in Objects(op, e), people \in SUBSET Users :
                 /\ op \in {"create", "update"} <=> people # {}
                 /\ req' = [req EXCEPT ![w] =
                       [step |-> "loaded", op |-> op, n |-> begun + 1, e |-> e,
                        copy |-> expense[e], row |-> row, people |-> people,
                        before |-> Serialized(None, e)]]
    /\ begun' = begun + 1
    /\ restores' = restores + (IF op = "restore" THEN 1 ELSE 0)
    /\ UNCHANGED <<expense, splits, audit, members, currency>>

BeginCurrency(w) ==
    /\ req[w] = Idle /\ begun < MaxRequests
    /\ \E c \in Currencies \ {currency} :
           req' = [req EXCEPT ![w] = [step |-> "loaded", op |-> "currency", currency |-> c]]
    /\ begun' = begun + 1
    /\ UNCHANGED <<expense, splits, audit, members, currency, restores>>

\* Mutant of ParticipantsAllowed: only the participants are looked at.
ParticipantsAllowedSplits(c) == c.people \subseteq members

\* _validate_group_participants.
ParticipantsAllowed(c) == c.people \cup {c.row.creator} \subseteq members

\* Mutant of CurrencyAllowed: deleted expenses are the ones looked at.
CurrencyAllowedDeleted == \A e \in ExpenseIds : expense[e] = None \/ Live(e)

\* update_group.
CurrencyAllowed == \A e \in ExpenseIds : ~Live(e)

Allowed(c) ==
    CASE c.op \in {"create", "update"} -> ParticipantsAllowed(c)
      [] c.op = "text"                 -> c.row.text # c.copy.text
      [] OTHER                         -> TRUE

\* Mutant of BeforeState: the object is serialized after it was changed.
BeforeStateLate(c) == Serialized(c.row, c.e)

BeforeState(c) == Serialized(c.copy, c.e)

Check(w) ==
    LET c == req[w] IN
    /\ c # Idle /\ c.step = "loaded" /\ c.op # "currency"
    /\ req' = [req EXCEPT ![w] =
                 IF Allowed(c)
                 THEN [c EXCEPT !.step = "checked", !.before = BeforeState(c)]
                 ELSE Idle]
    /\ UNCHANGED <<expense, splits, audit, members, currency, begun, restores>>

CheckCurrency(w) ==
    LET c == req[w] IN
    /\ c # Idle /\ c.step = "loaded" /\ c.op = "currency"
    /\ req' = [req EXCEPT ![w] =
                 IF CurrencyAllowed THEN [c EXCEPT !.step = "checked"] ELSE Idle]
    /\ UNCHANGED <<expense, splits, audit, members, currency, begun, restores>>

-------------------------------------------------------------------------------
(* The writes.                                                               *)

At(w, op) == req[w] # Idle /\ req[w].step = "checked" /\ req[w].op = op

\* Mutant of NewSplits: only the splits of the earlier snapshot are retired.
NewSplitsOfSnapshot(c) ==
    (splits[c.e] \ c.before.splits)
        \cup {[n |-> c.n, method |-> c.row.method, total |-> c.row.amount,
               people |-> c.people]}

\* _replace_splits computes with the object in memory, and retires every live
\* split of the expense.
NewSplits(c) ==
    {[n |-> c.n, method |-> c.row.method, total |-> c.row.amount,
      people |-> c.people]}

\* AuditService.log, which serializes the object in memory.
Log(c, live) ==
    audit' = [audit EXCEPT ![c.e] =
                 [n |-> c.n, before |-> c.before,
                  after |-> IF c.op = "delete" THEN None
                            ELSE [row |-> c.row, splits |-> live]]]

Create(w) ==
    LET c == req[w] IN
    /\ At(w, "create")
    /\ expense' = [expense EXCEPT ![c.e] = c.row]
    /\ splits' = [splits EXCEPT ![c.e] = NewSplits(c)]
    /\ Log(c, NewSplits(c))
    /\ req' = [req EXCEPT ![w] = Idle]
    /\ UNCHANGED <<members, currency, begun, restores>>

\* Mutant of Saved: every column of the object is written.
SavedWhole(c) == c.row

\* Mutant of Saved: split_method is not among the columns.
SavedWithoutMethod(c) == [expense[c.e] EXCEPT !.amount = c.row.amount, !.text = c.row.text]

\* save(update_fields=...): the columns changed in the object, and the amount.
Saved(c) ==
    LET Column(old, loaded, new) == IF new # loaded THEN new ELSE old
        old == expense[c.e] IN
    [old EXCEPT !.amount = c.row.amount,
                !.method = Column(@, c.copy.method, c.row.method),
                !.text = Column(@, c.copy.text, c.row.text)]

\* full_update.
Update(w) ==
    LET c == req[w] IN
    /\ At(w, "update")
    /\ expense' = [expense EXCEPT ![c.e] = Saved(c)]
    /\ splits' = [splits EXCEPT ![c.e] = NewSplits(c)]
    /\ Log(c, NewSplits(c))
    /\ req' = [req EXCEPT ![w] = Idle]
    /\ UNCHANGED <<members, currency, begun, restores>>

\* partial_update, alone or in a batch.
UpdateText(w) ==
    LET c == req[w] IN
    /\ At(w, "text")
    /\ expense' = [expense EXCEPT ![c.e].text = c.row.text]
    /\ Log(c, splits[c.e])
    /\ req' = [req EXCEPT ![w] = Idle]
    /\ UNCHANGED <<splits, members, currency, begun, restores>>

Delete(w) ==
    LET c == req[w] IN
    /\ At(w, "delete")
    /\ expense' = [expense EXCEPT ![c.e].deleted = TRUE]
    /\ Log(c, splits[c.e])
    /\ req' = [req EXCEPT ![w] = Idle]
    /\ UNCHANGED <<splits, members, currency, begun, restores>>

Restore(w) ==
    LET c == req[w] IN
    /\ At(w, "restore")
    /\ expense' = [expense EXCEPT ![c.e].deleted = FALSE]
    /\ Log(c, splits[c.e])
    /\ req' = [req EXCEPT ![w] = Idle]
    /\ UNCHANGED <<splits, members, currency, begun, restores>>

ChangeCurrency(w) ==
    /\ At(w, "currency")
    /\ currency' = req[w].currency
    /\ req' = [req EXCEPT ![w] = Idle]
    /\ UNCHANGED <<expense, splits, audit, members, begun, restores>>

\* add_member and remove_member, see GroupMembership.
MemberMoves(w, u) ==
    /\ req[w] = Idle
    /\ members' = IF u \in members THEN members \ {u} ELSE members \cup {u}
    /\ UNCHANGED <<expense, splits, audit, currency, req, begun, restores>>

Serve(w) ==
    \/ \E op \in {"create", "update", "text", "delete", "restore"} : Begin(w, op)
    \/ BeginCurrency(w) \/ Check(w) \/ CheckCurrency(w)
    \/ Create(w) \/ Update(w) \/ UpdateText(w) \/ Delete(w) \/ Restore(w)
    \/ ChangeCurrency(w)
    \/ \E u \in Users : MemberMoves(w, u)

Next == \E w \in Workers : Serve(w)

Spec == Init /\ [][Next]_vars

-------------------------------------------------------------------------------
(* Properties.                                                               *)

\* An expense has one batch of live splits, and it adds up to the expense's
\* amount, whichever updates overlap (_replace_splits after save in full_update).
SplitsMatchAmount ==
    \A e \in ExpenseIds :
        expense[e] # None => \E b \in splits[e] :
                                splits[e] = {b} /\ b.total = expense[e].amount

\* The live splits were computed by the method the expense shows (full_update).
MethodMatchesSplits ==
    \A e \in ExpenseIds : \A b \in splits[e] : b.method = expense[e].method

\* Only a restore brings a deleted expense back: an update that was loaded
\* before the deletion does not (the update_fields of full_update).
DeletedStaysDeleted ==
    [][\A e \in ExpenseIds :
          (expense[e] # None /\ expense[e].deleted /\ ~expense'[e].deleted)
             => \E w \in Workers :
                    req[w] # Idle /\ req[w].op = "restore" /\ req'[w] = Idle]_vars

\* Splits are only written for active members of the group, payer and creator
\* included (_validate_group_participants).
WrittenForMembers(w) ==
    (At(w, "create") \/ At(w, "update")) /\ req'[w] = Idle
        => req[w].people \cup {req[w].row.creator} \subseteq members
ParticipantsAreMembers == [][\A w \in Workers : WrittenForMembers(w)]_vars

\* The expenses that count are in the currency of the group (update_group:
\* "Cannot change currency after expenses have been added.").
CurrencyAgrees == \A e \in ExpenseIds : Live(e) => expense[e].currency = currency

\* The audit log is a history: each entry starts from what the expense was, and
\* ends in what it is (AuditService.log).
EntryTruthful(e) ==
    audit'[e] # audit[e]
        => /\ audit'[e].before = Serialized(expense[e], e)
           /\ IF audit'[e].after = None THEN expense'[e].deleted
              ELSE audit'[e].after = Serialized(expense[e], e)'
AuditTruthful == [][\A e \in ExpenseIds : EntryTruthful(e)]_vars
===============================================================================
