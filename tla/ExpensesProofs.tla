---------------------------- MODULE ExpensesProofs -----------------------------
(***************************************************************************)
(* Type correctness of Expenses, and two facts that hold for any number of *)
(* web workers in any order: the live splits of an expense add up to its   *)
(* amount, and only a restore brings a deleted expense back.  And what a   *)
(* crew of one adds: the method and the currency agree, splits are for     *)
(* members, and the audit log is a history.                                *)
(***************************************************************************)
EXTENDS MCExpenses, TLAPS

\* A request of an expense works on an expense that exists, a creation alone
\* on one that nobody else knows.
TargetsExist ==
    \A w \in Workers : req[w] # Idle /\ req[w].op # "currency" =>
        IF req[w].op # "create" THEN expense[req[w].e] # None
        ELSE /\ expense[req[w].e] = None /\ ~req[w].row.deleted
             /\ \A v \in Workers \ {w} :
                    req[v] # Idle /\ req[v].op # "currency" => req[v].e # req[w].e

Inv == TypeOK /\ TargetsExist /\ SplitsMatchAmount

LEMMA NoneIsNoRow == None \notin Row
BY DEF None, Row

LEMMA IdleIsNoRequest == Idle \notin ExpenseRequest \cup CurrencyRequest
BY DEF Idle, ExpenseRequest, CurrencyRequest

\* What the type invariant says of a request in progress.
LEMMA RequestType ==
    ASSUME TypeOK, NEW w \in Workers, req[w] # Idle, req[w].op # "currency"
    PROVE  req[w] \in ExpenseRequest
BY DEF TypeOK, CurrencyRequest, Idle

LEMMA SerializedType ==
    ASSUME TypeOK, NEW e \in ExpenseIds, NEW r \in Row \cup {None}
    PROVE  Serialized(r, e) \in State
BY DEF TypeOK, Serialized, State

LEMMA BatchType ==
    ASSUME NEW c \in ExpenseRequest
    PROVE  NewSplits(c) \subseteq Batch
BY DEF NewSplits, ExpenseRequest, Row, Batch

LEMMA SavedType ==
    ASSUME TypeOK, NEW c \in ExpenseRequest, expense[c.e] # None
    PROVE  /\ Saved(c) \in Row
           /\ Saved(c).amount = c.row.amount
           /\ Saved(c).deleted = expense[c.e].deleted
<1>1. expense[c.e] \in Row
  BY DEF TypeOK, ExpenseRequest
<1>2. c.row \in Row
  BY DEF ExpenseRequest
<1>3. QED
  BY <1>1, <1>2 DEF Saved, Row

LEMMA ObjectType ==
    ASSUME TypeOK, NEW e \in ExpenseIds,
           NEW op \in {"create", "update", "text", "delete", "restore"},
           op # "create" => expense[e] # None,
           NEW r \in Objects(op, e)
    PROVE  /\ r \in Row
           /\ op = "create" => ~InUse(e) /\ ~r.deleted
<1>1. op # "create" => expense[e] \in Row
  BY DEF TypeOK
<1>2. CASE op = "create"
  <2>1. r \in Created(e)
    BY <1>2 DEF Objects
  <2>2. QED
    BY <1>2, <2>1 DEF Created, Row, TypeOK
<1>3. CASE op = "update"
  <2>1. r \in Updated(e)
    BY <1>3 DEF Objects
  <2>2. PICK m \in Methods, a \in Amounts, t \in Texts :
            r = Edited(expense[e], m, a, t)
    BY <2>1 DEF Updated
  <2>3. QED
    BY <1>1, <1>3, <2>2 DEF Edited, Row
<1>4. CASE op = "text"
  <2>1. r \in Retitled(e)
    BY <1>4 DEF Objects
  <2>2. PICK t \in Texts : r = [expense[e] EXCEPT !.text = t]
    BY <2>1, Zenon DEF Retitled
  <2>3. QED
    BY <1>1, <1>4, <2>2 DEF Row
<1>5. CASE op \in {"delete", "restore"}
  <2>1. PICK gone \in BOOLEAN : r \in Flagged(e, gone)
    BY <1>5 DEF Objects
  <2>2. r = [expense[e] EXCEPT !.deleted = gone]
    BY <2>1 DEF Flagged
  <2>3. QED
    BY <1>1, <1>5, <2>2 DEF Row
<1>6. QED
  BY <1>2, <1>3, <1>4, <1>5

-------------------------------------------------------------------------------
LEMMA InitIsFine == Init => Inv
<1> SUFFICES ASSUME Init
             PROVE  Inv
  OBVIOUS
<1>1. TypeOK
  BY DEF Init, TypeOK
<1>2. QED
  BY <1>1 DEF Init, Inv, TargetsExist, SplitsMatchAmount

\* A request starts: only req changes, and only for w.
LEMMA BeginStep ==
    ASSUME Inv, NEW w \in Workers,
           NEW op \in {"create", "update", "text", "delete", "restore"}, Begin(w, op)
    PROVE  Inv'
<1> USE DEF Inv
<1>0. PICK e \in ExpenseIds :
          /\ CASE op = "create"  -> TRUE
               [] op = "restore" -> expense[e] # None /\ expense[e].deleted
               [] OTHER          -> Live(e)
          /\ \E row \in Objects(op, e), people \in SUBSET Users :
                /\ op \in {"create", "update"} <=> people # {}
                /\ req' = [req EXCEPT ![w] =
                      [step |-> "loaded", op |-> op, n |-> begun + 1, e |-> e,
                       copy |-> expense[e], row |-> row, people |-> people,
                       before |-> Serialized(None, e)]]
  BY DEF Begin
<1>1. PICK row \in Objects(op, e), people \in SUBSET Users :
          req' = [req EXCEPT ![w] =
                [step |-> "loaded", op |-> op, n |-> begun + 1, e |-> e,
                 copy |-> expense[e], row |-> row, people |-> people,
                 before |-> Serialized(None, e)]]
  BY <1>0
<1>2. op # "create" => expense[e] # None
  BY <1>0 DEF Live
<1>3. row \in Row /\ (op = "create" => ~InUse(e) /\ ~row.deleted)
  BY <1>2, ObjectType
<1>4. Serialized(None, e) \in State
  BY SerializedType
<1>5. req'[w] \in ExpenseRequest /\ req'[w].op = op /\ req'[w].e = e /\ req'[w].row = row
  BY <1>1, <1>3, <1>4 DEF TypeOK, ExpenseRequest
<1>6. \A v \in Workers \ {w} : req'[v] = req[v]
  BY <1>1 DEF TypeOK
<1>7. UNCHANGED <<expense, splits, audit, members, currency>>
  BY DEF Begin
<1>8. TypeOK'
  <2>1. req' \in [Workers -> ExpenseRequest \cup CurrencyRequest \cup {Idle}]
    BY <1>1, <1>5 DEF TypeOK
  <2>2. begun' \in Nat /\ restores' \in Nat
    BY DEF TypeOK, Begin
  <2>3. QED
    BY <1>7, <2>1, <2>2 DEF TypeOK
<1>9. op = "create" => \A v \in Workers :
          req[v] # Idle /\ req[v].op # "currency" => req[v].e # e
  BY <1>3 DEF InUse
<1>10. TargetsExist'
  <2> SUFFICES ASSUME NEW v \in Workers, req'[v] # Idle, req'[v].op # "currency"
               PROVE  IF req'[v].op # "create" THEN expense'[req'[v].e] # None
                      ELSE /\ expense'[req'[v].e] = None /\ ~req'[v].row.deleted
                           /\ \A u \in Workers \ {v} :
                                  req'[u] # Idle /\ req'[u].op # "currency"
                                     => req'[u].e # req'[v].e
    BY DEF TargetsExist
  <2>1. CASE v = w
    BY <2>1, <1>2, <1>3, <1>5, <1>6, <1>7, <1>9 DEF InUse
  <2>2. CASE v # w
    BY <2>2, <1>2, <1>5, <1>6, <1>7, <1>9 DEF TargetsExist
  <2>3. QED
    BY <2>1, <2>2
<1>11. SplitsMatchAmount'
  BY <1>7 DEF SplitsMatchAmount
<1>12. QED
  BY <1>8, <1>10, <1>11

\* A request that ends, or goes on with the same target, asks for nothing new.
LEMMA TargetsKept ==
    ASSUME Inv, NEW w \in Workers,
           \A v \in Workers \ {w} : req'[v] = req[v],
           \/ req'[w] = Idle
           \/ req'[w].op = "currency"
           \/ /\ req[w] # Idle /\ req'[w].op = req[w].op /\ req'[w].e = req[w].e
              /\ req'[w].row = req[w].row,
           \A e \in ExpenseIds : expense'[e] = None <=> expense[e] = None
    PROVE  TargetsExist'
<1> USE DEF Inv
<1> SUFFICES ASSUME NEW v \in Workers, req'[v] # Idle, req'[v].op # "currency"
             PROVE  IF req'[v].op # "create" THEN expense'[req'[v].e] # None
                    ELSE /\ expense'[req'[v].e] = None /\ ~req'[v].row.deleted
                         /\ \A u \in Workers \ {v} :
                                req'[u] # Idle /\ req'[u].op # "currency"
                                   => req'[u].e # req'[v].e
  BY DEF TargetsExist
<1>1. /\ req[v] # Idle /\ req'[v].op = req[v].op
      /\ req'[v].e = req[v].e /\ req'[v].row = req[v].row
  OBVIOUS
<1>2. req[v].e \in ExpenseIds
  BY <1>1, RequestType DEF ExpenseRequest
<1>3. \A u \in Workers : req'[u] # Idle /\ req'[u].op # "currency" =>
          req[u] # Idle /\ req[u].op # "currency" /\ req'[u].e = req[u].e
  OBVIOUS
<1>4. QED
  BY <1>1, <1>2, <1>3 DEF TargetsExist

LEMMA CheckStep ==
    ASSUME Inv, NEW w \in Workers, Check(w) \/ CheckCurrency(w) \/ BeginCurrency(w)
    PROVE  Inv'
<1> USE DEF Inv
<1>1. UNCHANGED <<expense, splits, audit, members, currency>>
  BY DEF Check, CheckCurrency, BeginCurrency
<1>2. \A v \in Workers \ {w} : req'[v] = req[v]
  BY DEF Check, CheckCurrency, BeginCurrency, TypeOK
<1>3. CASE Check(w)
  <2> DEFINE c == req[w]
  <2>1. c \in ExpenseRequest /\ c # Idle
    BY <1>3, RequestType DEF Check
  <2>2. BeforeState(c) \in State
    BY <2>1, SerializedType DEF BeforeState, ExpenseRequest
  <2>3. req'[w] = Idle \/ req'[w] = [c EXCEPT !.step = "checked", !.before = BeforeState(c)]
    BY <1>3 DEF Check, TypeOK
  <2>4. /\ req'[w] \in ExpenseRequest \cup {Idle}
        /\ req'[w] = Idle \/ (req'[w].op = c.op /\ req'[w].e = c.e /\ req'[w].row = c.row)
    BY <2>1, <2>2, <2>3 DEF ExpenseRequest
  <2>5. req' \in [Workers -> ExpenseRequest \cup CurrencyRequest \cup {Idle}]
    BY <1>2, <1>3, <2>4 DEF TypeOK, Check
  <2>6. TypeOK'
    BY <1>1, <1>3, <2>5 DEF TypeOK, Check
  <2>7. TargetsExist'
    BY <1>1, <1>2, <2>1, <2>4, TargetsKept
  <2>8. QED
    BY <1>1, <2>6, <2>7 DEF SplitsMatchAmount
<1>4. CASE CheckCurrency(w)
  <2> DEFINE c == req[w]
  <2>1. c \in CurrencyRequest
    BY <1>4 DEF CheckCurrency, TypeOK, ExpenseRequest
  <2>2. req'[w] = Idle \/ (req'[w] \in CurrencyRequest /\ req'[w].op = "currency")
    BY <1>4, <2>1 DEF CheckCurrency, TypeOK, CurrencyRequest
  <2>3. req' \in [Workers -> ExpenseRequest \cup CurrencyRequest \cup {Idle}]
    BY <1>2, <1>4, <2>2 DEF TypeOK, CheckCurrency
  <2>4. TypeOK'
    BY <1>1, <1>4, <2>3 DEF TypeOK, CheckCurrency
  <2>5. TargetsExist'
    BY <1>1, <1>2, <2>2, TargetsKept
  <2>6. QED
    BY <1>1, <2>4, <2>5 DEF SplitsMatchAmount
<1>5. CASE BeginCurrency(w)
  <2>1. req'[w] \in CurrencyRequest /\ req'[w].op = "currency"
    BY <1>5 DEF BeginCurrency, TypeOK, CurrencyRequest
  <2>2. req' \in [Workers -> ExpenseRequest \cup CurrencyRequest \cup {Idle}]
    BY <1>2, <1>5, <2>1 DEF TypeOK, BeginCurrency
  <2>3. TypeOK'
    BY <1>1, <1>5, <2>2 DEF TypeOK, BeginCurrency
  <2>4. TargetsExist'
    BY <1>1, <1>2, <2>1, TargetsKept
  <2>5. QED
    BY <1>1, <2>3, <2>4 DEF SplitsMatchAmount
<1>6. QED
  BY <1>3, <1>4, <1>5

-------------------------------------------------------------------------------
(* The writes.                                                               *)

\* What every write of an expense does to the variables it shares with others.
LEMMA WriteFrame ==
    ASSUME Inv, NEW w \in Workers, NEW row \in Row,
           req[w] # Idle, req[w].op # "currency",
           expense' = [expense EXCEPT ![req[w].e] = row],
           splits' = [splits EXCEPT ![req[w].e] = NewSplits(req[w])] \/ splits' = splits,
           Log(req[w], NewSplits(req[w])) \/ Log(req[w], splits[req[w].e]),
           req' = [req EXCEPT ![w] = Idle],
           UNCHANGED <<members, currency, begun, restores>>
    PROVE  TypeOK'
<1> USE DEF Inv
<1> DEFINE c == req[w]
<1>1. c \in ExpenseRequest
  BY RequestType
<1>2. c.e \in ExpenseIds /\ c.n \in Nat /\ c.before \in State /\ c.row \in Row
  BY <1>1 DEF ExpenseRequest
<1>3. NewSplits(c) \subseteq Batch
  BY <1>1, BatchType
<1>4. splits[c.e] \subseteq Batch
  BY <1>2 DEF TypeOK
<1>5. PICK live \in SUBSET Batch : Log(c, live)
  BY <1>3, <1>4
<1>6. audit' \in [ExpenseIds -> Entry \cup {None}]
  <2>1. [row |-> c.row, splits |-> live] \in State
    BY <1>2, <1>5 DEF State
  <2> DEFINE after == IF c.op = "delete" THEN None ELSE [row |-> c.row, splits |-> live]
             entry == [n |-> c.n, before |-> c.before, after |-> after]
  <2>2. entry \in Entry
    BY <1>2, <2>1 DEF Entry
  <2>3. audit' = [audit EXCEPT ![c.e] = entry]
    BY <1>5 DEF Log
  <2> HIDE DEF entry
  <2>4. QED
    BY <2>2, <2>3 DEF TypeOK
<1>7. splits' \in [ExpenseIds -> SUBSET Batch]
  BY <1>3 DEF TypeOK
<1>8. QED
  BY <1>6, <1>7 DEF TypeOK

LEMMA CreateStep ==
    ASSUME Inv, NEW w \in Workers, Create(w)
    PROVE  Inv'
<1> USE DEF Inv
<1> DEFINE c == req[w]
<1>1. c \in ExpenseRequest /\ c # Idle /\ c.op = "create"
  BY RequestType DEF Create, At
<1>2. c.e \in ExpenseIds /\ c.row \in Row
  BY <1>1 DEF ExpenseRequest
<1>3. TypeOK'
  BY <1>1, <1>2, WriteFrame DEF Create
<1>4. expense'[c.e] # None /\ \A e \in ExpenseIds \ {c.e} : expense'[e] = expense[e]
  BY <1>2, NoneIsNoRow DEF Create, TypeOK
<1>5. \A v \in Workers \ {w} : req'[v] = req[v]
  BY DEF Create, TypeOK
<1>6. req'[w] = Idle
  BY DEF Create, TypeOK
<1>7. TargetsExist'
  <2> SUFFICES ASSUME NEW v \in Workers, req'[v] # Idle, req'[v].op # "currency"
               PROVE  IF req'[v].op # "create" THEN expense'[req'[v].e] # None
                      ELSE /\ expense'[req'[v].e] = None /\ ~req'[v].row.deleted
                           /\ \A u \in Workers \ {v} :
                                  req'[u] # Idle /\ req'[u].op # "currency"
                                     => req'[u].e # req'[v].e
    BY DEF TargetsExist
  <2>1. v # w /\ req'[v] = req[v]
    BY <1>5, <1>6
  <2>2. req[v].e \in ExpenseIds
    BY <2>1, RequestType DEF ExpenseRequest
  <2>3. req[v].e # c.e
    BY <1>1, <2>1 DEF TargetsExist
  <2>4. QED
    BY <1>4, <1>5, <1>6, <2>1, <2>2, <2>3 DEF TargetsExist
<1>8. SplitsMatchAmount'
  <2> SUFFICES ASSUME NEW e \in ExpenseIds, expense'[e] # None
               PROVE  \E b \in splits'[e] :
                          splits'[e] = {b} /\ b.total = expense'[e].amount
    BY DEF SplitsMatchAmount
  <2>1. CASE e = c.e
    BY <1>2, <2>1 DEF Create, NewSplits, TypeOK
  <2>2. CASE e # c.e
    BY <1>4, <2>2 DEF Create, TypeOK, SplitsMatchAmount
  <2>3. QED
    BY <2>1, <2>2
<1>9. QED
  BY <1>3, <1>7, <1>8

LEMMA UpdateStep ==
    ASSUME Inv, NEW w \in Workers, Update(w)
    PROVE  Inv'
<1> USE DEF Inv
<1> DEFINE c == req[w]
<1>1. c \in ExpenseRequest /\ c # Idle /\ c.op = "update"
  BY RequestType DEF Update, At
<1>2. c.e \in ExpenseIds /\ expense[c.e] # None
  BY <1>1 DEF ExpenseRequest, TargetsExist
<1>3. Saved(c) \in Row /\ Saved(c).amount = c.row.amount
  BY <1>1, <1>2, SavedType
<1>4. TypeOK'
  BY <1>1, <1>3, WriteFrame DEF Update
<1>5. \A e \in ExpenseIds : expense'[e] = None <=> expense[e] = None
  BY <1>2, <1>3, NoneIsNoRow DEF Update, TypeOK
<1>6. TargetsExist'
  BY <1>5, TargetsKept DEF Update, TypeOK
<1>7. SplitsMatchAmount'
  <2> SUFFICES ASSUME NEW e \in ExpenseIds, expense'[e] # None
               PROVE  \E b \in splits'[e] :
                          splits'[e] = {b} /\ b.total = expense'[e].amount
    BY DEF SplitsMatchAmount
  <2>1. CASE e = c.e
    BY <1>2, <1>3, <2>1 DEF Update, NewSplits, TypeOK
  <2>2. CASE e # c.e
    BY <2>2 DEF Update, TypeOK, SplitsMatchAmount
  <2>3. QED
    BY <2>1, <2>2
<1>8. QED
  BY <1>4, <1>6, <1>7

\* The writes that leave the amount and the splits alone.
LEMMA OtherWriteStep ==
    ASSUME Inv, NEW w \in Workers, UpdateText(w) \/ Delete(w) \/ Restore(w)
    PROVE  Inv'
<1> USE DEF Inv
<1> DEFINE c == req[w]
<1>1. c \in ExpenseRequest /\ c # Idle /\ c.op \in {"text", "delete", "restore"}
  BY RequestType DEF UpdateText, Delete, Restore, At
<1>2. c.e \in ExpenseIds /\ expense[c.e] # None /\ c.row \in Row
  BY <1>1 DEF ExpenseRequest, TargetsExist
<1>3. PICK row : /\ expense' = [expense EXCEPT ![c.e] = row]
                 /\ row \in Row /\ row.amount = expense[c.e].amount
  <2>1. expense[c.e] \in Row
    BY <1>2 DEF TypeOK
  <2>2. CASE UpdateText(w)
    <3> DEFINE r == [expense[c.e] EXCEPT !.text = c.row.text]
    <3>1. r \in Row /\ r.amount = expense[c.e].amount
      BY <1>2, <2>1 DEF Row
    <3>2. expense' = [expense EXCEPT ![c.e] = r]
      BY <2>2 DEF UpdateText
    <3>3. QED
      BY <3>1, <3>2
  <2>3. CASE Delete(w)
    <3> DEFINE r == [expense[c.e] EXCEPT !.deleted = TRUE]
    <3>1. r \in Row /\ r.amount = expense[c.e].amount
      BY <2>1 DEF Row
    <3>2. expense' = [expense EXCEPT ![c.e] = r]
      BY <2>3 DEF Delete
    <3>3. QED
      BY <3>1, <3>2
  <2>4. CASE Restore(w)
    <3> DEFINE r == [expense[c.e] EXCEPT !.deleted = FALSE]
    <3>1. r \in Row /\ r.amount = expense[c.e].amount
      BY <2>1 DEF Row
    <3>2. expense' = [expense EXCEPT ![c.e] = r]
      BY <2>4 DEF Restore
    <3>3. QED
      BY <3>1, <3>2
  <2>5. QED
    BY <2>2, <2>3, <2>4
<1>4. TypeOK'
  BY <1>1, <1>3, WriteFrame DEF UpdateText, Delete, Restore
<1>5. \A e \in ExpenseIds : expense'[e] = None <=> expense[e] = None
  BY <1>2, <1>3, NoneIsNoRow DEF TypeOK
<1>6. TargetsExist'
  BY <1>5, TargetsKept DEF UpdateText, Delete, Restore, TypeOK
<1>7. SplitsMatchAmount'
  BY <1>2, <1>3 DEF UpdateText, Delete, Restore, TypeOK, SplitsMatchAmount
<1>8. QED
  BY <1>4, <1>6, <1>7

LEMMA InvStep == Inv /\ [Next]_vars => Inv'
<1> SUFFICES ASSUME Inv, [Next]_vars
             PROVE  Inv'
  OBVIOUS
<1>1. CASE UNCHANGED vars
  BY <1>1 DEF vars, Inv, TypeOK, TargetsExist, SplitsMatchAmount
<1>2. ASSUME NEW w \in Workers, ChangeCurrency(w)
      PROVE  Inv'
  <2>1. req[w] \in CurrencyRequest
    BY <1>2 DEF ChangeCurrency, At, Inv, TypeOK, ExpenseRequest
  <2>2. TypeOK'
    BY <1>2, <2>1 DEF ChangeCurrency, Inv, TypeOK, CurrencyRequest
  <2>3. TargetsExist'
    BY <1>2, TargetsKept DEF ChangeCurrency, Inv, TypeOK
  <2>4. QED
    BY <1>2, <2>2, <2>3 DEF ChangeCurrency, Inv, SplitsMatchAmount
<1>3. ASSUME NEW w \in Workers, NEW u \in Users, MemberMoves(w, u)
      PROVE  Inv'
  BY <1>3 DEF MemberMoves, Inv, TypeOK, TargetsExist, SplitsMatchAmount
<1>4. QED
  BY <1>1, <1>2, <1>3, BeginStep, CheckStep, CreateStep, UpdateStep, OtherWriteStep
     DEF Next, Serve

LEMMA InvHolds == Spec => []Inv
<1>1. QED
  BY InitIsFine, InvStep, PTL DEF Spec

\* Every state of the expense service is well formed, whatever the users,
\* workers and bounds (the rows of apps/expenses and the requests on them).
THEOREM TypeCorrect == Spec => []TypeOK
<1>1. Inv => TypeOK
  BY DEF Inv
<1>2. QED
  BY <1>1, InvHolds, PTL

\* However the updates of an expense overlap, one batch of live splits remains,
\* and it adds up to the amount (full_update saves the amount and locks the row
\* before _replace_splits).
THEOREM SplitsAlwaysMatch == Spec => []SplitsMatchAmount
<1>1. Inv => SplitsMatchAmount
  BY DEF Inv
<1>2. QED
  BY <1>1, InvHolds, PTL

\* A deleted expense comes back by a restore only, however late an update of it
\* is written (the update_fields of full_update and partial_update).
THEOREM DeletionsHold == Spec => DeletedStaysDeleted
<1> DEFINE Comeback ==
        \A e \in ExpenseIds :
            (expense[e] # None /\ expense[e].deleted /\ ~expense'[e].deleted)
               => \E w \in Workers :
                      req[w] # Idle /\ req[w].op = "restore" /\ req'[w] = Idle
<1>1. ASSUME Inv, [Next]_vars
      PROVE  [Comeback]_vars
  <2> USE <1>1 DEF Inv
  <2> SUFFICES ASSUME NEW e \in ExpenseIds, expense[e] # None,
                      expense[e].deleted, ~expense'[e].deleted
               PROVE  \E w \in Workers :
                          req[w] # Idle /\ req[w].op = "restore" /\ req'[w] = Idle
    OBVIOUS
  <2>1. expense'[e] # expense[e]
    OBVIOUS
  <2>2. PICK w \in Workers :
            Create(w) \/ Update(w) \/ UpdateText(w) \/ Delete(w) \/ Restore(w)
    BY <1>1, <2>1 DEF Next, Serve, vars, Begin, BeginCurrency, Check, CheckCurrency,
                      ChangeCurrency, MemberMoves
  <2> DEFINE c == req[w]
  <2>3. c \in ExpenseRequest
    BY <2>2, RequestType DEF Create, Update, UpdateText, Delete, Restore, At
  <2>4. c.e \in ExpenseIds
    BY <2>3 DEF ExpenseRequest
  <2>5. e = c.e
    BY <2>1, <2>2, <2>4 DEF Create, Update, UpdateText, Delete, Restore, TypeOK
  <2>6. ~Create(w)
    BY <2>5 DEF Create, At, TargetsExist
  <2>7. ~Update(w)
    <3>1. ASSUME Update(w)
          PROVE  Saved(c).deleted = expense[e].deleted
      BY <2>3, <2>5, SavedType
    <3>2. QED
      BY <2>4, <2>5, <3>1 DEF Update, TypeOK
  <2>8. expense[e] \in Row
    BY DEF TypeOK
  <2>9. ~UpdateText(w)
    <3>1. UpdateText(w) => expense'[e] = [expense[e] EXCEPT !.text = c.row.text]
      BY <2>5 DEF UpdateText, TypeOK
    <3>2. QED
      BY <2>8, <3>1 DEF Row
  <2>10. ~Delete(w)
    <3>1. Delete(w) => expense'[e] = [expense[e] EXCEPT !.deleted = TRUE]
      BY <2>5 DEF Delete, TypeOK
    <3>2. QED
      BY <2>8, <3>1 DEF Row
  <2>11. QED
    BY <2>2, <2>6, <2>7, <2>9, <2>10 DEF Restore, At, TypeOK
<1>2. QED
  BY <1>1, InvHolds, PTL DEF Spec, DeletedStaysDeleted

-------------------------------------------------------------------------------
(***************************************************************************)
(* With a crew of one, nobody writes between the load and the write of a   *)
(* request: what was loaded and checked is still so.                       *)
(***************************************************************************)
Fits(c) ==
    /\ c.op = "create" => c.copy = None /\ c.row.currency = currency
    /\ c.op = "update" => c.row = Edited(c.copy, c.row.method, c.row.amount, c.row.text)
    /\ c.op = "text" => c.row = [c.copy EXCEPT !.text = c.row.text]
    /\ c.op = "delete" => c.row = [c.copy EXCEPT !.deleted = TRUE]
    /\ c.op = "restore" => c.row = [c.copy EXCEPT !.deleted = FALSE] /\ restores >= 1

Validated(c) ==
    /\ c.op \in {"create", "update"} => c.people \cup {c.row.creator} \subseteq members
    /\ c.before = Serialized(c.copy, c.e)

StillCurrent(w) ==
    IF req[w].op = "currency" THEN req[w].step = "checked" => CurrencyAllowed
    ELSE /\ req[w].copy = expense[req[w].e] /\ Fits(req[w])
         /\ req[w].step = "checked" => Validated(req[w])

TurnFacts ==
    /\ \A e \in ExpenseIds : expense[e] = None => splits[e] = {}
    /\ MethodMatchesSplits
    /\ restores = 0 => CurrencyAgrees
    /\ \A w \in Workers : req[w] # Idle => StillCurrent(w)

TurnInv ==
    /\ Inv /\ crew \subseteq Workers
    /\ \A v \in Workers \ crew : req[v] = Idle
    /\ InTurn => TurnFacts

\* A request begins with what there is.
LEMMA TurnBegin ==
    ASSUME Inv, TurnFacts, NEW w \in Workers, \A v \in Workers \ {w} : req[v] = Idle,
           NEW op \in {"create", "update", "text", "delete", "restore"}, Begin(w, op)
    PROVE  TurnFacts'
<1>1. PICK e \in ExpenseIds :
          /\ CASE op = "create"  -> TRUE
               [] op = "restore" -> expense[e] # None /\ expense[e].deleted
               [] OTHER          -> Live(e)
          /\ \E row \in Objects(op, e), people \in SUBSET Users :
                /\ op \in {"create", "update"} <=> people # {}
                /\ req' = [req EXCEPT ![w] =
                      [step |-> "loaded", op |-> op, n |-> begun + 1, e |-> e,
                       copy |-> expense[e], row |-> row, people |-> people,
                       before |-> Serialized(None, e)]]
  BY DEF Begin
<1>2. PICK row \in Objects(op, e), people \in SUBSET Users :
          req' = [req EXCEPT ![w] =
                [step |-> "loaded", op |-> op, n |-> begun + 1, e |-> e,
                 copy |-> expense[e], row |-> row, people |-> people,
                 before |-> Serialized(None, e)]]
  BY <1>1
<1>3. op # "create" => expense[e] \in Row
  BY <1>1 DEF Live, Inv, TypeOK
<1>4. /\ row \in Row /\ (op = "create" => ~InUse(e))
      /\ restores \in Nat /\ restores' = restores + (IF op = "restore" THEN 1 ELSE 0)
      /\ UNCHANGED <<expense, splits, audit, members, currency>>
  BY <1>3, ObjectType, NoneIsNoRow DEF Begin, Inv, TypeOK
<1> DEFINE c == [step |-> "loaded", op |-> op, n |-> begun + 1, e |-> e,
                 copy |-> expense[e], row |-> row, people |-> people,
                 before |-> Serialized(None, e)]
<1>5. req'[w] = c /\ \A v \in Workers \ {w} : req'[v] = Idle
  BY <1>2 DEF Inv, TypeOK
<1>6. c.op = op /\ c.e = e /\ c.copy = expense[e] /\ c.row = row /\ c.step = "loaded"
  OBVIOUS
<1> HIDE DEF c
<1>7. /\ op = "create" => expense[e] = None /\ row.currency = currency
      /\ op = "update" => row = Edited(expense[e], row.method, row.amount, row.text)
      /\ op = "text" => row = [expense[e] EXCEPT !.text = row.text]
      /\ op = "delete" => row = [expense[e] EXCEPT !.deleted = TRUE]
      /\ op = "restore" => row = [expense[e] EXCEPT !.deleted = FALSE]
  <2>1. CASE op = "create"
    <3>1. row \in Created(e) /\ ~InUse(e)
      BY <1>4, <2>1 DEF Objects
    <3>2. QED
      BY <2>1, <3>1 DEF Created, InUse
  <2>2. CASE op = "update"
    <3>1. PICK m \in Methods, a \in Amounts, t \in Texts : row = Edited(expense[e], m, a, t)
      BY <2>2 DEF Objects, Updated
    <3>2. QED
      BY <1>3, <2>2, <3>1 DEF Edited, Row
  <2>3. CASE op = "text"
    <3>1. row \in Retitled(e)
      BY <2>3 DEF Objects
    <3>2. PICK t \in Texts : row = [expense[e] EXCEPT !.text = t]
      BY <3>1, Zenon DEF Retitled
    <3>3. QED
      BY <1>3, <2>3, <3>2 DEF Row
  <2>4. CASE op = "delete"
    BY <2>4 DEF Objects, Flagged
  <2>5. CASE op = "restore"
    BY <2>5 DEF Objects, Flagged
  <2>6. QED
    BY <2>1, <2>2, <2>3, <2>4, <2>5
<1>8. StillCurrent(w)'
  BY <1>4, <1>5, <1>6, <1>7 DEF StillCurrent, Fits
<1>9. QED
  BY <1>4, <1>5, <1>8 DEF TurnFacts, MethodMatchesSplits, CurrencyAgrees, Live

\* It is checked with what there is; or the members move, between requests.
LEMMA TurnCheck ==
    ASSUME Inv, TurnFacts, NEW w \in Workers, \A v \in Workers \ {w} : req[v] = Idle,
           \/ BeginCurrency(w) \/ Check(w) \/ CheckCurrency(w)
           \/ \E u \in Users : MemberMoves(w, u)
    PROVE  TurnFacts'
<1>1. /\ UNCHANGED <<expense, splits, currency, restores>>
      /\ \A v \in Workers \ {w} : req'[v] = Idle
  BY DEF BeginCurrency, Check, CheckCurrency, MemberMoves, Inv, TypeOK
<1>2. ASSUME req'[w] # Idle
      PROVE  StillCurrent(w)'
  <2>1. CASE BeginCurrency(w)
    BY <2>1 DEF BeginCurrency, Inv, TypeOK, StillCurrent
  <2>2. CASE CheckCurrency(w)
    <3>1. /\ CurrencyAllowed /\ req'[w] = [req[w] EXCEPT !.step = "checked"]
          /\ req[w].op = "currency" /\ req[w] \in CurrencyRequest
      BY <1>2, <2>2 DEF CheckCurrency, Inv, TypeOK, ExpenseRequest
    <3>2. req'[w].op = "currency"
      BY <3>1 DEF CurrencyRequest
    <3>3. CurrencyAllowed'
      BY <1>1, <3>1 DEF CurrencyAllowed, Live
    <3>4. QED
      BY <3>2, <3>3 DEF StillCurrent
  <2>3. CASE Check(w)
    <3>1. /\ Allowed(req[w]) /\ req[w] # Idle /\ req[w].op # "currency"
          /\ req'[w] = [req[w] EXCEPT !.step = "checked", !.before = BeforeState(req[w])]
          /\ UNCHANGED members
      BY <1>2, <2>3 DEF Check, Inv, TypeOK
    <3>2. req[w] \in ExpenseRequest /\ StillCurrent(w)
      BY <3>1, RequestType DEF Inv, TurnFacts
    <3>3. /\ req'[w].op = req[w].op /\ req'[w].e = req[w].e /\ req'[w].copy = req[w].copy
          /\ req'[w].row = req[w].row /\ req'[w].people = req[w].people
          /\ req'[w].before = Serialized(req[w].copy, req[w].e)
      BY <3>1, <3>2 DEF ExpenseRequest, BeforeState
    <3>4. Fits(req[w])' 
      BY <1>1, <3>1, <3>2, <3>3 DEF StillCurrent, Fits
    <3>5. Validated(req[w])'
      BY <1>1, <3>1, <3>3 DEF Validated, Allowed, ParticipantsAllowed, Serialized
    <3>6. QED
      BY <1>1, <3>1, <3>2, <3>3, <3>4, <3>5 DEF StillCurrent
  <2>4. CASE \E u \in Users : MemberMoves(w, u)
    BY <1>2, <2>4 DEF MemberMoves
  <2>5. QED
    BY <2>1, <2>2, <2>3, <2>4
<1>3. QED
  BY <1>1, <1>2 DEF TurnFacts, MethodMatchesSplits, CurrencyAgrees, Live

\* What a lone update saves is the object it has in memory.
LEMMA SavedInTurn ==
    ASSUME NEW c \in ExpenseRequest, expense[c.e] \in Row, c.copy = expense[c.e],
           c.row = Edited(c.copy, c.row.method, c.row.amount, c.row.text)
    PROVE  Saved(c) = c.row
BY DEF Saved, Edited, Row

LEMMA EditedKeeps ==
    ASSUME NEW r \in Row, NEW m, NEW a, NEW t
    PROVE  /\ Edited(r, m, a, t).deleted = r.deleted
           /\ Edited(r, m, a, t).currency = r.currency
BY DEF Edited, Row

\* What a write leaves of an expense.
LEMMA TurnWrite ==
    ASSUME Inv, TurnFacts, NEW w \in Workers,
           Create(w) \/ Update(w) \/ UpdateText(w) \/ Delete(w) \/ Restore(w)
    PROVE  /\ req[w] \in ExpenseRequest /\ req[w].e \in ExpenseIds /\ req[w] # Idle
           /\ req' = [req EXCEPT ![w] = Idle] /\ UNCHANGED <<members, currency, begun, restores>>
           /\ Validated(req[w]) /\ req[w].copy = expense[req[w].e] /\ req[w].row \in Row
           /\ expense' = [expense EXCEPT ![req[w].e] = req[w].row]
           /\ splits' = [splits EXCEPT ![req[w].e] =
                            IF req[w].op \in {"create", "update"} THEN NewSplits(req[w])
                            ELSE splits[req[w].e]]
           /\ Log(req[w], splits'[req[w].e])
           /\ req[w].op \in {"create", "update"} <=> (Create(w) \/ Update(w))
           /\ req[w].op = "delete" => req[w].row.deleted
           /\ req[w].op \notin {"create", "update"} => req[w].row.method = expense[req[w].e].method
           /\ restores = 0 /\ ~req[w].row.deleted => req[w].row.currency = currency
<1> DEFINE c == req[w]
           e == c.e
<1>1. /\ c # Idle /\ c.step = "checked" /\ c.op # "currency" /\ c \in ExpenseRequest
      /\ c.op \in {"create", "update", "text", "delete", "restore"} /\ e \in ExpenseIds
      /\ c.row \in Row
  BY RequestType DEF Create, Update, UpdateText, Delete, Restore, At, Inv, ExpenseRequest
<1>2. c.copy = expense[e] /\ Fits(c) /\ Validated(c)
  BY <1>1 DEF TurnFacts, StillCurrent
<1>3. /\ expense \in [ExpenseIds -> Row \cup {None}] /\ splits \in [ExpenseIds -> SUBSET Batch]
      /\ restores \in Nat
  BY DEF Inv, TypeOK
<1>4. c.op # "create" => expense[e] \in Row
  BY <1>1, <1>3 DEF Inv, TargetsExist
<1>5. /\ Create(w) => c.op = "create"
      /\ Update(w) => c.op = "update"
      /\ UpdateText(w) => c.op = "text"
      /\ Delete(w) => c.op = "delete"
      /\ Restore(w) => c.op = "restore"
  BY DEF Create, Update, UpdateText, Delete, Restore, At
<1>6. expense' = [expense EXCEPT ![e] = c.row]
  <2>1. CASE Create(w)
    BY <2>1 DEF Create
  <2>2. CASE Update(w)
    BY <1>1, <1>2, <1>4, <1>5, <2>2, SavedInTurn DEF Update, Fits
  <2>3. CASE UpdateText(w)
    BY <1>1, <1>2, <1>3, <1>5, <2>3 DEF UpdateText, Fits
  <2>4. CASE Delete(w)
    BY <1>1, <1>2, <1>3, <1>5, <2>4 DEF Delete, Fits
  <2>5. CASE Restore(w)
    BY <1>1, <1>2, <1>3, <1>5, <2>5 DEF Restore, Fits
  <2>6. QED
    BY <2>1, <2>2, <2>3, <2>4, <2>5
<1>7. /\ splits' = [splits EXCEPT ![e] = IF c.op \in {"create", "update"} THEN NewSplits(c)
                                         ELSE splits[e]]
      /\ Log(c, splits'[e])
  <2>1. CASE Create(w) \/ Update(w)
    BY <1>1, <1>3, <1>5, <2>1 DEF Create, Update
  <2>2. CASE UpdateText(w) \/ Delete(w) \/ Restore(w)
    BY <1>1, <1>3, <1>5, <2>2 DEF UpdateText, Delete, Restore
  <2>3. QED
    BY <2>1, <2>2
<1>8. /\ c.op \in {"create", "update"} <=> (Create(w) \/ Update(w))
      /\ req' = [req EXCEPT ![w] = Idle] /\ UNCHANGED <<members, currency, begun, restores>>
  BY <1>5 DEF Create, Update, UpdateText, Delete, Restore
<1>9. /\ c.op = "delete" => c.row.deleted
      /\ c.op \notin {"create", "update"} => c.row.method = expense[e].method
  BY <1>1, <1>2, <1>4 DEF Fits, Row
<1>10. restores = 0 /\ ~c.row.deleted => c.row.currency = currency
  <2> SUFFICES ASSUME restores = 0, ~c.row.deleted
               PROVE  c.row.currency = currency
    OBVIOUS
  <2>1. c.op # "restore"
    BY <1>2 DEF Fits
  <2>2. CASE c.op = "create"
    BY <1>2, <2>2 DEF Fits
  <2>3. CASE c.op \in {"update", "text"}
    <3>1. expense[e] \in Row
      BY <1>4, <2>3
    <3>2. /\ c.row.deleted = expense[e].deleted
          /\ c.row.currency = expense[e].currency
      <4>1. CASE c.op = "update"
        <5>1. c.row = Edited(expense[e], c.row.method, c.row.amount, c.row.text)
          BY <1>2, <4>1 DEF Fits
        <5>2. QED
          BY <3>1, <5>1, EditedKeeps
      <4>2. CASE c.op = "text"
        <5>1. c.row = [expense[e] EXCEPT !.text = c.row.text]
          BY <1>2, <4>2 DEF Fits
        <5>2. QED
          BY <3>1, <5>1 DEF Row
      <4>3. QED
        BY <2>3, <4>1, <4>2
    <3>3. Live(e)
      BY <3>1, <3>2, NoneIsNoRow DEF Live
    <3>4. QED
      BY <1>1, <3>2, <3>3 DEF TurnFacts, CurrencyAgrees
  <2>4. CASE c.op = "delete"
    BY <1>9, <2>4
  <2>5. QED
    BY <1>1, <2>1, <2>2, <2>3, <2>4
<1>11. QED
  BY <1>1, <1>2, <1>6, <1>7, <1>8, <1>9, <1>10

\* Any write of a lone worker leaves an expense as its splits and the group say.
LEMMA TurnWritten ==
    ASSUME Inv, TurnFacts, NEW w \in Workers, \A v \in Workers \ {w} : req[v] = Idle,
           Create(w) \/ Update(w) \/ UpdateText(w) \/ Delete(w) \/ Restore(w)
    PROVE  TurnFacts'
<1> DEFINE c == req[w]
           e == c.e
<1>1. /\ c \in ExpenseRequest /\ e \in ExpenseIds
      /\ req' = [req EXCEPT ![w] = Idle] /\ UNCHANGED <<members, currency, begun, restores>>
      /\ c.row \in Row /\ expense' = [expense EXCEPT ![e] = c.row]
      /\ splits' = [splits EXCEPT ![e] = IF c.op \in {"create", "update"} THEN NewSplits(c)
                                         ELSE splits[e]]
      /\ c.op \notin {"create", "update"} => c.row.method = expense[e].method
      /\ restores = 0 /\ ~c.row.deleted => c.row.currency = currency
  BY TurnWrite
<1>2. /\ expense \in [ExpenseIds -> Row \cup {None}] /\ splits \in [ExpenseIds -> SUBSET Batch]
      /\ req \in [Workers -> ExpenseRequest \cup CurrencyRequest \cup {Idle}]
  BY DEF Inv, TypeOK
<1> HIDE DEF c, e
<1>3. /\ expense'[e] = c.row
      /\ splits'[e] = IF c.op \in {"create", "update"} THEN NewSplits(c) ELSE splits[e]
      /\ \A d \in ExpenseIds \ {e} : expense'[d] = expense[d] /\ splits'[d] = splits[d]
      /\ \A v \in Workers : req'[v] = Idle
  BY <1>1, <1>2
<1>4. \A d \in ExpenseIds : expense'[d] = None => splits'[d] = {}
  BY <1>1, <1>3, NoneIsNoRow DEF TurnFacts
<1>5. MethodMatchesSplits'
  <2> SUFFICES ASSUME NEW d \in ExpenseIds, NEW b \in splits'[d]
               PROVE  b.method = expense'[d].method
    BY DEF MethodMatchesSplits
  <2>1. CASE d # e
    BY <1>3, <2>1 DEF TurnFacts, MethodMatchesSplits
  <2>2. CASE d = e /\ c.op \in {"create", "update"}
    BY <1>3, <2>2 DEF NewSplits
  <2>3. CASE d = e /\ c.op \notin {"create", "update"}
    BY <1>1, <1>3, <2>3 DEF TurnFacts, MethodMatchesSplits
  <2>4. QED
    BY <2>1, <2>2, <2>3
<1>6. ASSUME restores' = 0
      PROVE  CurrencyAgrees'
  <2> SUFFICES ASSUME NEW d \in ExpenseIds, Live(d)'
               PROVE  expense'[d].currency = currency'
    BY DEF CurrencyAgrees
  <2>1. CASE d = e
    BY <1>1, <1>3, <1>6, <2>1 DEF Live
  <2>2. CASE d # e
    BY <1>1, <1>3, <1>6, <2>2 DEF Live, TurnFacts, CurrencyAgrees
  <2>3. QED
    BY <2>1, <2>2
<1>7. QED
  BY <1>3, <1>4, <1>5, <1>6 DEF TurnFacts

\* The currency changes while no expense counts.
LEMMA TurnCurrency ==
    ASSUME Inv, TurnFacts, NEW w \in Workers, \A v \in Workers \ {w} : req[v] = Idle,
           ChangeCurrency(w)
    PROVE  TurnFacts'
<1>1. /\ UNCHANGED <<expense, splits, restores>> /\ \A v \in Workers : req'[v] = Idle
  BY DEF ChangeCurrency, Inv, TypeOK
<1>2. CurrencyAllowed
  BY DEF ChangeCurrency, At, TurnFacts, StillCurrent
<1>3. QED
  BY <1>1, <1>2 DEF TurnFacts, MethodMatchesSplits, CurrencyAgrees, CurrencyAllowed, Live

\* The idle stay idle, and a crew of one keeps what it knows.
LEMMA TurnStep ==
    ASSUME TurnInv, [CrewNext]_<<vars, crew>>
    PROVE  TurnInv'
<1>1. CASE UNCHANGED <<vars, crew>>
  <2>1. UNCHANGED <<expense, splits, audit, members, currency, req, begun, restores, crew>>
    BY <1>1 DEF vars
  <2>2. Inv'
    BY <2>1, InvStep DEF TurnInv, vars
  <2>3. TurnFacts => TurnFacts'
    BY <2>1 DEF TurnFacts, MethodMatchesSplits, CurrencyAgrees, Live, StillCurrent,
                CurrencyAllowed, Fits, Validated, Serialized
  <2>4. QED
    BY <2>1, <2>2, <2>3 DEF TurnInv, InTurn
<1>2. CASE CrewNext
  <2>1. PICK w \in crew : Serve(w)
    BY <1>2 DEF CrewNext
  <2>2. w \in Workers /\ crew' = crew
    BY <1>2, <2>1 DEF CrewNext, TurnInv
  <2>3. Inv'
    BY <2>1, <2>2, InvStep DEF TurnInv, Next
  <2>4. \A v \in Workers \ {w} : req'[v] = req[v]
    BY <2>1, <2>2 DEF Serve, Begin, BeginCurrency, Check, CheckCurrency, Create, Update,
                      UpdateText, Delete, Restore, ChangeCurrency, MemberMoves, TurnInv,
                      Inv, TypeOK
  <2>5. InTurn => TurnFacts'
    <3> SUFFICES ASSUME InTurn
                 PROVE  TurnFacts'
      OBVIOUS
    <3>1. TurnFacts /\ Inv /\ \A v \in Workers \ {w} : req[v] = Idle
      BY <2>1 DEF InTurn, TurnInv
    <3>2. QED
      BY <2>1, <2>2, <3>1, TurnBegin, TurnCheck, TurnWritten, TurnCurrency DEF Serve
  <2>6. QED
    BY <2>1, <2>2, <2>3, <2>4, <2>5 DEF TurnInv, InTurn
<1>3. QED
  BY <1>1, <1>2

LEMMA TurnInvariant == CrewSpec => []TurnInv
<1>1. CrewInit => TurnInv
  <2> SUFFICES ASSUME CrewInit
               PROVE  TurnInv
    OBVIOUS
  <2>1. Inv
    BY InitIsFine DEF CrewInit
  <2>2. /\ \A e \in ExpenseIds : expense[e] = None /\ splits[e] = {}
        /\ \A w \in Workers : req[w] = Idle
    BY DEF CrewInit, Init
  <2>3. TurnFacts
    BY <2>2 DEF TurnFacts, MethodMatchesSplits, CurrencyAgrees, Live
  <2>4. QED
    BY <2>1, <2>2, <2>3 DEF TurnInv, CrewInit
<1>2. QED
  BY <1>1, TurnStep, PTL DEF CrewSpec

\* In turn, the live splits were computed by the method the expense shows
\* (full_update replaces the splits and saves the method together).
THEOREM MethodsMatch == CrewSpec => []MethodMatchesSplitsInTurn
<1>1. TurnInv => MethodMatchesSplitsInTurn
  BY DEF TurnInv, TurnFacts, MethodMatchesSplitsInTurn
<1>2. QED
  BY <1>1, TurnInvariant, PTL

\* In turn, and until an expense is restored, the expenses that count are in the
\* currency of the group (update_group refuses to change it under an expense).
THEOREM CurrenciesAgree == CrewSpec => []CurrencyAgreesInTurn
<1>1. TurnInv => CurrencyAgreesInTurn
  BY DEF TurnInv, TurnFacts, CurrencyAgreesInTurn
<1>2. QED
  BY <1>1, TurnInvariant, PTL

\* A write is one of the five that move an expense, or writes no audit entry.
LEMMA TurnWriter ==
    ASSUME TurnInv, CrewNext, InTurn
    PROVE  /\ Inv /\ TurnFacts
           /\ \E w \in Workers :
                 /\ \A v \in Workers \ {w} : req[v] = Idle
                 /\ \/ Create(w) \/ Update(w) \/ UpdateText(w) \/ Delete(w) \/ Restore(w)
                    \/ ~At(w, "create") /\ ~At(w, "update") /\ audit' = audit
<1>1. PICK w \in crew : Serve(w)
  BY DEF CrewNext
<1>2. w \in Workers /\ Inv /\ TurnFacts /\ \A v \in Workers \ {w} : req[v] = Idle
  BY <1>1 DEF TurnInv, InTurn
<1>3. \/ Create(w) \/ Update(w) \/ UpdateText(w) \/ Delete(w) \/ Restore(w)
      \/ ~At(w, "create") /\ ~At(w, "update") /\ audit' = audit
  BY <1>1 DEF Serve, Begin, BeginCurrency, Check, CheckCurrency, ChangeCurrency,
              MemberMoves, At
<1>4. QED
  BY <1>2, <1>3

\* In turn, splits are only written for active members of the group, payer and
\* creator included (_validate_group_participants).
THEOREM WrittenForMembersOnly == CrewSpec => ParticipantsAreMembersInTurn
<1>1. ASSUME TurnInv, [CrewNext]_<<vars, crew>>
      PROVE  [InTurn => \A w \in Workers : WrittenForMembers(w)]_<<vars, crew>>
  <2> SUFFICES ASSUME CrewNext, InTurn, NEW w \in Workers,
                      At(w, "create") \/ At(w, "update"), req'[w] = Idle
               PROVE  req[w].people \cup {req[w].row.creator} \subseteq members
    BY <1>1 DEF WrittenForMembers
  <2>1. PICK v \in Workers :
            /\ \A x \in Workers \ {v} : req[x] = Idle
            /\ \/ Create(v) \/ Update(v) \/ UpdateText(v) \/ Delete(v) \/ Restore(v)
               \/ ~At(v, "create") /\ ~At(v, "update") /\ audit' = audit
    BY <1>1, TurnWriter
  <2>2. v = w
    BY <2>1 DEF At
  <2>3. Validated(req[w])
    BY <1>1, <2>1, <2>2, TurnWriter, TurnWrite
  <2>4. QED
    BY <2>3 DEF Validated, At
<1>2. QED
  BY <1>1, TurnInvariant, PTL DEF CrewSpec, ParticipantsAreMembersInTurn

\* In turn, the audit log is a history: each entry starts from what the expense
\* was, and ends in what it is (AuditService.log).
THEOREM AuditIsHistory == CrewSpec => AuditTruthfulInTurn
<1>1. ASSUME TurnInv, [CrewNext]_<<vars, crew>>
      PROVE  [InTurn => \A e \in ExpenseIds : EntryTruthful(e)]_<<vars, crew>>
  <2> SUFFICES ASSUME CrewNext, InTurn, NEW e \in ExpenseIds, audit'[e] # audit[e]
               PROVE  /\ audit'[e].before = Serialized(expense[e], e)
                      /\ IF audit'[e].after = None THEN expense'[e].deleted
                         ELSE audit'[e].after = Serialized(expense[e], e)'
    BY <1>1 DEF EntryTruthful
  <2>1. PICK w \in Workers :
            Create(w) \/ Update(w) \/ UpdateText(w) \/ Delete(w) \/ Restore(w)
    BY <1>1, TurnWriter
  <2> DEFINE c == req[w]
  <2>2. /\ c.e \in ExpenseIds /\ Validated(c) /\ c.copy = expense[c.e]
        /\ expense' = [expense EXCEPT ![c.e] = c.row]
        /\ Log(c, splits'[c.e])
        /\ c.op = "delete" => c.row.deleted
    BY <1>1, <2>1, TurnWriter, TurnWrite
  <2>3. /\ expense \in [ExpenseIds -> Row \cup {None}]
        /\ audit \in [ExpenseIds -> Entry \cup {None}]
    BY <1>1 DEF TurnInv, Inv, TypeOK
  <2> HIDE DEF c
  <2>4. /\ c.e = e /\ expense'[e] = c.row
        /\ audit'[e] = [n |-> c.n, before |-> c.before,
                        after |-> IF c.op = "delete" THEN None
                                  ELSE [row |-> c.row, splits |-> splits'[e]]]
    BY <2>2, <2>3 DEF Log
  <2>5. audit'[e].before = Serialized(expense[e], e)
    BY <2>2, <2>4 DEF Validated
  <2>6. c.op = "delete" => audit'[e].after = None /\ expense'[e].deleted
    BY <2>2, <2>4
  <2>7. c.op # "delete" => /\ audit'[e].after # None
                          /\ audit'[e].after = [row |-> expense'[e], splits |-> splits'[e]]
    BY <2>4 DEF None
  <2>8. QED
    BY <2>5, <2>6, <2>7 DEF Serialized
<1>2. QED
  BY <1>1, TurnInvariant, PTL DEF CrewSpec, AuditTruthfulInTurn
===============================================================================
