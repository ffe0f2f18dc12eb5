----------------------------- MODULE Settlements ------------------------------
(***************************************************************************)
(* apps/transactions: recording, offsetting, confirming and disputing      *)
(* payments between users.  A request is a sequence of steps of one web    *)
(* worker: the checks read the database outside any transaction, the       *)
(* write commits later, and no row is locked in between.                   *)
(*                                                                         *)
(* Amounts are integers (cents) of one currency.  "Personal" is the place  *)
(* of the rows and splits whose group_id is NULL.                          *)
(***************************************************************************)
EXTENDS Integers, FiniteSets, FiniteSetsExt

CONSTANTS
    Users,
    Groups,
    Personal,               \* group_id NULL
    NameRank,               \* the order of str(group_id), which breaks ties
    Workers,                \* web workers serving requests
    MaxAmount,              \* bound: largest amount of a request or a split
    MaxRequests,            \* bound: payment requests started
    MaxEdits,               \* bound: expense changes
    BrokerFails             \* whether enqueuing after a commit may fail

Places == Groups \cup {Personal}
Amounts == 1 .. MaxAmount

ASSUME BoundsAssumption ==
    /\ MaxAmount \in Nat /\ MaxRequests \in Nat /\ MaxEdits \in Nat
    /\ BrokerFails \in BOOLEAN
ASSUME PlaceAssumption == Personal \notin Groups /\ IsFiniteSet(Groups)
ASSUME RankAssumption ==
    /\ NameRank \in [Places -> Int]
    /\ \A g, h \in Places : NameRank[g] = NameRank[h] => g = h

VARIABLES
    split,      \* split[g][u][v]: live splits of u in expenses of g paid by v
    rows,       \* the rows of table transactions (columns that never change)
    confirmed,  \* rows with is_confirmed
    disputed,   \* rows with is_disputed
    audit,      \* AuditLog entries TRANSACTION_DISPUTED
    queued,     \* tasks handed to the broker
    req,        \* what each worker is doing
    begun,      \* requests started; numbers the next one
    edits       \* expense changes so far

db == <<rows, confirmed, disputed, audit, queued>>
vars == <<split, rows, confirmed, disputed, audit, queued, req, begun, edits>>

Row == [call : Nat, place : Places, payer : Users, receiver : Users,
        amount : Nat \ {0}, residual : BOOLEAN]
Task == [kind : {"recorded_mail", "confirmed_mail", "recalculate"},
         row : Row, request : Nat]
AuditEntry == [row : Row, request : Nat]
Debts == [Places -> Int]      \* 0 where nothing is owed
NoDebts == [g \in Places |-> 0]

Idle == [step |-> "idle"]
CreateRequest ==
    [step : {"owed", "checked", "planned"}, op : {"group", "global", "offset"},
     call : Nat, payer : Users, receiver : Users, place : Places,
     amount : Int, cap : Int, plan : Debts]
ResolveRequest == [step : {"confirming", "disputing"}, row : Row, request : Nat]

TypeOK ==
    /\ split \in [Places -> [Users -> [Users -> Nat]]]
    /\ rows \subseteq Row
    /\ confirmed \subseteq rows /\ disputed \subseteq rows
    /\ audit \subseteq AuditEntry
    /\ queued \subseteq Task
    /\ req \in [Workers -> {Idle} \cup CreateRequest \cup ResolveRequest]
    /\ begun \in Nat /\ edits \in Nat

-------------------------------------------------------------------------------
(* What the service reads.                                                   *)

Total(S) == SumFunction([r \in S |-> r.amount])

Between(u, v) == {r \in rows : r.payer = u /\ r.receiver = v}

NonNegative(n) == IF n > 0 THEN n ELSE 0
Smaller(m, n) == IF m < n THEN m ELSE n

\* Disputed rows never count; pending ones do.
Paid(u, v, g) == Total({r \in Between(u, v) \ disputed : r.place = g})

\* _get_debt_breakdown: what u still owes v in g, negative when v owes u.
Owed(u, v, g) ==
    split[g][u][v] - split[g][v][u] - Paid(u, v, g) + Paid(v, u, g)

Breakdown(u, v) == [g \in Places |-> NonNegative(Owed(u, v, g))]

\* BalanceService.get_pairwise_balance, from the debtor's side.
Net(u, v) == SumFunction([g \in Places |-> Owed(u, v, g)])

Pending(u, v, S) ==
    Total({r \in Between(u, v) \ (confirmed \cup disputed) : r.place \in S})

\* The places a waterfall fills before g: larger debts first, names break ties.
Ahead(debts, g) ==
    {h \in Places :
        \/ debts[h] > debts[g]
        \/ debts[h] = debts[g] /\ NameRank[h] > NameRank[g]}

Share(debts, amount, g) ==
    Smaller(debts[g], NonNegative(amount - SumFunctionOnSet(debts, Ahead(debts, g))))

Leftover(debts, amount) == NonNegative(amount - SumFunction(debts))

Without(debts, g) == [debts EXCEPT ![g] = 0]

-------------------------------------------------------------------------------
(* Requests.                                                                 *)

Init ==
    /\ split = [g \in Places |-> [u \in Users |-> [v \in Users |-> 0]]]
    /\ rows = {} /\ confirmed = {} /\ disputed = {} /\ audit = {} /\ queued = {}
    /\ req = [w \in Workers |-> Idle]
    /\ begun = 0 /\ edits = 0

\* A request of ExpenseService changed what u owes v through expenses of g.
EditExpenses(w) ==
    /\ req[w] = Idle /\ edits < MaxEdits
    /\ edits' = edits + 1
    /\ \E g \in Places, u, v \in Users, total \in 0 .. MaxAmount :
           /\ u # v
           /\ split' = [split EXCEPT ![g][u][v] = total]
    /\ UNCHANGED <<rows, confirmed, disputed, audit, queued, req, begun>>

\* Mutant of Cap: a group settlement is capped by the net of all places.
CapAcrossPlaces(op, u, v, g) == NonNegative(Net(u, v))

\* The cap a settlement of u towards v may not exceed.
Cap(op, u, v, g) ==
    NonNegative(IF op = "global" THEN Net(u, v) ELSE Owed(u, v, g))

\* create, create_offset: the debt is read; nothing owed is refused at once.
BeginCreate(w) ==
    /\ req[w] = Idle /\ begun < MaxRequests
    /\ \E op \in {"group", "global", "offset"}, u, v \in Users,
          g \in Places, a \in Amounts :
           /\ u # v
           /\ g = Personal <=> op = "global"
           /\ Cap(op, u, v, g) > 0
           /\ req' = [req EXCEPT ![w] =
                 [step |-> "owed", op |-> op, call |-> begun + 1, payer |-> u,
                  receiver |-> v, place |-> g, amount |-> a,
                  cap |-> Cap(op, u, v, g), plan |-> NoDebts]]
    /\ begun' = begun + 1
    /\ UNCHANGED <<split, edits, db>>

\* The pending payments the request is measured with.
PendingFor(c) ==
    Pending(c.payer, c.receiver, IF c.op = "global" THEN Places ELSE {c.place})

\* What the receiver owes back elsewhere, for an offset.
ReverseDebts(c) ==
    IF c.op = "offset" THEN Without(Breakdown(c.receiver, c.payer), c.place)
                       ELSE NoDebts

OverCap(c) == c.amount + PendingFor(c) > c.cap
NoCredit(c) == c.op = "offset" /\ SumFunction(ReverseDebts(c)) < c.amount

Admit(w) ==
    /\ req[w].step = "owed"
    /\ ~OverCap(req[w]) /\ ~NoCredit(req[w])
    /\ req' = [req EXCEPT ![w].step = "checked",
                          ![w].plan = ReverseDebts(req[w])]
    /\ UNCHANGED <<split, begun, edits, db>>

Refuse(w) ==
    /\ req[w].step = "owed"
    /\ OverCap(req[w]) \/ NoCredit(req[w])
    /\ req' = [req EXCEPT ![w] = Idle]
    /\ UNCHANGED <<split, begun, edits, db>>

\* A global settlement reads the debts again, now inside its transaction.
Plan(w) ==
    /\ req[w].step = "checked" /\ req[w].op = "global"
    /\ req' = [req EXCEPT ![w].step = "planned",
                          ![w].plan = Breakdown(req[w].payer, req[w].receiver)]
    /\ UNCHANGED <<split, begun, edits, db>>

\* _create_waterfall_transactions: u pays v over the planned debts.  Only
\* positive amounts become rows.
Waterfall(c, u, v) ==
    {r \in [call : {c.call}, place : Places, payer : {u}, receiver : {v},
            amount : 1 .. c.amount, residual : BOOLEAN] :
        IF r.residual
        THEN r.place = Personal /\ r.amount = Leftover(c.plan, c.amount)
        ELSE r.amount = Share(c.plan, c.amount, r.place)}

Direct(c) ==
    {[call |-> c.call, place |-> c.place, payer |-> c.payer,
      receiver |-> c.receiver, amount |-> c.amount, residual |-> FALSE]}

\* Mutant of NewRows: the reverse leg runs in the direction of the first.
NewRowsSameDirection(c) ==
    CASE c.op = "group"  -> Direct(c)
      [] c.op = "global" -> Waterfall(c, c.payer, c.receiver)
      [] c.op = "offset" -> Direct(c) \cup Waterfall(c, c.payer, c.receiver)

\* The rows of a call.  An offset whose reverse leg does not fit is rolled back.
NewRows(c) ==
    CASE c.op = "group"  -> Direct(c)
      [] c.op = "global" -> Waterfall(c, c.payer, c.receiver)
      [] c.op = "offset" -> IF Leftover(c.plan, c.amount) > 0 THEN {}
                            ELSE Direct(c) \cup Waterfall(c, c.receiver, c.payer)

Mail(kind, r, n) == [kind |-> kind, row |-> r, request |-> n]

\* The on_commit callbacks run after the commit: an outage cuts them short.
Insert(w) ==
    LET c == req[w] IN
    /\ c.step \in {"checked", "planned"}
    /\ c.step = "planned" <=> c.op = "global"
    /\ rows' = rows \cup NewRows(c)
    /\ \E sent \in SUBSET {Mail("recorded_mail", r, c.call) : r \in NewRows(c)} :
           /\ BrokerFails \/ Cardinality(sent) = Cardinality(NewRows(c))
           /\ queued' = queued \cup sent
    /\ req' = [req EXCEPT ![w] = Idle]
    /\ UNCHANGED <<split, confirmed, disputed, audit, begun, edits>>

\* Mutant of BeginResolve: only is_confirmed is looked at.
BeginResolveDisputed(w) ==
    /\ req[w] = Idle /\ begun < MaxRequests
    /\ \E r \in rows \ confirmed, s \in {"confirming", "disputing"} :
           req' = [req EXCEPT ![w] =
                      [step |-> s, row |-> r, request |-> begun + 1]]
    /\ begun' = begun + 1
    /\ UNCHANGED <<split, edits, db>>

\* The view loads the row; confirm and dispute look only at that copy.
BeginResolve(w) ==
    /\ req[w] = Idle /\ begun < MaxRequests
    /\ \E r \in rows \ (confirmed \cup disputed), s \in {"confirming", "disputing"} :
           req' = [req EXCEPT ![w] =
                      [step |-> s, row |-> r, request |-> begun + 1]]
    /\ begun' = begun + 1
    /\ UNCHANGED <<split, edits, db>>

\* Mutant of Confirm: the mail is queued before the recalculation.
ConfirmMailFirst(w) ==
    LET r == req[w].row IN
    /\ req[w].step = "confirming"
    /\ confirmed' = confirmed \cup {r}
    /\ BrokerFails /\ queued' =
           queued \cup {Mail("confirmed_mail", r, req[w].request)}
    /\ req' = [req EXCEPT ![w] = Idle]
    /\ UNCHANGED <<split, rows, disputed, audit, begun, edits>>

\* save(update_fields=["is_confirmed"]), then recalculation and mail in order.
Confirm(w) ==
    LET r == req[w].row
        recalc == {Mail("recalculate", r, req[w].request) :
                      g \in {r.place} \cap Groups}
        mail == {Mail("confirmed_mail", r, req[w].request)} IN
    /\ req[w].step = "confirming"
    /\ confirmed' = confirmed \cup {r}
    /\ \/ queued' = queued \cup recalc \cup mail
       \/ BrokerFails /\ queued' = queued \cup recalc
       \/ BrokerFails /\ queued' = queued
    /\ req' = [req EXCEPT ![w] = Idle]
    /\ UNCHANGED <<split, rows, disputed, audit, begun, edits>>

\* save(update_fields=["is_disputed"]) and its audit entry, in one transaction.
Dispute(w) ==
    /\ req[w].step = "disputing"
    /\ disputed' = disputed \cup {req[w].row}
    /\ audit' = audit \cup {[row |-> req[w].row, request |-> req[w].request]}
    /\ req' = [req EXCEPT ![w] = Idle]
    /\ UNCHANGED <<split, rows, confirmed, queued, begun, edits>>

Next ==
    \E w \in Workers :
        \/ EditExpenses(w)
        \/ BeginCreate(w) \/ Admit(w) \/ Refuse(w) \/ Plan(w) \/ Insert(w)
        \/ BeginResolve(w) \/ Confirm(w) \/ Dispute(w)

Spec == Init /\ [][Next]_vars

-------------------------------------------------------------------------------
(* Properties.                                                               *)

\* No payment is answered twice: one confirmation or one dispute, never both
\* (the "already confirmed" and "already disputed" checks of confirm, dispute).
ResolvedOnce ==
    \A r \in rows :
        Cardinality({t \in queued : t.kind = "confirmed_mail" /\ t.row = r}
                    \cup {e \in audit : e.row = r}) <= 1

\* A confirmed payment is not disputed as well (dispute's "Cannot dispute a
\* confirmed transaction" and confirm's "Resolve dispute first").
ConfirmedXorDisputed == confirmed \cap disputed = {}

\* Recording a payment never makes the payer pay more in a place than they owe
\* there, the residual personal row included (the caps of create and offset).
NeverOverRecorded ==
    [][\A r \in rows' \ rows : Owed(r.payer, r.receiver, r.place)' >= 0]_vars

\* An offset moves debts between places and leaves the net of the two users as
\* it was: both legs are recorded or none is (create_offset's double entry).
OffsetKeepsNet ==
    [][\A w \in Workers :
          (req[w].step = "checked" /\ req[w].op = "offset" /\ rows' # rows)
             => \A u, v \in Users : u # v => Net(u, v)' = Net(u, v)]_vars

\* A resolved flag is never undone by a concurrent request, and a row is never
\* changed or removed (the update_fields of confirm and dispute).
NothingForgotten ==
    [][/\ rows \subseteq rows'
       /\ confirmed \subseteq confirmed'
       /\ disputed \subseteq disputed']_vars

\* The confirmation mail of a group payment is never queued ahead of the
\* recalculation of that group's ledger, whatever the broker does (confirm).
RecalcBeforeMail ==
    \A t \in queued :
        (t.kind = "confirmed_mail" /\ t.row.place \in Groups)
           => [t EXCEPT !.kind = "recalculate"] \in queued

\* A refusal says the amount exceeds what is owed including pending payments:
\* the splits of that place really owe less than pending plus the new amount.
RefusalIsTruthful ==
    [][\A w \in Workers :
          (/\ req[w].step = "owed" /\ req'[w] = Idle
           /\ req[w].op = "group")
             => LET c == req[w]
                    nominal == Owed(c.payer, c.receiver, c.place) + PendingFor(c)
                IN  c.amount + PendingFor(c) > nominal]_vars

\* Each payment is recorded, then answered at most once.
Lifecycle == INSTANCE PaymentLifecycle WITH
    pending <- rows \ (confirmed \cup disputed)
LifecycleSpec == Lifecycle!Spec
===============================================================================
