-------------------------- MODULE SettlementsProofs ---------------------------
(***************************************************************************)
(* What holds of Settlements for all constants.  Unless two requests       *)
(* answer one payment at the same time, every payment is answered at most  *)
(* once; in any case no answer is lost and mails follow recalculations.    *)
(* What one worker records is owed, place by place, and offsets change no  *)
(* net.                                                                    *)
(***************************************************************************)
EXTENDS Settlements, FiniteSetTheorems, TLAPS

(***************************************************************************)
(* Two requests that answer one payment at the same time each look at a    *)
(* copy without flags, so what confirm and dispute check is not kept.      *)
(* Everything else may overlap: AnswersApart says that no two workers      *)
(* answer the same payment at once, and it is all that is needed.          *)
(***************************************************************************)
Answering(c) == c.step \in {"confirming", "disputing"}

AnswersApart ==
    \A v, w \in Workers :
        v # w /\ Answering(req[v]) /\ Answering(req[w]) => req[v].row # req[w].row

\* The inductive invariant: a row that a worker is about to resolve is unresolved.
Creating(c) ==
    /\ c.step \in {"owed", "checked", "planned"}
    /\ c = [step |-> c.step, op |-> c.op, call |-> c.call, payer |-> c.payer,
            receiver |-> c.receiver, place |-> c.place, amount |-> c.amount,
            cap |-> c.cap, plan |-> c.plan]

Resolving(c) ==
    \E r \in rows \ (confirmed \cup disputed), n \in Nat,
       s \in {"confirming", "disputing"} :
        c = [step |-> s, row |-> r, request |-> n]

HeldUnresolved ==
    /\ req = [w \in Workers |-> req[w]]
    /\ \A w \in Workers : req[w] = Idle \/ Creating(req[w]) \/ Resolving(req[w])

OneAnswerInv ==
    /\ begun \in Nat
    /\ confirmed \subseteq rows /\ disputed \subseteq rows
    /\ ConfirmedXorDisputed
    /\ HeldUnresolved

LEMMA InitOneAnswer == Init => OneAnswerInv
BY BoundsAssumption DEF Init, OneAnswerInv, ConfirmedXorDisputed, HeldUnresolved, Idle

\* The row of a request that answers.
LEMMA HeldRow ==
    ASSUME OneAnswerInv, NEW w \in Workers, Answering(req[w])
    PROVE  /\ req[w].row \in rows \ (confirmed \cup disputed) /\ Resolving(req[w])
BY DEF OneAnswerInv, HeldUnresolved, Answering, Resolving, Creating, Idle

\* What a worker's step does to the requests of the others: nothing, unless it answers
\* the row that they hold.
LEMMA HeldStays ==
    ASSUME OneAnswerInv, NEW w \in Workers, NEW next, req' = [req EXCEPT ![w] = next],
           rows \subseteq rows',
           \A v \in Workers \ {w} :
               Answering(req[v]) => req[v].row \notin confirmed' \cup disputed',
           next = Idle \/ Creating(next) \/ Resolving(next)'
    PROVE  HeldUnresolved'
<1>1. /\ req = [v \in Workers |-> req[v]]
      /\ \A v \in Workers : req[v] = Idle \/ Creating(req[v]) \/ Resolving(req[v])
  BY DEF OneAnswerInv, HeldUnresolved
<1>2. req' = [v \in Workers |-> req'[v]] /\ req'[w] = next
      /\ \A v \in Workers \ {w} : req'[v] = req[v]
  BY <1>1
<1>3. ASSUME NEW v \in Workers \ {w}, Resolving(req[v])
      PROVE  Resolving(req[v])'
  <2>1. PICK r \in rows, n \in Nat, s \in {"confirming", "disputing"} :
          req[v] = [step |-> s, row |-> r, request |-> n]
    BY <1>3 DEF Resolving
  <2>2. Answering(req[v]) /\ req[v].row = r
    BY <2>1 DEF Answering
  <2>3. r \in rows' \ (confirmed' \cup disputed') /\ req'[v] = req[v]
    BY <1>2, <2>2
  <2>4. QED
    BY <2>1, <2>3 DEF Resolving
<1>4. ASSUME NEW v \in Workers
      PROVE  req'[v] = Idle \/ Creating(req[v])' \/ Resolving(req[v])'
  <2>1. CASE v = w
    BY <1>2, <2>1 DEF Resolving, Creating
  <2>2. CASE v # w
    BY <1>1, <1>2, <1>3, <2>2 DEF Creating
  <2>3. QED
    BY <2>1, <2>2
<1>5. QED
  BY <1>2, <1>4 DEF HeldUnresolved

\* A step that touches neither rows nor answers.
LEMMA HeldWhileQuiet ==
    ASSUME OneAnswerInv, NEW w \in Workers, NEW next, req' = [req EXCEPT ![w] = next],
           UNCHANGED <<rows, confirmed, disputed>>, begun' \in Nat,
           next = Idle \/ Creating(next) \/ Resolving(next)
    PROVE  OneAnswerInv'
<1>1. \A v \in Workers \ {w} :
          Answering(req[v]) => req[v].row \notin confirmed' \cup disputed'
  BY HeldRow
<1>2. Resolving(next) => Resolving(next)'
  BY DEF Resolving
<1>3. HeldUnresolved'
  BY <1>1, <1>2, HeldStays
<1>4. QED
  BY <1>3 DEF OneAnswerInv, ConfirmedXorDisputed

LEMMA CreateStepKeepsOneAnswer ==
    ASSUME OneAnswerInv, NEW w \in Workers,
           EditExpenses(w) \/ BeginCreate(w) \/ Admit(w) \/ Refuse(w) \/ Plan(w)
    PROVE  OneAnswerInv'
<1> USE DEF db
<1>0. begun \in Nat /\ req = [v \in Workers |-> req[v]]
  BY DEF OneAnswerInv, HeldUnresolved
<1>1. CASE EditExpenses(w)
  <2>1. UNCHANGED <<rows, confirmed, disputed, begun, req>>
    BY <1>1 DEF EditExpenses
  <2>2. QED
    BY <2>1 DEF OneAnswerInv, ConfirmedXorDisputed, HeldUnresolved, Creating, Resolving
<1>2. CASE BeginCreate(w)
  <2>1. PICK op \in {"group", "global", "offset"}, u, v \in Users,
             g \in Places, a \in Amounts :
               req' = [req EXCEPT ![w] =
                 [step |-> "owed", op |-> op, call |-> begun + 1, payer |-> u,
                  receiver |-> v, place |-> g, amount |-> a,
                  cap |-> Cap(op, u, v, g), plan |-> NoDebts]]
    BY <1>2, ZenonT(60) DEF BeginCreate
  <2>2. PICK next :
          next = [step |-> "owed", op |-> op, call |-> begun + 1, payer |-> u,
                  receiver |-> v, place |-> g, amount |-> a,
                  cap |-> Cap(op, u, v, g), plan |-> NoDebts]
    OBVIOUS
  <2>3. Creating(next) /\ req' = [req EXCEPT ![w] = next]
    BY <2>1, <2>2 DEF Creating
  <2>4. UNCHANGED <<rows, confirmed, disputed>> /\ begun' \in Nat
    BY <1>0, <1>2 DEF BeginCreate
  <2>5. QED
    BY <2>3, <2>4, HeldWhileQuiet
<1>3. CASE Admit(w)
  <2>1. Creating(req[w])
    BY <1>3 DEF Admit, Creating, Resolving, Idle, OneAnswerInv, HeldUnresolved
  <2>2. PICK next :
          next = [[req[w] EXCEPT !.step = "checked"] EXCEPT !.plan = ReverseDebts(req[w])]
    OBVIOUS
  <2>3. Creating(next)
    BY <2>1, <2>2 DEF Creating
  <2>4. req' = [req EXCEPT ![w] = next]
    BY <1>0, <1>3, <2>2 DEF Admit
  <2>5. QED
    BY <1>0, <1>3, <2>3, <2>4, HeldWhileQuiet DEF Admit
<1>4. CASE Refuse(w)
  BY <1>0, <1>4, HeldWhileQuiet DEF Refuse
<1>5. CASE Plan(w)
  <2>1. Creating(req[w])
    BY <1>5 DEF Plan, Creating, Resolving, Idle, OneAnswerInv, HeldUnresolved
  <2>2. PICK next :
          next = [[req[w] EXCEPT !.step = "planned"]
                     EXCEPT !.plan = Breakdown(req[w].payer, req[w].receiver)]
    OBVIOUS
  <2>3. Creating(next)
    BY <2>1, <2>2 DEF Creating
  <2>4. req' = [req EXCEPT ![w] = next]
    BY <1>0, <1>5, <2>2 DEF Plan
  <2>5. QED
    BY <1>0, <1>5, <2>3, <2>4, HeldWhileQuiet DEF Plan
<1>6. QED
  BY <1>1, <1>2, <1>3, <1>4, <1>5

LEMMA InsertKeepsOneAnswer ==
    ASSUME OneAnswerInv, NEW w \in Workers, Insert(w)
    PROVE  OneAnswerInv'
<1>1. /\ rows \subseteq rows' /\ UNCHANGED <<confirmed, disputed, begun>>
      /\ req' = [req EXCEPT ![w] = Idle]
  BY DEF Insert
<1>2. \A v \in Workers \ {w} :
          Answering(req[v]) => req[v].row \notin confirmed' \cup disputed'
  BY <1>1, HeldRow
<1>3. HeldUnresolved'
  BY <1>1, <1>2, HeldStays
<1>4. QED
  BY <1>1, <1>3 DEF OneAnswerInv, ConfirmedXorDisputed

LEMMA ResolveStepKeepsOneAnswer ==
    ASSUME OneAnswerInv, AnswersApart, NEW w \in Workers,
           BeginResolve(w) \/ Confirm(w) \/ Dispute(w)
    PROVE  OneAnswerInv'
<1>0. begun \in Nat /\ confirmed \subseteq rows /\ disputed \subseteq rows
      /\ ConfirmedXorDisputed
  BY DEF OneAnswerInv
<1>1. CASE BeginResolve(w)
  <2>1. PICK r \in rows \ (confirmed \cup disputed), s \in {"confirming", "disputing"} :
          req' = [req EXCEPT ![w] = [step |-> s, row |-> r, request |-> begun + 1]]
    BY <1>1 DEF BeginResolve
  <2>2. PICK next : next = [step |-> s, row |-> r, request |-> begun + 1]
    OBVIOUS
  <2>3. Resolving(next) /\ req' = [req EXCEPT ![w] = next]
    BY <1>0, <2>1, <2>2 DEF Resolving
  <2>4. UNCHANGED <<rows, confirmed, disputed>> /\ begun' \in Nat
    BY <1>0, <1>1 DEF BeginResolve, db
  <2>5. QED
    BY <2>3, <2>4, HeldWhileQuiet
\* The held row is resolved here for the first time, and nobody else holds it.
<1>2. ASSUME Answering(req[w]), rows' = rows, begun' = begun,
             confirmed' \cup disputed' = confirmed \cup disputed \cup {req[w].row},
             req' = [req EXCEPT ![w] = Idle]
      PROVE  HeldUnresolved' /\ req[w].row \in rows \ (confirmed \cup disputed)
  <2>1. req[w].row \in rows \ (confirmed \cup disputed)
    BY <1>2, HeldRow
  <2>2. ASSUME NEW v \in Workers \ {w}, Answering(req[v])
        PROVE  req[v].row \notin confirmed' \cup disputed'
    <3>1. req[v].row # req[w].row
      BY <1>2, <2>2 DEF AnswersApart
    <3>2. req[v].row \notin confirmed \cup disputed
      BY <2>2, HeldRow
    <3>3. QED
      BY <1>2, <3>1, <3>2
  <2>3. HeldUnresolved'
    BY <1>2, <2>2, HeldStays
  <2>4. QED
    BY <2>1, <2>3
<1>3. CASE Confirm(w)
  <2>1. /\ Answering(req[w]) /\ UNCHANGED <<rows, begun, disputed>>
        /\ confirmed' = confirmed \cup {req[w].row} /\ req' = [req EXCEPT ![w] = Idle]
    BY <1>3 DEF Confirm, Answering
  <2>2. HeldUnresolved' /\ req[w].row \in rows \ (confirmed \cup disputed)
    BY <1>2, <2>1
  <2>3. QED
    BY <1>0, <2>1, <2>2 DEF OneAnswerInv, ConfirmedXorDisputed
<1>4. CASE Dispute(w)
  <2>1. /\ Answering(req[w]) /\ UNCHANGED <<rows, begun, confirmed>>
        /\ disputed' = disputed \cup {req[w].row} /\ req' = [req EXCEPT ![w] = Idle]
    BY <1>4 DEF Dispute, Answering
  <2>2. HeldUnresolved' /\ req[w].row \in rows \ (confirmed \cup disputed)
    BY <1>2, <2>1
  <2>3. QED
    BY <1>0, <2>1, <2>2 DEF OneAnswerInv, ConfirmedXorDisputed
<1>5. QED
  BY <1>1, <1>3, <1>4

LEMMA NextKeepsOneAnswer ==
    ASSUME AnswersApart, OneAnswerInv, [Next]_vars
    PROVE  OneAnswerInv'
<1>1. CASE UNCHANGED vars
  BY <1>1 DEF vars, OneAnswerInv, ConfirmedXorDisputed, HeldUnresolved,
              Creating, Resolving
<1>2. ASSUME NEW w \in Workers,
             \/ EditExpenses(w)
             \/ BeginCreate(w) \/ Admit(w) \/ Refuse(w) \/ Plan(w) \/ Insert(w)
             \/ BeginResolve(w) \/ Confirm(w) \/ Dispute(w)
      PROVE  OneAnswerInv'
  BY <1>2, CreateStepKeepsOneAnswer, InsertKeepsOneAnswer, ResolveStepKeepsOneAnswer
<1>3. QED
  BY <1>1, <1>2 DEF Next

LEMMA OneAnswerHolds == Spec /\ []AnswersApart => []OneAnswerInv
<1>1. Init => OneAnswerInv
  BY InitOneAnswer
<1>2. AnswersApart /\ OneAnswerInv /\ [Next]_vars => OneAnswerInv'
  BY NextKeepsOneAnswer
<1>3. QED
  BY <1>1, <1>2, PTL DEF Spec

\* However requests overlap, no payment is both confirmed and disputed, unless two
\* requests answer it at the same time (TransactionService.confirm and dispute).
THEOREM ApartNeverBoth == Spec /\ []AnswersApart => []ConfirmedXorDisputed
<1>1. OneAnswerInv => ConfirmedXorDisputed
  BY DEF OneAnswerInv
<1>2. QED
  BY <1>1, OneAnswerHolds, PTL

-------------------------------------------------------------------------------
(***************************************************************************)
(* What the two parties see of an answer: a row without an answer has no   *)
(* confirmation mail and no dispute entry, any other row at most one.      *)
(***************************************************************************)
Answers(r) ==
    {t \in queued : t.kind = "confirmed_mail" /\ t.row = r} \cup {e \in audit : e.row = r}

AnswersInv ==
    /\ OneAnswerInv
    /\ \A r : r \notin confirmed \cup disputed => Answers(r) = {}
    /\ \A r : \A a, b \in Answers(r) : a = b

LEMMA AnswerStep ==
    ASSUME AnswersApart, AnswersInv, [Next]_vars
    PROVE  AnswersInv'
<1>1. OneAnswerInv /\ OneAnswerInv'
  BY NextKeepsOneAnswer DEF AnswersInv
<1>2. ASSUME NEW w \in Workers, req[w].step \in {"confirming", "disputing"}
      PROVE  req[w].row \notin confirmed \cup disputed
  BY <1>1, <1>2, HeldRow DEF Answering
<1>3. ASSUME NEW r0, NEW a0,
             \A r : Answers(r)' \subseteq Answers(r) \cup (IF r = r0 THEN {a0} ELSE {}),
             r0 \notin confirmed \cup disputed, r0 \in confirmed' \cup disputed',
             confirmed \subseteq confirmed', disputed \subseteq disputed'
      PROVE  AnswersInv'
  <2>1. Answers(r0) = {}
    BY <1>3 DEF AnswersInv
  <2>2. \A r : r \notin confirmed' \cup disputed' => Answers(r)' = {}
    BY <1>3 DEF AnswersInv
  <2>3. \A r : \A a, b \in Answers(r)' : a = b
    BY <1>3, <2>1 DEF AnswersInv
  <2>4. QED
    BY <1>1, <2>2, <2>3 DEF AnswersInv
<1>4. ASSUME NEW w \in Workers, Confirm(w)
      PROVE  AnswersInv'
  <2> DEFINE r0 == req[w].row
             a0 == Mail("confirmed_mail", r0, req[w].request)
  <2>1. \A t \in queued' : t \in queued \/ t = a0 \/ t.kind = "recalculate"
    BY <1>4 DEF Confirm, Mail
  <2>2. a0.row = r0
    BY DEF Mail
  <2>3. \A r : Answers(r)' \subseteq Answers(r) \cup (IF r = r0 THEN {a0} ELSE {})
    BY <1>4, <2>1, <2>2 DEF Answers, Confirm
  <2>4. r0 \in confirmed' /\ confirmed \subseteq confirmed' /\ disputed \subseteq disputed'
        /\ r0 \notin confirmed \cup disputed
    BY <1>2, <1>4 DEF Confirm
  <2>5. QED
    BY <1>3, <2>3, <2>4
<1>5. ASSUME NEW w \in Workers, Dispute(w)
      PROVE  AnswersInv'
  <2> DEFINE r0 == req[w].row
             a0 == [row |-> req[w].row, request |-> req[w].request]
  <2>1. \A r : Answers(r)' \subseteq Answers(r) \cup (IF r = r0 THEN {a0} ELSE {})
    BY <1>5 DEF Answers, Dispute
  <2>2. r0 \in disputed' /\ confirmed \subseteq confirmed' /\ disputed \subseteq disputed'
        /\ r0 \notin confirmed \cup disputed
    BY <1>2, <1>5 DEF Dispute
  <2>3. QED
    BY <1>3, <2>1, <2>2
<1>6. ASSUME UNCHANGED <<confirmed, disputed, audit>>,
             \A t \in queued' : t \in queued \/ t.kind = "recorded_mail"
      PROVE  AnswersInv'
  <2>1. \A r : Answers(r)' \subseteq Answers(r)
    BY <1>6 DEF Answers
  <2>2. QED
    BY <1>1, <1>6, <2>1 DEF AnswersInv
<1>7. ASSUME NEW w \in Workers, Insert(w)
      PROVE  AnswersInv'
  BY <1>6, <1>7 DEF Insert, Mail
<1>8. QED
  BY <1>4, <1>5, <1>6, <1>7
     DEF Next, vars, db, EditExpenses, BeginCreate, Admit, Refuse, Plan, BeginResolve

\* However requests overlap, a payment is answered at most once, and the parties are
\* told so at most once, unless two requests answer it at the same time
\* (TransactionService.confirm and dispute).
THEOREM ApartResolvesOnce == Spec /\ []AnswersApart => []ResolvedOnce
<1>1. Init => AnswersInv
  BY InitOneAnswer DEF Init, AnswersInv, Answers
<1>2. AnswersApart /\ AnswersInv /\ [Next]_vars => AnswersInv'
  BY AnswerStep
<1>3. AnswersInv => ResolvedOnce
  <2> SUFFICES ASSUME AnswersInv, NEW r \in rows
               PROVE  Cardinality(Answers(r)) <= 1
    BY DEF ResolvedOnce, Answers
  <2>1. Answers(r) = {} \/ \E a : Answers(r) = {a}
    <3>1. \A a, b \in Answers(r) : a = b
      BY DEF AnswersInv
    <3>2. ASSUME NEW a \in Answers(r)
          PROVE  Answers(r) = {a}
      BY <3>1
    <3>3. QED
      BY <3>2
  <2>2. CASE Answers(r) = {}
    BY <2>2, FS_EmptySet
  <2>3. ASSUME NEW a, Answers(r) = {a}
        PROVE  Cardinality(Answers(r)) <= 1
    <3>1. Cardinality({a}) = 1
      BY FS_Singleton
    <3>2. QED
      BY <2>3, <3>1
  <2>4. QED
    BY <2>1, <2>2, <2>3
<1>4. QED
  BY <1>1, <1>2, <1>3, PTL DEF Spec

-------------------------------------------------------------------------------
(* The refinement: every step is a step of the lifecycle or leaves it alone. *)

LEMMA StepImplementsLifecycle ==
    ASSUME OneAnswerInv, [Next]_vars
    PROVE  [Lifecycle!Next]_(Lifecycle!vars)
<1> USE DEF Lifecycle!vars, OneAnswerInv
<1>1. CASE UNCHANGED <<rows, confirmed, disputed>>
  BY <1>1
<1>2. ASSUME NEW w \in Workers, Insert(w)
      PROVE  Lifecycle!Next
  <2>1. rows \subseteq rows' /\ UNCHANGED <<confirmed, disputed>>
    BY <1>2 DEF Insert
  <2>2. QED
    BY <2>1 DEF Lifecycle!Next, Lifecycle!Record, Lifecycle!Recorded
<1>3. ASSUME NEW w \in Workers, req[w].step \in {"confirming", "disputing"}
      PROVE  req[w].row \in rows \ (confirmed \cup disputed)
  BY <1>3, HeldRow DEF Answering
<1>4. ASSUME NEW w \in Workers, Confirm(w)
      PROVE  Lifecycle!Next
  BY <1>3, <1>4 DEF Confirm, Lifecycle!Next, Lifecycle!Confirm
<1>5. ASSUME NEW w \in Workers, Dispute(w)
      PROVE  Lifecycle!Next
  BY <1>3, <1>5 DEF Dispute, Lifecycle!Next, Lifecycle!Dispute
<1>6. QED
  BY <1>1, <1>2, <1>4, <1>5
     DEF Next, vars, db, EditExpenses, BeginCreate, Admit, Refuse, Plan, BeginResolve

\* However requests overlap, they implement the payment lifecycle: recorded, then
\* answered at most once, unless two requests answer one payment at the same time
\* (TransactionService).
THEOREM ApartImplementsLifecycle == Spec /\ []AnswersApart => LifecycleSpec
<1>1. Init => Lifecycle!Init
  BY DEF Init, Lifecycle!Init
<1>2. OneAnswerInv /\ [Next]_vars => [Lifecycle!Next]_(Lifecycle!vars)
  BY StepImplementsLifecycle
<1>3. QED
  BY <1>1, <1>2, OneAnswerHolds, PTL DEF Spec, LifecycleSpec, Lifecycle!Spec

-------------------------------------------------------------------------------
(* For any number of workers.                                                *)

\* However requests interleave, no flag is reset and no row goes away (the
\* update_fields of TransactionService.confirm and dispute).
THEOREM AnswersAreKept == Spec => NothingForgotten
<1> DEFINE Kept == /\ rows \subseteq rows'
                   /\ confirmed \subseteq confirmed'
                   /\ disputed \subseteq disputed'
<1>1. Next => Kept
  BY DEF Next, db, EditExpenses, BeginCreate, Admit, Refuse, Plan, Insert,
         BeginResolve, Confirm, Dispute
<1>2. [Next]_vars => [Kept]_vars
  BY <1>1
<1> HIDE DEF Kept
<1>3. Spec => [][Kept]_vars
  BY <1>2, PTL DEF Spec
<1>4. QED
  BY <1>3 DEF Kept, NothingForgotten

\* Queued tasks are records of kind, row and request, and mails come second.
MailInv ==
    /\ \A t \in queued : t = Mail(t.kind, t.row, t.request)
    /\ RecalcBeforeMail

LEMMA ConfirmKeepsMailOrder ==
    ASSUME MailInv, NEW w \in Workers, Confirm(w)
    PROVE  MailInv'
<1> DEFINE r == req[w].row
           n == req[w].request
<1>1. \A t \in queued' : t \in queued \/ t = Mail("recalculate", r, n)
                                     \/ t = Mail("confirmed_mail", r, n)
  BY DEF Confirm
<1>2. queued \subseteq queued'
  BY DEF Confirm
<1>3. Mail("confirmed_mail", r, n) \in queued' =>
         \/ Mail("confirmed_mail", r, n) \in queued
         \/ r.place \in Groups => Mail("recalculate", r, n) \in queued'
  BY DEF Confirm, Mail
<1>4. QED
  BY <1>1, <1>2, <1>3 DEF MailInv, RecalcBeforeMail, Mail

\* However requests interleave and wherever an outage cuts the callbacks short,
\* no confirmation mail overtakes its recalculation (TransactionService.confirm).
THEOREM RecalculationComesFirst == Spec => []RecalcBeforeMail
<1>1. Init => MailInv
  BY DEF Init, MailInv, RecalcBeforeMail
<1>2. ASSUME MailInv, NEW w \in Workers, Insert(w)
      PROVE  MailInv'
  <2>1. \A t \in queued' :
           t \in queued \/ \E r \in NewRows(req[w]) :
                               t = Mail("recorded_mail", r, req[w].call)
    BY <1>2 DEF Insert
  <2>2. queued \subseteq queued'
    BY <1>2 DEF Insert
  <2>3. QED
    BY <1>2, <2>1, <2>2 DEF MailInv, RecalcBeforeMail, Mail
<1>3. MailInv /\ [Next]_vars => MailInv'
  <2> SUFFICES ASSUME MailInv, [Next]_vars, queued' # queued
               PROVE  MailInv'
    BY DEF MailInv, RecalcBeforeMail
  <2>1. PICK w \in Workers : Insert(w) \/ Confirm(w)
    BY DEF Next, vars, db, EditExpenses, BeginCreate, Admit, Refuse, Plan,
           BeginResolve, Dispute
  <2>2. QED
    BY <1>2, <2>1, ConfirmKeepsMailOrder
<1>4. MailInv => RecalcBeforeMail
  BY DEF MailInv
<1>5. QED
  BY <1>1, <1>3, <1>4, PTL DEF Spec

-------------------------------------------------------------------------------
(* Sums over finite sets: SumFunctionOnSet is a fold over a set, and only   *)
(* the set and the terms matter.                                            *)

LEMMA SmallestSubset ==
    ASSUME NEW S, IsFiniteSet(S), NEW Some \in SUBSET SUBSET S, Some # {}
    PROVE  \E T \in Some : \A U \in Some : U \subseteq T => U = T
<1>1. FiniteSubsetsOf(S) = SUBSET S
  BY FS_FiniteSubsetsOfFinite
<1>2. PICK T \in Some : \A U \in Some : <<U, T>> \notin StrictSubsetOrdering(S)
  BY <1>1, FS_StrictSubsetOrderingWellFounded, WFMin
<1>3. QED
  BY <1>2 DEF StrictSubsetOrdering

LEMMA SetInduction ==
    ASSUME NEW S, IsFiniteSet(S), NEW Good, {} \in Good,
           \A T \in SUBSET S, x \in S : T \in Good /\ x \notin T => T \cup {x} \in Good
    PROVE  S \in Good
<1> SUFFICES ASSUME S \notin Good
             PROVE  FALSE
  OBVIOUS
<1>1. PICK T \in SUBSET S :
        /\ T \notin Good
        /\ \A U \in SUBSET S : U \notin Good /\ U \subseteq T => U = T
  <2> DEFINE Bad == {T \in SUBSET S : T \notin Good}
  <2>1. S \in Bad /\ Bad \in SUBSET SUBSET S
    OBVIOUS
  <2>2. \E T \in Bad : \A U \in Bad : U \subseteq T => U = T
    <3> HIDE DEF Bad
    <3>1. QED
      BY <2>1, SmallestSubset
  <2>3. QED
    BY <2>2
<1>2. PICK x : x \in T
  BY <1>1
<1>3. T \ {x} \in SUBSET S /\ T \ {x} # T /\ T \ {x} \subseteq T /\ T = (T \ {x}) \cup {x}
  BY <1>1, <1>2
<1>4. T \ {x} \in Good
  BY <1>1, <1>3
<1>5. QED
  BY <1>1, <1>2, <1>3, <1>4

Folded(it, D, pick, base, h, Val) ==
    /\ it \in [SUBSET D -> Val]
    /\ \A s \in SUBSET D :
          it[s] = IF s = {} THEN base ELSE h[<<pick[s], it[s \ {pick[s]}]>>]

LEMMA FoldUnique ==
    ASSUME NEW S, IsFiniteSet(S), NEW pick, \A s \in SUBSET S : s # {} => pick[s] \in s,
           NEW Val, NEW base, NEW h,
           NEW A \in SUBSET S, NEW B \in SUBSET S, NEW f, NEW g,
           Folded(f, A, pick, base, h, Val), Folded(g, B, pick, base, h, Val),
           NEW r \in SUBSET (A \cap B)
    PROVE  f[r] = g[r]
<1> SUFFICES ASSUME f[r] # g[r]
             PROVE  FALSE
  OBVIOUS
<1> DEFINE Differ == {s \in SUBSET (A \cap B) : f[s] # g[s]}
<1>1. IsFiniteSet(A \cap B)
  BY FS_Subset
<1>2. PICK s \in Differ : \A u \in Differ : u \subseteq s => u = s
  <2>1. r \in Differ /\ Differ \in SUBSET SUBSET (A \cap B)
    OBVIOUS
  <2> HIDE DEF Differ
  <2>2. QED
    BY <1>1, <2>1, SmallestSubset
<1>3. s # {}
  BY <1>2 DEF Folded
<1>4. pick[s] \in s
  BY <1>3
<1>5. f[s \ {pick[s]}] = g[s \ {pick[s]}]
  BY <1>2, <1>4
<1>6. QED
  BY <1>2, <1>3, <1>5 DEF Folded

LEMMA FoldExists ==
    ASSUME NEW S, IsFiniteSet(S), NEW pick, \A s \in SUBSET S : s # {} => pick[s] \in s,
           NEW Val, NEW base \in Val, NEW h, \A x \in S, a \in Val : h[<<x, a>>] \in Val
    PROVE  \E it : Folded(it, S, pick, base, h, Val)
<1> DEFINE Good == {T \in SUBSET S : \E it : Folded(it, T, pick, base, h, Val)}
<1> SUFFICES ASSUME S \notin Good
             PROVE  FALSE
  OBVIOUS
<1>1. PICK T \in SUBSET S :
        /\ T \notin Good
        /\ \A U \in SUBSET S : U \notin Good /\ U \subseteq T => U = T
  <2> DEFINE Bad == {T \in SUBSET S : T \notin Good}
  <2>1. S \in Bad /\ Bad \in SUBSET SUBSET S
    OBVIOUS
  <2>2. \E T \in Bad : \A U \in Bad : U \subseteq T => U = T
    <3> HIDE DEF Bad
    <3>1. QED
      BY <2>1, SmallestSubset
  <2>3. QED
    BY <2>2
<1> DEFINE It(U) == CHOOSE it : Folded(it, U, pick, base, h, Val)
           Left(s) == s \ {pick[s]}
           f == [s \in SUBSET T |-> IF s = {} THEN base ELSE h[<<pick[s], It(Left(s))[Left(s)]>>]]
<1>2. \A U \in SUBSET T : U # T => Folded(It(U), U, pick, base, h, Val)
  BY <1>1
<1> HIDE DEF It
<1>3. \A s \in SUBSET T : s # {} => /\ pick[s] \in T /\ Left(s) \in SUBSET T
                                    /\ Left(s) # T /\ Left(s) # s
  BY <1>1
<1>4. ASSUME NEW U \in SUBSET T, U # T
      PROVE  It(U)[U] \in Val
  <2>1. It(U) \in [SUBSET U -> Val]
    BY <1>2, <1>4 DEF Folded
  <2>2. QED
    BY <2>1
<1>5. f \in [SUBSET T -> Val]
  <2> SUFFICES ASSUME NEW s \in SUBSET T, s # {}
               PROVE  h[<<pick[s], It(Left(s))[Left(s)]>>] \in Val
    OBVIOUS
  <2>1. pick[s] \in S /\ It(Left(s))[Left(s)] \in Val
    BY <1>1, <1>3, <1>4
  <2>2. QED
    BY <2>1
<1>6. \A U \in SUBSET T : U # T => f[U] = It(U)[U]
  <2> SUFFICES ASSUME NEW U \in SUBSET T, U # T
               PROVE  f[U] = It(U)[U]
    OBVIOUS
  <2>1. Folded(It(U), U, pick, base, h, Val)
    BY <1>2
  <2>2. CASE U = {}
    BY <2>1, <2>2 DEF Folded
  <2>3. CASE U # {}
    <3>1. Folded(It(Left(U)), Left(U), pick, base, h, Val)
      BY <1>2, <1>3, <2>3
    <3>2. Left(U) \in SUBSET S /\ U \in SUBSET S /\ Left(U) \in SUBSET (U \cap Left(U))
      BY <1>1
    <3>3. It(U)[Left(U)] = It(Left(U))[Left(U)]
      BY <2>1, <3>1, <3>2, FoldUnique
    <3>4. It(U)[U] = h[<<pick[U], It(U)[Left(U)]>>]
      BY <2>1, <2>3 DEF Folded
    <3>5. QED
      BY <2>3, <3>3, <3>4
  <2>4. QED
    BY <2>2, <2>3
<1>7. \A s \in SUBSET T : f[s] = IF s = {} THEN base ELSE h[<<pick[s], f[Left(s)]>>]
  <2> SUFFICES ASSUME NEW s \in SUBSET T, s # {}
               PROVE  f[s] = h[<<pick[s], f[Left(s)]>>]
    OBVIOUS
  <2>1. f[Left(s)] = It(Left(s))[Left(s)]
    BY <1>3, <1>6
  <2>2. QED
    BY <2>1
<1>8. Folded(f, T, pick, base, h, Val)
  BY <1>5, <1>7 DEF Folded
<1>9. QED
  BY <1>1, <1>8

\* The element that the folds of the community modules take next.
First(s) == CHOOSE x \in s : TRUE

LEMMA SumIsFold ==
    ASSUME NEW S, IsFiniteSet(S), NEW f, \A x \in S : f[x] \in Int
    PROVE  \E it, pick, h :
              /\ pick = [s \in SUBSET S |-> First(s)]
              /\ h = [xa \in S \X Int |-> f[xa[1]] + xa[2]]
              /\ Folded(it, S, pick, 0, h, Int)
              /\ SumFunctionOnSet(f, S) = it[S]
<1> DEFINE pick == [s \in SUBSET S |-> First(s)]
           h == [xa \in S \X Int |-> f[xa[1]] + xa[2]]
           Rec(it) == it = [s \in SUBSET S |->
                               IF s = {} THEN 0
                               ELSE f[CHOOSE x \in s : TRUE] + it[s \ {CHOOSE x \in s : TRUE}]]
           sum == CHOOSE it : Rec(it)
<1>1. \A s \in SUBSET S : s # {} => pick[s] \in s
  BY DEF First
<1>2. \A x \in S, a \in Int : h[<<x, a>>] = f[x] + a /\ h[<<x, a>>] \in Int
  OBVIOUS
<1>3. PICK it : Folded(it, S, pick, 0, h, Int)
  <2>1. 0 \in Int
    OBVIOUS
  <2> HIDE DEF pick, h
  <2>2. QED
    BY <1>1, <1>2, <2>1, FoldExists, Zenon
<1>4. \A s \in SUBSET S : s # {} => /\ pick[s] = First(s) /\ First(s) \in S
                                    /\ it[s \ {First(s)}] \in Int
  BY <1>1, <1>3 DEF Folded
<1>5. ASSUME NEW s \in SUBSET S
      PROVE  it[s] = IF s = {} THEN 0 ELSE f[First(s)] + it[s \ {First(s)}]
  <2>1. it[s] = IF s = {} THEN 0 ELSE h[<<pick[s], it[s \ {pick[s]}]>>]
    BY <1>3 DEF Folded
  <2> HIDE DEF h, pick
  <2>2. QED
    BY <2>1, <1>2, <1>4
<1>6. it \in [SUBSET S -> Int]
  BY <1>3 DEF Folded
<1>7. Rec(it)
  <2>1. it = [s \in SUBSET S |-> IF s = {} THEN 0 ELSE f[First(s)] + it[s \ {First(s)}]]
    BY <1>5, <1>6
  <2>2. QED
    BY <2>1 DEF First
<1>8. Rec(sum)
  <2>1. (\E i : Rec(i)) => Rec(CHOOSE i : Rec(i))
    <3> HIDE DEF Rec
    <3>1. QED
      OBVIOUS
  <2>2. QED
    BY <1>7, <2>1
<1>9. SumFunctionOnSet(f, S) = sum[S]
  BY DEF SumFunctionOnSet, FoldFunctionOnSet, MapThenFoldSet
<1> HIDE DEF sum
<1>10. sum = [s \in SUBSET S |-> sum[s]] /\ \A s \in SUBSET S : sum[s] = IF s = {} THEN 0 ELSE f[First(s)] + sum[s \ {First(s)}]
  <2>1. sum = [s \in SUBSET S |-> IF s = {} THEN 0 ELSE f[First(s)] + sum[s \ {First(s)}]]
    BY <1>8 DEF First
  <2>2. QED
    BY <2>1
<1>11. ASSUME NEW s \in SUBSET S
       PROVE  sum[s] = it[s]
  <2> DEFINE Bad == {t \in SUBSET S : sum[t] # it[t]}
  <2> SUFFICES ASSUME s \in Bad
               PROVE  FALSE
    OBVIOUS
  <2>1. Bad \in SUBSET SUBSET S
    OBVIOUS
  <2>2. PICK t \in Bad : \A u \in Bad : u \subseteq t => u = t
    <3> HIDE DEF Bad
    <3>1. QED
      BY <2>1, SmallestSubset
  <2>3. t \in SUBSET S /\ sum[t] # it[t] /\ t # {}
    BY <1>5, <1>10, <2>2
  <2>4. First(t) \in t
    BY <2>3 DEF First
  <2>5. sum[t \ {First(t)}] = it[t \ {First(t)}]
    BY <2>2, <2>4
  <2>6. QED
    BY <1>5, <1>10, <2>3, <2>5
<1>12. sum = it
  BY <1>6, <1>10, <1>11
<1>13. QED
  BY <1>3, <1>9, <1>12

LEMMA SumEmpty == \A f : SumFunctionOnSet(f, {}) = 0
<1> SUFFICES ASSUME NEW f
             PROVE  SumFunctionOnSet(f, {}) = 0
  OBVIOUS
<1>1. IsFiniteSet({}) /\ \A x \in {} : f[x] \in Int
  BY FS_EmptySet
<1>2. PICK it, pick, h : Folded(it, {}, pick, 0, h, Int) /\ SumFunctionOnSet(f, {}) = it[{}]
  BY <1>1, SumIsFold
<1>3. it[{}] = 0
  BY <1>2 DEF Folded
<1>4. QED
  BY <1>2, <1>3

LEMMA SumType ==
    ASSUME NEW S, IsFiniteSet(S), NEW f, \A x \in S : f[x] \in Int
    PROVE  SumFunctionOnSet(f, S) \in Int
<1>1. PICK it, pick, h : Folded(it, S, pick, 0, h, Int) /\ SumFunctionOnSet(f, S) = it[S]
  BY SumIsFold
<1>2. it[S] \in Int
  BY <1>1 DEF Folded
<1>3. QED
  BY <1>1, <1>2

LEMMA SumFirst ==
    ASSUME NEW S, IsFiniteSet(S), NEW f, \A x \in S : f[x] \in Int, S # {}
    PROVE  /\ First(S) \in S
           /\ SumFunctionOnSet(f, S) = f[First(S)] + SumFunctionOnSet(f, S \ {First(S)})
<1> DEFINE R == S \ {First(S)}
           pick(D) == [s \in SUBSET D |-> First(s)]
           h(D) == [xa \in D \X Int |-> f[xa[1]] + xa[2]]
<1>1. First(S) \in S /\ R \in SUBSET S /\ IsFiniteSet(R) /\ \A x \in R : f[x] \in Int
  BY FS_RemoveElement DEF First
<1>2. PICK it : Folded(it, S, pick(S), 0, h(S), Int) /\ SumFunctionOnSet(f, S) = it[S]
  BY SumIsFold
<1>3. PICK jt : Folded(jt, R, pick(R), 0, h(R), Int) /\ SumFunctionOnSet(f, R) = jt[R]
  BY <1>1, SumIsFold
<1>4. Folded(jt, R, pick(S), 0, h(S), Int)
  <2>1. jt \in [SUBSET R -> Int]
    BY <1>3 DEF Folded
  <2>2. ASSUME NEW s \in SUBSET R, s # {}
        PROVE  jt[s] = h(S)[<<pick(S)[s], jt[s \ {pick(S)[s]}]>>]
    <3>1. First(s) \in R /\ First(s) \in S /\ s \in SUBSET S /\ jt[s \ {First(s)}] \in Int
      BY <1>1, <2>1, <2>2 DEF First
    <3>2. jt[s] = h(R)[<<pick(R)[s], jt[s \ {pick(R)[s]}]>>]
      BY <1>3, <2>2 DEF Folded
    <3>3. jt[s] = f[First(s)] + jt[s \ {First(s)}]
      BY <2>2, <3>1, <3>2
    <3>4. QED
      BY <3>1, <3>3
  <2>3. ASSUME NEW s \in SUBSET R, s = {}
        PROVE  jt[s] = 0
    BY <1>3, <2>3 DEF Folded
  <2> HIDE DEF pick, h
  <2>4. QED
    BY <2>1, <2>2, <2>3 DEF Folded
<1>5. it[R] = jt[R]
  <2>1. \A s \in SUBSET S : s # {} => pick(S)[s] \in s
    BY DEF First
  <2>2. S \in SUBSET S /\ R \in SUBSET (S \cap R)
    BY <1>1
  <2>3. R \in SUBSET S /\ Folded(it, S, pick(S), 0, h(S), Int)
    BY <1>1, <1>2
  <2> HIDE DEF pick, h, R
  <2>4. \A p, b, k, V :
           (\A s \in SUBSET S : s # {} => p[s] \in s) /\ Folded(it, S, p, b, k, V) /\ Folded(jt, R, p, b, k, V)
              => it[R] = jt[R]
    BY <2>2, <2>3, FoldUnique
  <2>5. QED
    BY <1>4, <2>1, <2>3, <2>4
<1>6. it[S] = f[First(S)] + it[R]
  <2>1. it[S] = h(S)[<<pick(S)[S], it[S \ {pick(S)[S]}]>>] /\ it[R] \in Int
    BY <1>1, <1>2 DEF Folded
  <2>2. QED
    BY <1>1, <2>1
<1>7. QED
  BY <1>1, <1>2, <1>3, <1>5, <1>6

\* A sum may be taken apart at any element.
LEMMA SumRemove ==
    ASSUME NEW S, IsFiniteSet(S), NEW f, \A x \in S : f[x] \in Int, NEW x \in S
    PROVE  SumFunctionOnSet(f, S) = f[x] + SumFunctionOnSet(f, S \ {x})
<1> DEFINE Sum(T) == SumFunctionOnSet(f, T)
           Bad == {T \in SUBSET S : \E z \in T : Sum(T) # f[z] + Sum(T \ {z})}
<1> SUFFICES ASSUME S \in Bad
             PROVE  FALSE
  OBVIOUS
<1>1. PICK T \in SUBSET S :
        /\ \E z \in T : Sum(T) # f[z] + Sum(T \ {z})
        /\ \A U \in SUBSET T : U # T => \A z \in U : Sum(U) = f[z] + Sum(U \ {z})
  <2>1. Bad \in SUBSET SUBSET S
    OBVIOUS
  <2>2. \E T \in Bad : \A U \in Bad : U \subseteq T => U = T
    <3> HIDE DEF Bad
    <3>1. QED
      BY <2>1, SmallestSubset
  <2> HIDE DEF Sum
  <2>3. QED
    BY <2>2
<1>2. ASSUME NEW U \in SUBSET S
      PROVE  /\ IsFiniteSet(U) /\ Sum(U) \in Int
             /\ U # {} => First(U) \in U /\ Sum(U) = f[First(U)] + Sum(U \ {First(U)})
  <2>1. IsFiniteSet(U) /\ \A z \in U : f[z] \in Int
    BY FS_Subset
  <2>2. QED
    BY <2>1, SumType, SumFirst
<1> HIDE DEF Sum
<1>3. PICK z \in T : Sum(T) # f[z] + Sum(T \ {z})
  BY <1>1
<1> DEFINE c == First(T)
           rest == (T \ {c}) \ {z}
<1>4. c \in T /\ c # z /\ Sum(T) = f[c] + Sum(T \ {c})
  BY <1>2, <1>3
<1>5. Sum(T \ {c}) = f[z] + Sum(rest)
  BY <1>1, <1>3, <1>4
<1>6. Sum(T \ {z}) = f[c] + Sum(rest)
  <2>1. (T \ {z}) \ {c} = rest
    OBVIOUS
  <2>2. QED
    BY <1>1, <1>3, <1>4, <2>1
<1>7. Sum(rest) \in Int /\ f[c] \in Int /\ f[z] \in Int
  BY <1>2, <1>3, <1>4
<1> HIDE DEF c, rest
<1>8. QED
  BY <1>3, <1>4, <1>5, <1>6, <1>7

LEMMA SumAdd ==
    ASSUME NEW S, IsFiniteSet(S), NEW x, x \notin S,
           NEW f, \A y \in S \cup {x} : f[y] \in Int
    PROVE  SumFunctionOnSet(f, S \cup {x}) = f[x] + SumFunctionOnSet(f, S)
<1>1. IsFiniteSet(S \cup {x}) /\ (S \cup {x}) \ {x} = S
  BY FS_AddElement
<1>2. QED
  BY <1>1, SumRemove

LEMMA SumEqual ==
    ASSUME NEW S, IsFiniteSet(S), NEW f, NEW g, \A x \in S : f[x] \in Int /\ g[x] = f[x]
    PROVE  SumFunctionOnSet(g, S) = SumFunctionOnSet(f, S)
<1> DEFINE Good == {T \in SUBSET S : SumFunctionOnSet(g, T) = SumFunctionOnSet(f, T)}
<1>1. {} \in Good
  BY SumEmpty
<1>2. ASSUME NEW T \in SUBSET S, NEW x \in S, T \in Good, x \notin T
      PROVE  T \cup {x} \in Good
  <2>1. IsFiniteSet(T) /\ T \cup {x} \in SUBSET S
    BY FS_Subset
  <2>2. /\ \A y \in T \cup {x} : f[y] \in Int /\ g[y] \in Int
        /\ f[x] = g[x]
    OBVIOUS
  <2>3. /\ SumFunctionOnSet(f, T \cup {x}) = f[x] + SumFunctionOnSet(f, T)
        /\ SumFunctionOnSet(g, T \cup {x}) = g[x] + SumFunctionOnSet(g, T)
    BY <1>2, <2>1, <2>2, SumAdd
  <2>4. QED
    BY <1>2, <2>1, <2>2, <2>3
<1>3. S \in Good
  <2> HIDE DEF Good
  <2>1. QED
    BY <1>1, <1>2, SetInduction
<1>4. QED
  BY <1>3

\* Sums add up term by term.
LEMMA SumPlus ==
    ASSUME NEW S, IsFiniteSet(S), NEW f, NEW g, NEW h,
           \A x \in S : f[x] \in Int /\ g[x] \in Int /\ h[x] = f[x] + g[x]
    PROVE  SumFunctionOnSet(h, S) = SumFunctionOnSet(f, S) + SumFunctionOnSet(g, S)
<1> DEFINE Good == {T \in SUBSET S :
              SumFunctionOnSet(h, T) = SumFunctionOnSet(f, T) + SumFunctionOnSet(g, T)}
<1>1. {} \in Good
  BY SumEmpty
<1>2. ASSUME NEW T \in SUBSET S, NEW x \in S, T \in Good, x \notin T
      PROVE  T \cup {x} \in Good
  <2>1. IsFiniteSet(T) /\ T \cup {x} \in SUBSET S
    BY FS_Subset
  <2>2. /\ \A y \in T \cup {x} : f[y] \in Int /\ g[y] \in Int /\ h[y] \in Int
        /\ h[x] = f[x] + g[x]
    OBVIOUS
  <2>3. /\ SumFunctionOnSet(f, T \cup {x}) = f[x] + SumFunctionOnSet(f, T)
        /\ SumFunctionOnSet(g, T \cup {x}) = g[x] + SumFunctionOnSet(g, T)
        /\ SumFunctionOnSet(h, T \cup {x}) = h[x] + SumFunctionOnSet(h, T)
    BY <1>2, <2>1, <2>2, SumAdd
  <2>4. SumFunctionOnSet(f, T) \in Int /\ SumFunctionOnSet(g, T) \in Int
    BY <2>1, <2>2, SumType
  <2>5. SumFunctionOnSet(h, T) = SumFunctionOnSet(f, T) + SumFunctionOnSet(g, T)
    BY <1>2
  <2>6. QED
    BY <2>1, <2>2, <2>3, <2>4, <2>5
<1>3. S \in Good
  <2> HIDE DEF Good
  <2>1. QED
    BY <1>1, <1>2, SetInduction
<1>4. QED
  BY <1>3

\* Sums grow with their terms.
LEMMA SumMono ==
    ASSUME NEW S, IsFiniteSet(S), NEW f, NEW g,
           \A x \in S : f[x] \in Int /\ g[x] \in Int /\ f[x] <= g[x]
    PROVE  SumFunctionOnSet(f, S) <= SumFunctionOnSet(g, S)
<1> DEFINE Good == {T \in SUBSET S : SumFunctionOnSet(f, T) <= SumFunctionOnSet(g, T)}
<1>1. {} \in Good
  BY SumEmpty
<1>2. ASSUME NEW T \in SUBSET S, NEW x \in S, T \in Good, x \notin T
      PROVE  T \cup {x} \in Good
  <2>1. IsFiniteSet(T) /\ T \cup {x} \in SUBSET S
    BY FS_Subset
  <2>2. /\ \A y \in T \cup {x} : f[y] \in Int /\ g[y] \in Int
        /\ f[x] <= g[x]
    OBVIOUS
  <2>3. /\ SumFunctionOnSet(f, T \cup {x}) = f[x] + SumFunctionOnSet(f, T)
        /\ SumFunctionOnSet(g, T \cup {x}) = g[x] + SumFunctionOnSet(g, T)
    BY <1>2, <2>1, <2>2, SumAdd
  <2>4. SumFunctionOnSet(f, T) \in Int /\ SumFunctionOnSet(g, T) \in Int
    BY <2>1, <2>2, SumType
  <2>5. SumFunctionOnSet(f, T) <= SumFunctionOnSet(g, T)
    BY <1>2
  <2>6. QED
    BY <2>1, <2>2, <2>3, <2>4, <2>5
<1>3. S \in Good
  <2> HIDE DEF Good
  <2>1. QED
    BY <1>1, <1>2, SetInduction
<1>4. QED
  BY <1>3

LEMMA SumIsNat ==
    ASSUME NEW S, IsFiniteSet(S), NEW f, \A x \in S : f[x] \in Nat
    PROVE  SumFunctionOnSet(f, S) \in Nat
<1> DEFINE Good == {T \in SUBSET S : SumFunctionOnSet(f, T) \in Nat}
<1>1. {} \in Good
  BY SumEmpty
<1>2. ASSUME NEW T \in SUBSET S, NEW x \in S, T \in Good, x \notin T
      PROVE  T \cup {x} \in Good
  <2>1. IsFiniteSet(T) /\ \A y \in T \cup {x} : f[y] \in Int
    BY FS_Subset
  <2>2. SumFunctionOnSet(f, T \cup {x}) = f[x] + SumFunctionOnSet(f, T)
    BY <1>2, <2>1, SumAdd
  <2>3. QED
    BY <1>2, <2>2
<1>3. S \in Good
  <2> HIDE DEF Good
  <2>1. QED
    BY <1>1, <1>2, SetInduction
<1>4. QED
  BY <1>3

-------------------------------------------------------------------------------
(* A waterfall over places, larger debts first.                             *)

LEMMA PlacesAreFinite == IsFiniteSet(Places)
BY PlaceAssumption, FS_AddElement DEF Places

\* Places in the order in which a waterfall fills them.
Before(debts, h, g) ==
    \/ debts[h] > debts[g]
    \/ debts[h] = debts[g] /\ NameRank[h] > NameRank[g]

LEMMA AheadIs ==
    ASSUME NEW debts, NEW g, NEW h
    PROVE  h \in Ahead(debts, g) <=> h \in Places /\ Before(debts, h, g)
BY DEF Ahead, Before

LEMMA BeforeOrders ==
    ASSUME NEW debts \in [Places -> Nat], NEW g \in Places, NEW h \in Places
    PROVE  /\ ~Before(debts, g, g)
           /\ g = h \/ Before(debts, g, h) \/ Before(debts, h, g)
           /\ \A i \in Places : Before(debts, g, h) /\ Before(debts, h, i) => Before(debts, g, i)
<1>1. debts[g] \in Int /\ debts[h] \in Int /\ NameRank[g] \in Int /\ NameRank[h] \in Int
  BY RankAssumption
<1>2. NameRank[g] = NameRank[h] => g = h
  BY RankAssumption
<1>3. \A i \in Places : debts[i] \in Int /\ NameRank[i] \in Int
  BY RankAssumption
<1>4. QED
  BY <1>1, <1>2, <1>3 DEF Before

\* Of some places one is filled last.
LEMMA LastPlace ==
    ASSUME NEW debts \in [Places -> Nat], NEW T \in SUBSET Places, T # {}
    PROVE  \E g \in T : \A h \in T : h = g \/ Before(debts, h, g)
<1> DEFINE Behind(g) == {h \in T : h = g \/ Before(debts, g, h)}
           Some == {Behind(g) : g \in T}
<1>1. PICK g \in T : \A h \in T : Behind(h) \subseteq Behind(g) => Behind(h) = Behind(g)
  <2>1. Some \in SUBSET SUBSET Places /\ Some # {}
    OBVIOUS
  <2>2. \E S \in Some : \A U \in Some : U \subseteq S => U = S
    <3> HIDE DEF Some
    <3>1. QED
      BY <2>1, PlacesAreFinite, SmallestSubset
  <2>3. PICK S \in Some : \A U \in Some : U \subseteq S => U = S
    BY <2>2
  <2>4. PICK g \in T : S = Behind(g)
    BY <2>3
  <2>5. \A h \in T : Behind(h) \in Some
    OBVIOUS
  <2> HIDE DEF Some, Behind
  <2>6. QED
    BY <2>3, <2>4, <2>5
<1>2. ASSUME NEW h \in T, h # g, ~Before(debts, h, g)
      PROVE  FALSE
  <2>1. Before(debts, g, h)
    BY <1>2, BeforeOrders
  <2>2. \A i \in T : Before(debts, h, i) => Before(debts, g, i)
    BY <2>1, BeforeOrders
  <2>3. Behind(h) \subseteq Behind(g)
    BY <2>1, <2>2
  <2>4. g \notin Behind(h)
    BY <1>2
  <2>5. g \in Behind(g)
    OBVIOUS
  <2> HIDE DEF Behind
  <2>6. QED
    BY <1>1, <2>3, <2>4, <2>5
<1>3. QED
  BY <1>2

LEMMA ShareType ==
    ASSUME NEW debts \in [Places -> Nat], NEW amount \in Nat, NEW g \in Places
    PROVE  LET s == SumFunctionOnSet(debts, Ahead(debts, g)) IN
           /\ s \in Nat
           /\ Share(debts, amount, g) \in Nat
           /\ Share(debts, amount, g) <= debts[g] /\ Share(debts, amount, g) <= amount
           /\ amount <= s => Share(debts, amount, g) = 0
           /\ amount > s => Share(debts, amount, g) = IF debts[g] < amount - s THEN debts[g]
                                                                             ELSE amount - s
<1> DEFINE s == SumFunctionOnSet(debts, Ahead(debts, g))
<1>1. Ahead(debts, g) \in SUBSET Places
  BY DEF Ahead
<1>2. IsFiniteSet(Ahead(debts, g))
  BY <1>1, PlacesAreFinite, FS_Subset
<1>3. s \in Nat
  BY <1>1, <1>2, SumIsNat
<1>4. debts[g] \in Nat
  OBVIOUS
<1> HIDE DEF s
<1>5. Share(debts, amount, g) = Smaller(debts[g], NonNegative(amount - s))
  BY DEF Share, s
<1>6. QED
  BY <1>3, <1>4, <1>5 DEF Smaller, NonNegative, s

\* What a waterfall distributes over places together with all those ahead of them.
Filled(debts, amount, share, T) ==
    SumFunctionOnSet(share, T) = Smaller(amount, SumFunctionOnSet(debts, T))

LEMMA WaterfallFills ==
    ASSUME NEW debts \in [Places -> Nat], NEW amount \in Nat,
           NEW share, share = [g \in Places |-> Share(debts, amount, g)]
    PROVE  Filled(debts, amount, share, Places)
<1> DEFINE Bad == {T \in SUBSET Places : /\ \A g \in T : Ahead(debts, g) \subseteq T
                                         /\ ~Filled(debts, amount, share, T)}
<1> SUFFICES ASSUME Places \in Bad
             PROVE  FALSE
  BY DEF Ahead
<1>1. PICK T \in Bad : \A U \in Bad : U \subseteq T => U = T
  <2>1. Bad \in SUBSET SUBSET Places /\ Bad # {}
    OBVIOUS
  <2> HIDE DEF Bad
  <2>2. QED
    BY <2>1, PlacesAreFinite, SmallestSubset
<1>2. T \in SUBSET Places /\ (\A g \in T : Ahead(debts, g) \subseteq T)
      /\ ~Filled(debts, amount, share, T)
  OBVIOUS
<1>3. \A g \in Places : share[g] \in Nat /\ debts[g] \in Nat
  BY ShareType
<1>4. T # {}
  <2>1. SumFunctionOnSet(share, {}) = 0 /\ SumFunctionOnSet(debts, {}) = 0
    BY SumEmpty
  <2>2. Filled(debts, amount, share, {})
    BY <2>1 DEF Filled, Smaller
  <2>3. QED
    BY <1>2, <2>2
<1>5. PICK g \in T : \A h \in T : h = g \/ Before(debts, h, g)
  BY <1>2, <1>4, LastPlace
<1> DEFINE A == Ahead(debts, g)
           s == SumFunctionOnSet(debts, A)
           x == share[g]
           d == debts[g]
<1>6. /\ A \in SUBSET Places /\ g \in Places /\ g \notin A /\ T = A \cup {g}
      /\ \A h \in A : Ahead(debts, h) \subseteq A
  <2>1. g \in Places /\ A \in SUBSET Places /\ A \subseteq T
    BY <1>2, AheadIs
  <2>2. g \notin A
    BY <2>1, AheadIs, BeforeOrders
  <2>3. \A h \in T : h \in A \cup {g}
    BY <1>2, <1>5, AheadIs
  <2>4. ASSUME NEW h \in A, NEW i \in Ahead(debts, h)
        PROVE  i \in A
    <3>1. i \in Places /\ h \in Places /\ Before(debts, i, h) /\ Before(debts, h, g)
      BY AheadIs
    <3>2. QED
      BY <2>1, <3>1, AheadIs, BeforeOrders
  <2>5. QED
    BY <2>1, <2>2, <2>3, <2>4
<1>7. Filled(debts, amount, share, A)
  <2>1. A # T /\ A \subseteq T
    BY <1>6
  <2>2. A \notin Bad
    BY <1>1, <2>1
  <2>3. QED
    BY <1>6, <2>2
<1>8. IsFiniteSet(A)
  BY <1>6, PlacesAreFinite, FS_Subset
<1>9. /\ s \in Nat /\ x \in Nat /\ d \in Nat
      /\ amount <= s => x = 0
      /\ amount > s => x = IF d < amount - s THEN d ELSE amount - s
  BY <1>6, ShareType
<1>10. /\ SumFunctionOnSet(share, T) = x + SumFunctionOnSet(share, A)
       /\ SumFunctionOnSet(debts, T) = d + s
  <2>1. \A y \in A \cup {g} : share[y] \in Int /\ debts[y] \in Int
    BY <1>3, <1>6
  <2> HIDE DEF A
  <2>2. SumFunctionOnSet(share, A \cup {g}) = share[g] + SumFunctionOnSet(share, A)
    BY <1>6, <1>8, <2>1, SumAdd
  <2>3. SumFunctionOnSet(debts, A \cup {g}) = debts[g] + SumFunctionOnSet(debts, A)
    BY <1>6, <1>8, <2>1, SumAdd
  <2>4. QED
    BY <1>6, <2>2, <2>3
<1>11. SumFunctionOnSet(share, A) = Smaller(amount, s)
  BY <1>7 DEF Filled
<1> HIDE DEF A, s, x, d
<1>12. x + Smaller(amount, s) = Smaller(amount, d + s)
  BY <1>9 DEF Smaller
<1>13. Filled(debts, amount, share, T)
  BY <1>10, <1>11, <1>12 DEF Filled
<1>14. QED
  BY <1>2, <1>13

\* Once nothing is left over, the whole amount is distributed.
LEMMA SharesAddUp ==
    ASSUME NEW debts \in [Places -> Nat], NEW amount \in Nat, Leftover(debts, amount) = 0,
           NEW share, share = [g \in Places |-> Share(debts, amount, g)]
    PROVE  SumFunctionOnSet(share, Places) = amount
<1> DEFINE s == SumFunctionOnSet(debts, Places)
<1>1. Filled(debts, amount, share, Places)
  BY WaterfallFills
<1>2. s \in Nat
  BY PlacesAreFinite, SumIsNat
<1>3. SumFunction(debts) = s
  BY DEF SumFunction
<1>4. SumFunctionOnSet(share, Places) = Smaller(amount, s)
  BY <1>1 DEF Filled
<1> HIDE DEF s
<1>5. amount <= s
  BY <1>2, <1>3 DEF Leftover, NonNegative
<1>6. QED
  BY <1>2, <1>4, <1>5 DEF Smaller

-------------------------------------------------------------------------------
(* What the service reads, and the rows of a request.                       *)

LEMMA TotalIs ==
    ASSUME NEW S, IsFiniteSet(S), \A r \in S : r.amount \in Nat,
           NEW f, \A r \in S : f[r] = r.amount
    PROVE  Total(S) = SumFunctionOnSet(f, S) /\ Total(S) \in Nat
<1> DEFINE g == [r \in S |-> r.amount]
<1>1. Total(S) = SumFunctionOnSet(g, S)
  BY DEF Total, SumFunction
<1>2. \A r \in S : g[r] \in Int /\ g[r] \in Nat /\ f[r] = g[r]
  OBVIOUS
<1> HIDE DEF g
<1>3. SumFunctionOnSet(f, S) = SumFunctionOnSet(g, S)
  BY <1>2, SumEqual
<1>4. SumFunctionOnSet(g, S) \in Nat
  BY <1>2, SumIsNat
<1>5. QED
  BY <1>1, <1>3, <1>4

LEMMA TotalType ==
    ASSUME NEW S, IsFiniteSet(S), \A r \in S : r.amount \in Nat
    PROVE  Total(S) \in Nat
<1> DEFINE f == [r \in S |-> r.amount]
<1>1. \A r \in S : f[r] = r.amount
  OBVIOUS
<1> HIDE DEF f
<1>2. QED
  BY <1>1, TotalIs

LEMMA TotalAdd ==
    ASSUME NEW S, IsFiniteSet(S), NEW x, x \notin S, \A r \in S \cup {x} : r.amount \in Nat
    PROVE  Total(S \cup {x}) = Total(S) + x.amount
<1> DEFINE T == S \cup {x}
           f == [r \in T |-> r.amount]
<1>1. IsFiniteSet(T)
  BY FS_AddElement
<1>2. \A r \in T : f[r] = r.amount /\ f[r] \in Int /\ r.amount \in Nat
  OBVIOUS
<1>3. x \in T /\ \A r \in S : r \in T
  OBVIOUS
<1> HIDE DEF f
<1>4. SumFunctionOnSet(f, S \cup {x}) = f[x] + SumFunctionOnSet(f, S)
  BY <1>2, SumAdd
<1>5. Total(S) = SumFunctionOnSet(f, S) /\ Total(S) \in Nat
  BY <1>2, <1>3, TotalIs
<1>6. Total(T) = SumFunctionOnSet(f, T)
  BY <1>1, <1>2, TotalIs
<1>7. QED
  BY <1>2, <1>3, <1>4, <1>5, <1>6

\* A worker that records a payment, at any step of it.
Started(c) == c.step \in {"owed", "checked", "planned"}

\* Between two users, over a plan of debts, and with rows still to come.
RequestFine(c) ==
    /\ c.payer # c.receiver /\ c.amount \in Nat \ {0} /\ c.plan \in [Places -> Nat]
    /\ (c.place = Personal <=> c.op = "global")
    /\ (c.step = "planned" => c.op = "global")
    /\ c.call <= begun /\ \A r \in rows : r.call # c.call

\* Rows are finitely many and carry the numbers of earlier requests; no two workers
\* record for the same number.
FreshInv ==
    /\ TypeOK /\ IsFiniteSet(rows)
    /\ \A r \in rows : r.call <= begun
    /\ \A w \in Workers : Started(req[w]) => RequestFine(req[w])
    /\ \A w \in Workers : req[w].step \in {"confirming", "disputing"} => req[w].row \in rows
    /\ \A v, w \in Workers :
          Started(req[v]) /\ Started(req[w]) /\ req[v].call = req[w].call => v = w

\* The payments of u to v in g that count.
Payments(u, v, g) == {r \in Between(u, v) \ disputed : r.place = g}

LEMMA PaymentsAre ==
    ASSUME FreshInv, NEW u, NEW v, NEW g
    PROVE  /\ IsFiniteSet(Payments(u, v, g)) /\ Payments(u, v, g) \subseteq rows
           /\ Paid(u, v, g) = Total(Payments(u, v, g)) /\ Paid(u, v, g) \in Nat
<1>1. Payments(u, v, g) \subseteq rows
  BY DEF Payments, Between
<1>2. IsFiniteSet(Payments(u, v, g))
  BY <1>1, FS_Subset DEF FreshInv
<1>3. \A r \in rows : r.amount \in Nat
  BY DEF FreshInv, TypeOK, Row
<1>4. Total(Payments(u, v, g)) \in Nat
  BY <1>1, <1>2, <1>3, TotalType
<1>5. QED
  BY <1>1, <1>2, <1>4 DEF Paid, Payments

LEMMA OwedType ==
    ASSUME FreshInv, NEW u \in Users, NEW v \in Users, NEW g \in Places
    PROVE  /\ Owed(u, v, g) \in Int
           /\ Owed(u, v, g) = split[g][u][v] - split[g][v][u] - Paid(u, v, g) + Paid(v, u, g)
           /\ split[g][u][v] \in Nat /\ split[g][v][u] \in Nat
           /\ Paid(u, v, g) \in Nat /\ Paid(v, u, g) \in Nat
<1>1. Paid(u, v, g) \in Nat /\ Paid(v, u, g) \in Nat
  BY PaymentsAre
<1>2. split[g][u][v] \in Nat /\ split[g][v][u] \in Nat
  BY DEF FreshInv, TypeOK
<1>3. QED
  BY <1>1, <1>2 DEF Owed

LEMMA NetType ==
    ASSUME FreshInv, NEW u \in Users, NEW v \in Users
    PROVE  /\ Net(u, v) = SumFunctionOnSet([g \in Places |-> Owed(u, v, g)], Places)
           /\ Net(u, v) \in Int
<1> DEFINE f == [g \in Places |-> Owed(u, v, g)]
<1>1. Net(u, v) = SumFunctionOnSet(f, Places)
  BY DEF Net, SumFunction
<1>2. \A g \in Places : f[g] \in Int
  BY OwedType
<1> HIDE DEF f
<1>3. SumFunctionOnSet(f, Places) \in Int
  BY <1>2, PlacesAreFinite, SumType
<1>4. QED
  BY <1>1, <1>3 DEF f

LEMMA CapType ==
    ASSUME FreshInv, NEW u \in Users, NEW v \in Users, NEW g \in Places, NEW op
    PROVE  Cap(op, u, v, g) \in Nat
<1>1. Net(u, v) \in Int /\ Owed(u, v, g) \in Int
  BY NetType, OwedType
<1>2. QED
  BY <1>1 DEF Cap, NonNegative

LEMMA BreakdownType ==
    ASSUME FreshInv, NEW u \in Users, NEW v \in Users
    PROVE  Breakdown(u, v) \in [Places -> Nat]
<1>1. \A g \in Places : Owed(u, v, g) \in Int
  BY OwedType
<1>2. \A g \in Places : NonNegative(Owed(u, v, g)) \in Nat
  BY <1>1 DEF NonNegative
<1>3. QED
  BY <1>2 DEF Breakdown

LEMMA PendingType ==
    ASSUME FreshInv, NEW u, NEW v, NEW S
    PROVE  Pending(u, v, S) \in Nat
<1> DEFINE P == {r \in Between(u, v) \ (confirmed \cup disputed) : r.place \in S}
<1>1. P \subseteq rows
  BY DEF Between
<1>2. IsFiniteSet(P)
  BY <1>1, FS_Subset DEF FreshInv
<1>3. \A r \in rows : r.amount \in Nat
  BY DEF FreshInv, TypeOK, Row
<1>4. Total(P) \in Nat
  BY <1>1, <1>2, <1>3, TotalType
<1>5. QED
  BY <1>4 DEF Pending

LEMMA RequestType ==
    ASSUME FreshInv, NEW w \in Workers, Started(req[w])
    PROVE  /\ req[w] \in CreateRequest /\ RequestFine(req[w])
           /\ req[w].payer \in Users /\ req[w].receiver \in Users /\ req[w].place \in Places
           /\ req[w].op \in {"group", "global", "offset"} /\ req[w].call \in Nat
           /\ req[w].cap \in Int
<1>1. req[w] \in CreateRequest
  BY DEF FreshInv, TypeOK, Started, Idle, ResolveRequest
<1>2. QED
  BY <1>1 DEF CreateRequest, FreshInv

-------------------------------------------------------------------------------
(* The rows of a request.                                                    *)

PlainRow(c, u, v, g, a) ==
    [call |-> c.call, place |-> g, payer |-> u, receiver |-> v, amount |-> a, residual |-> FALSE]

LEMMA WaterfallRows ==
    ASSUME NEW c, c.plan \in [Places -> Nat], c.amount \in Nat \ {0},
           NEW u, NEW v, Leftover(c.plan, c.amount) = 0, NEW r
    PROVE  r \in Waterfall(c, u, v) <=>
              \E g \in Places : /\ Share(c.plan, c.amount, g) > 0
                                /\ r = PlainRow(c, u, v, g, Share(c.plan, c.amount, g))
<1> DEFINE share(g) == Share(c.plan, c.amount, g)
<1>1. \A g \in Places : share(g) \in Nat /\ share(g) <= c.amount
  BY ShareType
<1> HIDE DEF share
<1>2. ASSUME r \in Waterfall(c, u, v)
      PROVE  /\ r.place \in Places /\ share(r.place) > 0 /\ r.amount = share(r.place)
             /\ r = PlainRow(c, u, v, r.place, share(r.place))
  <2>1. /\ r \in [call : {c.call}, place : Places, payer : {u}, receiver : {v},
                  amount : 1 .. c.amount, residual : BOOLEAN]
        /\ IF r.residual THEN r.place = Personal /\ r.amount = Leftover(c.plan, c.amount)
                         ELSE r.amount = share(r.place)
    BY <1>2 DEF Waterfall, share
  <2>2. r.residual = FALSE
    BY <2>1
  <2>3. QED
    BY <2>1, <2>2 DEF PlainRow
<1>3. ASSUME NEW g \in Places, share(g) > 0, r = PlainRow(c, u, v, g, share(g))
      PROVE  r \in Waterfall(c, u, v)
  <2>1. share(g) \in 1 .. c.amount
    BY <1>1, <1>3
  <2>2. r \in [call : {c.call}, place : Places, payer : {u}, receiver : {v},
               amount : 1 .. c.amount, residual : BOOLEAN]
    BY <1>3, <2>1 DEF PlainRow
  <2>3. r.residual = FALSE /\ r.place = g /\ r.amount = share(g)
    BY <1>3 DEF PlainRow
  <2>4. QED
    BY <2>2, <2>3 DEF Waterfall, share
<1>4. QED
  BY <1>2, <1>3 DEF share

-------------------------------------------------------------------------------
(* What a request adds to the payments between two users in a place.        *)

\* What a request adds to the payments of p to q in g.
Gain(c, p, q, g) ==
    CASE c.op = "group"  -> IF p = c.payer /\ q = c.receiver /\ g = c.place THEN c.amount ELSE 0
      [] c.op = "global" -> IF p = c.payer /\ q = c.receiver THEN Share(c.plan, c.amount, g) ELSE 0
      [] c.op = "offset" -> IF p = c.payer /\ q = c.receiver /\ g = c.place THEN c.amount
                            ELSE IF p = c.receiver /\ q = c.payer THEN Share(c.plan, c.amount, g)
                            ELSE 0

\* A new row is what is gained between its parties in its place.
NewRowsFit(c) ==
    \A r : r \in NewRows(c) <=>
              \E p, q \in {c.payer, c.receiver}, g \in Places :
                 Gain(c, p, q, g) > 0 /\ r = PlainRow(c, p, q, g, Gain(c, p, q, g))

GainFine(c) ==
    \A p, q : \A g \in Places :
       /\ Gain(c, p, q, g) \in Nat
       /\ Gain(c, p, q, g) > 0 => p \in {c.payer, c.receiver} /\ q \in {c.payer, c.receiver} /\ p # q

LEMMA GainType ==
    ASSUME FreshInv, NEW w \in Workers, Started(req[w])
    PROVE  GainFine(req[w])
<1> DEFINE c == req[w]
<1>1. /\ c.amount \in Nat \ {0} /\ c.plan \in [Places -> Nat] /\ c.payer # c.receiver
      /\ c.op \in {"group", "global", "offset"}
  BY RequestType DEF RequestFine
<1>2. \A g \in Places : Share(c.plan, c.amount, g) \in Nat
  BY <1>1, ShareType
<1> HIDE DEF c
<1>3. QED
  BY <1>1, <1>2 DEF GainFine, Gain, c

LEMMA NewRowsAre ==
    ASSUME FreshInv, NEW w \in Workers, Started(req[w]), NewRows(req[w]) # {},
           req[w].op # "group" => Leftover(req[w].plan, req[w].amount) = 0
    PROVE  NewRowsFit(req[w])
<1> DEFINE c == req[w]
<1>1. /\ c.amount \in Nat \ {0} /\ c.plan \in [Places -> Nat] /\ c.payer # c.receiver
      /\ c.op \in {"group", "global", "offset"} /\ c.place \in Places
      /\ c.op # "group" => Leftover(c.plan, c.amount) = 0
  BY RequestType DEF RequestFine
<1>2. NewRows(c) # {}
  OBVIOUS
<1> HIDE DEF c
<1>3. Direct(c) = {PlainRow(c, c.payer, c.receiver, c.place, c.amount)}
  BY DEF Direct, PlainRow
<1> SUFFICES ASSUME NEW r
             PROVE  r \in NewRows(c) <=>
                       \E p, q \in {c.payer, c.receiver}, g \in Places :
                          Gain(c, p, q, g) > 0 /\ r = PlainRow(c, p, q, g, Gain(c, p, q, g))
  BY DEF NewRowsFit, c
<1>4. CASE c.op = "group"
  <2>1. \A p, q, g : Gain(c, p, q, g) = IF p = c.payer /\ q = c.receiver /\ g = c.place THEN c.amount ELSE 0
    BY <1>4 DEF Gain
  <2>2. NewRows(c) = Direct(c)
    BY <1>4 DEF NewRows
  <2>3. QED
    BY <1>1, <1>3, <2>1, <2>2
<1>5. CASE c.op = "global"
  <2>1. \A p, q, g : Gain(c, p, q, g) = IF p = c.payer /\ q = c.receiver THEN Share(c.plan, c.amount, g) ELSE 0
    BY <1>5 DEF Gain
  <2>2. NewRows(c) = Waterfall(c, c.payer, c.receiver)
    BY <1>5 DEF NewRows
  <2>3. r \in NewRows(c) <=>
           \E g \in Places : /\ Share(c.plan, c.amount, g) > 0
                             /\ r = PlainRow(c, c.payer, c.receiver, g, Share(c.plan, c.amount, g))
    BY <1>1, <1>5, <2>2, WaterfallRows
  <2>4. QED
    BY <1>1, <2>1, <2>3
<1>6. CASE c.op = "offset"
  <2>1. /\ \A g : Gain(c, c.payer, c.receiver, g) = IF g = c.place THEN c.amount ELSE 0
        /\ \A g : Gain(c, c.receiver, c.payer, g) = Share(c.plan, c.amount, g)
        /\ \A p, g : Gain(c, p, p, g) = 0
    BY <1>1, <1>6 DEF Gain
  <2>2. NewRows(c) = Direct(c) \cup Waterfall(c, c.receiver, c.payer)
    BY <1>2, <1>6 DEF NewRows
  <2>3. r \in Waterfall(c, c.receiver, c.payer) <=>
           \E g \in Places : /\ Share(c.plan, c.amount, g) > 0
                             /\ r = PlainRow(c, c.receiver, c.payer, g, Share(c.plan, c.amount, g))
    BY <1>1, <1>6, WaterfallRows
  <2>4. r \in Direct(c) <=>
           \E g \in Places : /\ Gain(c, c.payer, c.receiver, g) > 0
                             /\ r = PlainRow(c, c.payer, c.receiver, g, Gain(c, c.payer, c.receiver, g))
    BY <1>1, <1>3, <2>1
  <2>5. QED
    BY <1>1, <2>1, <2>2, <2>3, <2>4
<1>7. QED
  BY <1>1, <1>4, <1>5, <1>6

LEMMA PaidGains ==
    ASSUME FreshInv, NEW w \in Workers, Started(req[w]), NewRowsFit(req[w]),
           rows' = rows \cup NewRows(req[w]), disputed' = disputed,
           NEW p, NEW q, NEW g \in Places
    PROVE  Paid(p, q, g)' = Paid(p, q, g) + Gain(req[w], p, q, g)
<1> DEFINE c == req[w]
           S == Payments(p, q, g)
           n == Gain(c, p, q, g)
           r == PlainRow(c, p, q, g, n)
<1>1. /\ disputed \subseteq rows /\ \A x \in rows : x.call # c.call
      /\ \A x \in rows : x.amount \in Nat
  BY RequestType DEF FreshInv, TypeOK, RequestFine, Row
<1>2. n \in Nat /\ (n > 0 => p \in {c.payer, c.receiver} /\ q \in {c.payer, c.receiver})
  BY GainType DEF GainFine
<1>3. \A x \in NewRows(c) : x.call = c.call /\ x \notin disputed
  BY <1>1 DEF NewRowsFit, PlainRow
<1>4. \A x : x \in NewRows(c) /\ x.payer = p /\ x.receiver = q /\ x.place = g <=> n > 0 /\ x = r
  <2>1. ASSUME NEW x \in NewRows(c), x.payer = p, x.receiver = q, x.place = g
        PROVE  n > 0 /\ x = r
    BY <2>1 DEF NewRowsFit, PlainRow
  <2>2. ASSUME n > 0
        PROVE  r \in NewRows(c) /\ r.payer = p /\ r.receiver = q /\ r.place = g
    BY <1>2, <2>2 DEF NewRowsFit, PlainRow
  <2>3. QED
    BY <2>1, <2>2
<1>5. IsFiniteSet(S) /\ S \subseteq rows /\ Paid(p, q, g) = Total(S) /\ Paid(p, q, g) \in Nat
  BY PaymentsAre
<1>6. \A x \in S : x.amount \in Nat
  BY <1>1, <1>5
<1>7. Paid(p, q, g)' = Total(Payments(p, q, g)')
  BY DEF Paid, Payments
<1>8. \A x : x \in Payments(p, q, g)' <=> x \in S \/ (n > 0 /\ x = r)
  <2>1. \A x : x \in Payments(p, q, g)' <=>
                  x \in rows' /\ x.payer = p /\ x.receiver = q /\ x.place = g /\ x \notin disputed
    BY DEF Payments, Between
  <2>2. \A x : x \in S <=>
                  x \in rows /\ x.payer = p /\ x.receiver = q /\ x.place = g /\ x \notin disputed
    BY DEF Payments, Between
  <2>3. \A x : x \in rows' <=> x \in rows \/ x \in NewRows(c)
    OBVIOUS
  <2> HIDE DEF S, n, r, c
  <2>4. QED
    BY <1>3, <1>4, <2>1, <2>2, <2>3
<1>9. r.call = c.call /\ r.amount = n
  BY DEF PlainRow
<1>10. r \notin S
  BY <1>1, <1>5, <1>9
<1> HIDE DEF S, n, r
<1>11. CASE n > 0
  <2>1. Payments(p, q, g)' = S \cup {r}
    BY <1>8, <1>11
  <2>2. Total(S \cup {r}) = Total(S) + r.amount
    BY <1>2, <1>5, <1>6, <1>9, <1>10, TotalAdd
  <2>3. QED
    BY <1>5, <1>7, <1>9, <2>1, <2>2 DEF n
<1>12. CASE n = 0
  <2> DEFINE T == Payments(p, q, g)'
  <2>1. \A x : x \in T <=> x \in S
    BY <1>8, <1>12
  <2>2. T = S
    <3> HIDE DEF T
    <3>1. QED
      BY <2>1
  <2>3. QED
    BY <1>5, <1>7, <1>12, <2>2 DEF n
<1>13. QED
  BY <1>2, <1>11, <1>12

-------------------------------------------------------------------------------
(* Rows and requests stay well formed and new rows are new, whatever the    *)
(* number of workers.                                                       *)

LEMMA WaterfallType ==
    ASSUME NEW c, c.amount \in Nat \ {0}, c.call \in Nat, NEW u \in Users, NEW v \in Users
    PROVE  /\ Waterfall(c, u, v) \subseteq Row /\ IsFiniteSet(Waterfall(c, u, v))
           /\ \A r \in Waterfall(c, u, v) : r.call = c.call
<1> DEFINE W == Waterfall(c, u, v)
           D == Places \X (0 .. 1)
           f == [r \in W |-> <<r.place, IF r.residual THEN 1 ELSE 0>>]
<1>1. \A r \in W : /\ r \in [call : {c.call}, place : Places, payer : {u}, receiver : {v},
                             amount : 1 .. c.amount, residual : BOOLEAN]
                   /\ IF r.residual THEN r.place = Personal /\ r.amount = Leftover(c.plan, c.amount)
                                    ELSE r.amount = Share(c.plan, c.amount, r.place)
  BY DEF Waterfall
<1>2. W \subseteq Row /\ \A r \in W : r.call = c.call
  BY <1>1 DEF Row
<1>3. f \in [W -> D]
  BY <1>1
<1>4. ASSUME NEW r \in W, NEW s \in W, f[r] = f[s]
      PROVE  r = s
  <2>1. r.place = s.place /\ r.residual = s.residual
    <3>1. r.residual \in BOOLEAN /\ s.residual \in BOOLEAN
      BY <1>1
    <3>2. r.place = s.place /\ (IF r.residual THEN 1 ELSE 0) = (IF s.residual THEN 1 ELSE 0)
      BY <1>4
    <3>3. QED
      BY <3>1, <3>2
  <2>2. r.amount = s.amount
    BY <1>1, <2>1
  <2>3. QED
    BY <1>1, <2>1, <2>2
<1> HIDE DEF W
<1>5. IsFiniteSet(0 .. 1)
  <2>1. 0 \in Int /\ 1 \in Int
    OBVIOUS
  <2>2. QED
    BY <2>1, FS_Interval, Zenon
<1>6. IsFiniteSet(D)
  BY <1>5, PlacesAreFinite, FS_Product
<1> HIDE DEF D, f
<1>7. f \in Injection(W, D)
  BY <1>3, <1>4 DEF Injection, IsInjective
<1>8. IsFiniteSet(W)
  BY <1>6, <1>7, FS_Injection
<1>9. QED
  BY <1>2, <1>8 DEF W

LEMMA NewRowsType ==
    ASSUME FreshInv, NEW w \in Workers, Started(req[w])
    PROVE  /\ NewRows(req[w]) \subseteq Row /\ IsFiniteSet(NewRows(req[w]))
           /\ \A r \in NewRows(req[w]) : r.call = req[w].call
<1> DEFINE c == req[w]
<1>1. /\ c.amount \in Nat \ {0} /\ c.call \in Nat /\ c.payer \in Users /\ c.receiver \in Users
      /\ c.op \in {"group", "global", "offset"} /\ c.place \in Places
  BY RequestType DEF RequestFine
<1> HIDE DEF c
<1>2. Direct(c) \subseteq Row /\ IsFiniteSet(Direct(c)) /\ \A r \in Direct(c) : r.call = c.call
  <2> DEFINE r == [call |-> c.call, place |-> c.place, payer |-> c.payer,
                   receiver |-> c.receiver, amount |-> c.amount, residual |-> FALSE]
  <2>1. r \in Row /\ r.call = c.call
    BY <1>1 DEF Row
  <2>2. Direct(c) = {r}
    BY DEF Direct
  <2> HIDE DEF r
  <2>3. IsFiniteSet({r})
    BY FS_Singleton
  <2>4. QED
    BY <2>1, <2>2, <2>3
<1> DEFINE A == Waterfall(c, c.payer, c.receiver)
           B == Waterfall(c, c.receiver, c.payer)
<1>3. A \subseteq Row /\ IsFiniteSet(A) /\ \A r \in A : r.call = c.call
  BY <1>1, WaterfallType
<1>4. B \subseteq Row /\ IsFiniteSet(B) /\ \A r \in B : r.call = c.call
  BY <1>1, WaterfallType
<1>5. NewRows(c) \in {Direct(c), A, {}, Direct(c) \cup B}
  BY <1>1 DEF NewRows
<1> HIDE DEF A, B
<1>6. IsFiniteSet({}) /\ IsFiniteSet(Direct(c) \cup B)
  BY <1>2, <1>4, FS_EmptySet, FS_Union
<1>7. QED
  BY <1>2, <1>3, <1>4, <1>5, <1>6 DEF c

LEMMA InitFresh == Init => FreshInv
<1> SUFFICES ASSUME Init
             PROVE  FreshInv
  OBVIOUS
<1>1. IsFiniteSet(rows)
  BY FS_EmptySet DEF Init
<1>2. TypeOK
  BY BoundsAssumption DEF Init, TypeOK
<1>3. QED
  BY <1>1, <1>2 DEF Init, FreshInv, Started, Idle

\* What a step of one worker leaves to be shown.
Proceeds(w) ==
    /\ \A v \in Workers \ {w} : req'[v] = req[v]
    /\ DOMAIN req' = Workers /\ req' = [v \in Workers |-> req'[v]]
    /\ begun <= begun'

LEMMA RequestsStayFine ==
    ASSUME FreshInv, NEW w \in Workers, Proceeds(w), UNCHANGED rows, begun' \in Nat,
           req'[w] \in {Idle} \cup CreateRequest \cup ResolveRequest,
           Started(req'[w]) => RequestFine(req[w])',
           req'[w].step \in {"confirming", "disputing"} => req'[w].row \in rows,
           Started(req'[w]) => \A v \in Workers \ {w} : Started(req[v]) => req[v].call # req'[w].call,
           split' \in [Places -> [Users -> [Users -> Nat]]],
           confirmed' \subseteq rows, disputed' \subseteq rows,
           audit' \subseteq AuditEntry, queued' \subseteq Task, edits' \in Nat
    PROVE  FreshInv'
<1>1. begun \in Nat /\ rows \subseteq Row /\ IsFiniteSet(rows) /\ \A r \in rows : r.call <= begun
  BY DEF FreshInv, TypeOK
<1>2. IsFiniteSet(rows)'
  BY <1>1
<1>3. \A r \in rows' : r.call <= begun'
  BY <1>1 DEF Proceeds, Row
<1>4. req' \in [Workers -> {Idle} \cup CreateRequest \cup ResolveRequest]
  BY DEF Proceeds, FreshInv, TypeOK
<1>5. TypeOK'
  BY <1>1, <1>4 DEF TypeOK
<1>6. ASSUME NEW v \in Workers, Started(req'[v])
      PROVE  RequestFine(req[v])'
  <2>1. CASE v = w
    BY <1>6, <2>1
  <2>2. CASE v # w
    <3>1. req'[v] = req[v] /\ RequestFine(req[v]) /\ req[v].call \in Nat
      BY <1>6, <2>2, RequestType DEF Proceeds
    <3>2. req[v].call <= begun'
      BY <1>1, <3>1 DEF Proceeds, RequestFine
    <3>3. QED
      BY <3>1, <3>2 DEF RequestFine
  <2>3. QED
    BY <2>1, <2>2
<1>7. \A v \in Workers : req'[v].step \in {"confirming", "disputing"} => req'[v].row \in rows'
  BY DEF Proceeds, FreshInv
<1>8. ASSUME NEW u \in Workers, NEW v \in Workers, Started(req'[u]), Started(req'[v]),
             req'[u].call = req'[v].call
      PROVE  u = v
  <2>1. CASE u = w \/ v = w
    BY <1>8, <2>1 DEF Proceeds
  <2>2. CASE u # w /\ v # w
    BY <1>8, <2>2 DEF Proceeds, FreshInv
  <2>3. QED
    BY <2>1, <2>2
<1>9. QED
  BY <1>2, <1>3, <1>5, <1>6, <1>7, <1>8 DEF FreshInv

LEMMA EditExpensesKeepsFresh ==
    ASSUME FreshInv, NEW w \in Workers, EditExpenses(w)
    PROVE  FreshInv'
<1>1. PICK g \in Places, u, v \in Users, total \in 0 .. MaxAmount :
         split' = [split EXCEPT ![g][u][v] = total]
  BY DEF EditExpenses
<1>2. /\ UNCHANGED <<rows, confirmed, disputed, audit, queued, req, begun>>
      /\ edits' = edits + 1 /\ req[w] = Idle
  BY DEF EditExpenses
<1>3. split' \in [Places -> [Users -> [Users -> Nat]]]
  BY <1>1, BoundsAssumption DEF FreshInv, TypeOK
<1>4. /\ begun \in Nat /\ edits \in Nat /\ req \in [Workers -> {Idle} \cup CreateRequest \cup ResolveRequest]
      /\ confirmed \subseteq rows /\ disputed \subseteq rows /\ audit \subseteq AuditEntry
      /\ queued \subseteq Task
  BY DEF FreshInv, TypeOK
<1>5. Proceeds(w)
  BY <1>2, <1>4 DEF Proceeds
<1>6. ~Started(req'[w]) /\ req'[w].step \notin {"confirming", "disputing"} /\ req'[w] = Idle
  BY <1>2 DEF Idle, Started
<1>7. UNCHANGED rows /\ begun' \in Nat /\ edits' \in Nat /\ confirmed' \subseteq rows
      /\ disputed' \subseteq rows /\ audit' \subseteq AuditEntry /\ queued' \subseteq Task
  BY <1>2, <1>4
<1>8. QED
  BY <1>3, <1>5, <1>6, <1>7, RequestsStayFine

LEMMA ReplacedProceeds ==
    ASSUME FreshInv, NEW w \in Workers, NEW c, req' = [req EXCEPT ![w] = c],
           begun' \in {begun, begun + 1}
    PROVE  Proceeds(w) /\ req'[w] = c
<1>1. DOMAIN req = Workers /\ begun \in Nat
  BY DEF FreshInv, TypeOK
<1>2. begun <= begun'
  BY <1>1
<1>3. DOMAIN req' = Workers /\ req' = [v \in Workers |-> req'[v]]
  BY <1>1
<1>4. req'[w] = c /\ \A v \in Workers \ {w} : req'[v] = req[v]
  BY <1>1
<1>5. QED
  BY <1>2, <1>3, <1>4 DEF Proceeds

\* A request goes on to its next step.
Moved(c, s, p) == [c EXCEPT !.step = s, !.plan = p]

LEMMA MovedType ==
    ASSUME NEW c \in CreateRequest, NEW s \in {"owed", "checked", "planned"},
           NEW p \in [Places -> Nat]
    PROVE  LET d == Moved(c, s, p) IN
           /\ d \in CreateRequest
           /\ d.payer = c.payer /\ d.receiver = c.receiver /\ d.amount = c.amount
           /\ d.place = c.place /\ d.op = c.op /\ d.call = c.call /\ d.cap = c.cap
           /\ d.step = s /\ d.plan = p
<1>1. p \in Debts
  BY DEF Debts
<1> HIDE DEF Debts
<1>2. Moved(c, s, p) = [step |-> s, op |-> c.op, call |-> c.call, payer |-> c.payer,
                        receiver |-> c.receiver, place |-> c.place, amount |-> c.amount,
                        cap |-> c.cap, plan |-> p]
  <2>1. c = [step |-> c.step, op |-> c.op, call |-> c.call, payer |-> c.payer,
             receiver |-> c.receiver, place |-> c.place, amount |-> c.amount,
             cap |-> c.cap, plan |-> c.plan]
    BY DEF CreateRequest
  <2> DEFINE m == Moved(c, s, p)
  <2>2. m = [step |-> m.step, op |-> m.op, call |-> m.call, payer |-> m.payer,
             receiver |-> m.receiver, place |-> m.place, amount |-> m.amount,
             cap |-> m.cap, plan |-> m.plan]
    <3> DEFINE F == {"step", "op", "call", "payer", "receiver", "place", "amount", "cap", "plan"}
    <3>1. DOMAIN c = F
      BY <2>1
    <3>2. DOMAIN m = F /\ m = [x \in F |-> m[x]]
      BY <3>1 DEF Moved
    <3> HIDE DEF m
    <3>3. QED
      BY <3>2
  <2>3. /\ m.step = s /\ m.plan = p /\ m.op = c.op /\ m.call = c.call /\ m.payer = c.payer
        /\ m.receiver = c.receiver /\ m.place = c.place /\ m.amount = c.amount /\ m.cap = c.cap
    BY <2>1 DEF Moved
  <2> HIDE DEF m
  <2>4. QED
    BY <2>2, <2>3 DEF m
<1>3. QED
  BY <1>1, <1>2 DEF CreateRequest

\* Steps that change requests only.
OnlyRequests(w, c) ==
    /\ req' = [req EXCEPT ![w] = c]
    /\ begun' \in {begun, begun + 1}
    /\ UNCHANGED <<split, edits, db>>

LEMMA OnlyRequestsKeepsFresh ==
    ASSUME FreshInv, NEW w \in Workers, NEW c, OnlyRequests(w, c),
           c \in {Idle} \cup CreateRequest \cup ResolveRequest,
           Started(c) => /\ c.payer # c.receiver /\ c.amount \in Nat \ {0}
                         /\ c.plan \in [Places -> Nat]
                         /\ (c.place = Personal <=> c.op = "global")
                         /\ (c.step = "planned" => c.op = "global")
                         /\ \/ Started(req[w]) /\ c.call = req[w].call
                            \/ c.call = begun' /\ begun' = begun + 1,
           c.step \in {"confirming", "disputing"} => c.row \in rows
    PROVE  FreshInv'
<1>1. /\ begun \in Nat /\ edits \in Nat /\ req \in [Workers -> {Idle} \cup CreateRequest \cup ResolveRequest]
      /\ confirmed \subseteq rows /\ disputed \subseteq rows /\ audit \subseteq AuditEntry
      /\ queued \subseteq Task /\ split \in [Places -> [Users -> [Users -> Nat]]] /\ rows \subseteq Row
      /\ \A r \in rows : r.call <= begun
  BY DEF FreshInv, TypeOK
<1>2. /\ UNCHANGED <<split, edits, rows, confirmed, disputed, audit, queued>>
      /\ req' = [req EXCEPT ![w] = c] /\ begun' \in {begun, begun + 1}
  BY DEF OnlyRequests, db
<1>3. Proceeds(w) /\ req'[w] = c
  BY <1>1, <1>2, ReplacedProceeds
<1>4. \A r \in rows : r.call \in Nat /\ r.call <= begun
  BY <1>1 DEF Row
<1>5. ASSUME Started(c)
      PROVE  RequestFine(req[w])'
  <2>1. CASE Started(req[w]) /\ c.call = req[w].call
    <3>1. RequestFine(req[w]) /\ req[w].call \in Nat
      BY <2>1, RequestType
    <3>2. c.call <= begun' /\ \A r \in rows : r.call # c.call
      BY <1>1, <1>2, <2>1, <3>1 DEF RequestFine
    <3>3. QED
      BY <1>2, <1>3, <1>5, <3>2 DEF RequestFine
  <2>2. CASE c.call = begun' /\ begun' = begun + 1
    <3>1. c.call <= begun' /\ \A r \in rows : r.call # c.call
      BY <1>1, <1>4, <2>2
    <3>2. QED
      BY <1>2, <1>3, <1>5, <3>1 DEF RequestFine
  <2>3. QED
    BY <1>5, <2>1, <2>2
<1>6. ASSUME Started(c), NEW v \in Workers \ {w}, Started(req[v])
      PROVE  req[v].call # c.call
  <2>1. RequestFine(req[v]) /\ req[v].call \in Nat
    BY <1>6, RequestType
  <2>2. CASE Started(req[w]) /\ c.call = req[w].call
    BY <1>6, <2>2 DEF FreshInv
  <2>3. CASE c.call = begun' /\ begun' = begun + 1
    BY <1>1, <2>1, <2>3 DEF RequestFine
  <2>4. QED
    BY <1>6, <2>2, <2>3
<1>7. UNCHANGED rows /\ begun' \in Nat /\ edits' \in Nat /\ confirmed' \subseteq rows
      /\ disputed' \subseteq rows /\ audit' \subseteq AuditEntry /\ queued' \subseteq Task
      /\ split' \in [Places -> [Users -> [Users -> Nat]]]
  BY <1>1, <1>2
<1>8. QED
  BY <1>3, <1>5, <1>6, <1>7, RequestsStayFine

LEMMA BeginCreateKeepsFresh ==
    ASSUME FreshInv, NEW w \in Workers, BeginCreate(w)
    PROVE  FreshInv'
<1>1. PICK op \in {"group", "global", "offset"}, u, v \in Users, g \in Places, a \in Amounts :
         /\ u # v
         /\ g = Personal <=> op = "global"
         /\ Cap(op, u, v, g) > 0
         /\ req' = [req EXCEPT ![w] =
                 [step |-> "owed", op |-> op, call |-> begun + 1, payer |-> u,
                  receiver |-> v, place |-> g, amount |-> a,
                  cap |-> Cap(op, u, v, g), plan |-> NoDebts]]
  BY DEF BeginCreate
<1> DEFINE c == [step |-> "owed", op |-> op, call |-> begun + 1, payer |-> u,
                  receiver |-> v, place |-> g, amount |-> a,
                  cap |-> Cap(op, u, v, g), plan |-> NoDebts]
<1>2. OnlyRequests(w, c) /\ begun' = begun + 1
  BY <1>1 DEF BeginCreate, OnlyRequests
<1>3. Cap(op, u, v, g) \in Nat /\ begun \in Nat /\ a \in Nat \ {0} /\ NoDebts \in [Places -> Nat]
  BY CapType, BoundsAssumption DEF FreshInv, TypeOK, Amounts, NoDebts
<1>4. c \in CreateRequest
  BY <1>3 DEF CreateRequest, Debts
<1>5. /\ c.step = "owed" /\ c.payer # c.receiver /\ c.amount \in Nat \ {0}
      /\ c.plan \in [Places -> Nat] /\ (c.place = Personal <=> c.op = "global") /\ c.call = begun'
  BY <1>1, <1>2, <1>3
<1> HIDE DEF c
<1>6. QED
  BY <1>2, <1>4, <1>5, OnlyRequestsKeepsFresh

LEMMA ReverseType ==
    ASSUME FreshInv, NEW w \in Workers, Started(req[w])
    PROVE  ReverseDebts(req[w]) \in [Places -> Nat]
<1> DEFINE c == req[w]
           b == Breakdown(c.receiver, c.payer)
<1>1. b \in [Places -> Nat]
  BY RequestType, BreakdownType
<1>2. ReverseDebts(c) = IF c.op = "offset" THEN [b EXCEPT ![c.place] = 0] ELSE NoDebts
  BY DEF ReverseDebts, Without
<1>3. NoDebts \in [Places -> Nat]
  BY DEF NoDebts
<1> HIDE DEF b
<1>4. [b EXCEPT ![c.place] = 0] \in [Places -> Nat]
  BY <1>1
<1>5. QED
  BY <1>2, <1>3, <1>4

LEMMA AdmitKeepsFresh ==
    ASSUME FreshInv, NEW w \in Workers, Admit(w)
    PROVE  FreshInv'
<1> DEFINE c == Moved(req[w], "checked", ReverseDebts(req[w]))
<1>1. Started(req[w]) /\ req[w].step = "owed"
  BY DEF Admit, Started
<1>2. req[w] \in CreateRequest /\ RequestFine(req[w]) /\ ReverseDebts(req[w]) \in [Places -> Nat]
  BY <1>1, RequestType, ReverseType
<1>3. OnlyRequests(w, c)
  BY DEF Admit, OnlyRequests, Moved
<1>4. c \in CreateRequest
  BY <1>2, MovedType
<1>5. /\ c.payer = req[w].payer /\ c.receiver = req[w].receiver /\ c.amount = req[w].amount
      /\ c.place = req[w].place /\ c.op = req[w].op /\ c.call = req[w].call
      /\ c.step = "checked" /\ c.plan = ReverseDebts(req[w])
  BY <1>2, MovedType
<1> HIDE DEF c
<1>6. QED
  BY <1>1, <1>2, <1>3, <1>4, <1>5, OnlyRequestsKeepsFresh DEF RequestFine

LEMMA PlanKeepsFresh ==
    ASSUME FreshInv, NEW w \in Workers, Plan(w)
    PROVE  FreshInv'
<1> DEFINE b == Breakdown(req[w].payer, req[w].receiver)
           c == Moved(req[w], "planned", b)
<1>1. Started(req[w]) /\ req[w].op = "global"
  BY DEF Plan, Started
<1>2. req[w] \in CreateRequest /\ RequestFine(req[w]) /\ b \in [Places -> Nat]
  BY <1>1, RequestType, BreakdownType
<1>3. OnlyRequests(w, c)
  BY DEF Plan, OnlyRequests, Moved
<1> HIDE DEF b
<1>4. c \in CreateRequest
  BY <1>2, MovedType
<1>5. /\ c.payer = req[w].payer /\ c.receiver = req[w].receiver /\ c.amount = req[w].amount
      /\ c.place = req[w].place /\ c.op = req[w].op /\ c.call = req[w].call
      /\ c.step = "planned" /\ c.plan = b
  BY <1>2, MovedType
<1> HIDE DEF c
<1>6. QED
  BY <1>1, <1>2, <1>3, <1>4, <1>5, OnlyRequestsKeepsFresh DEF RequestFine

LEMMA BeginResolveKeepsFresh ==
    ASSUME FreshInv, NEW w \in Workers, BeginResolve(w)
    PROVE  FreshInv'
<1>1. PICK r \in rows, s \in {"confirming", "disputing"} :
         req' = [req EXCEPT ![w] = [step |-> s, row |-> r, request |-> begun + 1]]
  BY DEF BeginResolve
<1> DEFINE c == [step |-> s, row |-> r, request |-> begun + 1]
<1>2. OnlyRequests(w, c)
  BY <1>1 DEF BeginResolve, OnlyRequests
<1>3. c \in ResolveRequest /\ ~Started(c) /\ c.row = r
  BY DEF ResolveRequest, FreshInv, TypeOK, Started
<1> HIDE DEF c
<1>4. QED
  BY <1>2, <1>3, OnlyRequestsKeepsFresh

LEMMA RefuseKeepsFresh ==
    ASSUME FreshInv, NEW w \in Workers, Refuse(w)
    PROVE  FreshInv'
<1>1. OnlyRequests(w, Idle)
  BY DEF Refuse, OnlyRequests
<1>2. ~Started(Idle) /\ Idle.step \notin {"confirming", "disputing"}
  BY DEF Started, Idle
<1>3. QED
  BY <1>1, <1>2, OnlyRequestsKeepsFresh

LEMMA AnswerKeepsFresh ==
    ASSUME FreshInv, NEW w \in Workers, Confirm(w) \/ Dispute(w)
    PROVE  FreshInv'
<1>1. req[w].step \in {"confirming", "disputing"}
  BY DEF Confirm, Dispute
<1>2. req[w] \in ResolveRequest /\ req[w].row \in rows
  BY <1>1 DEF FreshInv, TypeOK, Idle, CreateRequest
<1>3. req[w].row \in Row /\ req[w].request \in Nat
  BY <1>2 DEF ResolveRequest
<1>4. /\ begun \in Nat /\ edits \in Nat /\ req \in [Workers -> {Idle} \cup CreateRequest \cup ResolveRequest]
      /\ confirmed \subseteq rows /\ disputed \subseteq rows /\ audit \subseteq AuditEntry
      /\ queued \subseteq Task /\ split \in [Places -> [Users -> [Users -> Nat]]]
  BY DEF FreshInv, TypeOK
<1>5. /\ UNCHANGED <<split, rows, begun, edits>> /\ req' = [req EXCEPT ![w] = Idle]
      /\ confirmed' \subseteq confirmed \cup {req[w].row} /\ disputed' \subseteq disputed \cup {req[w].row}
      /\ audit' \subseteq audit \cup {[row |-> req[w].row, request |-> req[w].request]}
  BY DEF Confirm, Dispute
<1>6. queued' \subseteq queued \cup {Mail(k, req[w].row, req[w].request) : k \in {"recalculate", "confirmed_mail"}}
  BY DEF Confirm, Dispute
<1>7. \A k \in {"recalculate", "confirmed_mail"} : Mail(k, req[w].row, req[w].request) \in Task
  BY <1>3 DEF Mail, Task
<1>8. queued' \subseteq Task /\ audit' \subseteq AuditEntry /\ confirmed' \subseteq rows /\ disputed' \subseteq rows
  BY <1>2, <1>3, <1>4, <1>5, <1>6, <1>7 DEF AuditEntry
<1>9. Proceeds(w) /\ req'[w] = Idle
  BY <1>4, <1>5, ReplacedProceeds
<1>10. ~Started(Idle) /\ Idle.step \notin {"confirming", "disputing"}
  BY DEF Started, Idle
<1>11. UNCHANGED rows /\ begun' \in Nat /\ edits' \in Nat /\ split' \in [Places -> [Users -> [Users -> Nat]]]
  BY <1>4, <1>5
<1>12. QED
  BY <1>8, <1>9, <1>10, <1>11, RequestsStayFine

LEMMA InsertKeepsFresh ==
    ASSUME FreshInv, NEW w \in Workers, Insert(w)
    PROVE  FreshInv'
<1> DEFINE c == req[w]
           N == NewRows(c)
<1>1. Started(c)
  BY DEF Insert, Started
<1>2. N \subseteq Row /\ IsFiniteSet(N) /\ \A r \in N : r.call = c.call
  BY <1>1, NewRowsType
<1>3. c.call \in Nat /\ c.call <= begun
  BY <1>1, RequestType DEF RequestFine
<1>4. PICK sent \in SUBSET {Mail("recorded_mail", r, c.call) : r \in N} : queued' = queued \cup sent
  BY DEF Insert
<1>5. rows' = rows \cup N /\ req' = [req EXCEPT ![w] = Idle]
      /\ UNCHANGED <<split, confirmed, disputed, audit, begun, edits>>
  BY DEF Insert
<1> HIDE DEF N
<1>6. /\ begun \in Nat /\ edits \in Nat /\ req \in [Workers -> {Idle} \cup CreateRequest \cup ResolveRequest]
      /\ confirmed \subseteq rows /\ disputed \subseteq rows /\ audit \subseteq AuditEntry
      /\ queued \subseteq Task /\ split \in [Places -> [Users -> [Users -> Nat]]]
      /\ rows \subseteq Row /\ IsFiniteSet(rows) /\ \A r \in rows : r.call <= begun
  BY DEF FreshInv, TypeOK
<1>7. \A r \in N : Mail("recorded_mail", r, c.call) \in Task
  BY <1>2, <1>3 DEF Mail, Task
<1>8. queued' \subseteq Task
  BY <1>4, <1>6, <1>7
<1>9. req' \in [Workers -> {Idle} \cup CreateRequest \cup ResolveRequest]
  BY <1>5, <1>6
<1>10. TypeOK'
  BY <1>2, <1>5, <1>6, <1>8, <1>9 DEF TypeOK
<1>11. IsFiniteSet(rows') /\ \A r \in rows' : r.call <= begun'
  BY <1>2, <1>3, <1>5, <1>6, FS_Union
<1>12. req'[w] = Idle /\ \A v \in Workers \ {w} : req'[v] = req[v]
  BY <1>5, <1>6
<1>13. ~Started(Idle) /\ Idle.step \notin {"confirming", "disputing"}
  BY DEF Started, Idle
<1>14. ASSUME NEW v \in Workers, Started(req'[v])
       PROVE  RequestFine(req[v])'
  <2>1. v # w /\ req'[v] = req[v]
    BY <1>12, <1>13, <1>14
  <2>2. RequestFine(req[v]) /\ req[v].call # c.call
    BY <1>1, <1>14, <2>1 DEF FreshInv
  <2>3. \A r \in rows' : r.call # req[v].call
    BY <1>2, <1>5, <2>2 DEF RequestFine
  <2>4. QED
    BY <1>5, <2>1, <2>2, <2>3 DEF RequestFine
<1>15. \A v \in Workers : req'[v].step \in {"confirming", "disputing"} => req'[v].row \in rows'
  BY <1>5, <1>12, <1>13 DEF FreshInv
<1>16. \A u, v \in Workers :
          Started(req'[u]) /\ Started(req'[v]) /\ req'[u].call = req'[v].call => u = v
  BY <1>12, <1>13 DEF FreshInv
<1>17. QED
  BY <1>10, <1>11, <1>14, <1>15, <1>16 DEF FreshInv

LEMMA NextKeepsFresh == FreshInv /\ [Next]_vars => FreshInv'
<1> SUFFICES ASSUME FreshInv, [Next]_vars
             PROVE  FreshInv'
  OBVIOUS
<1>1. CASE UNCHANGED vars
  BY <1>1 DEF vars, FreshInv, TypeOK, RequestFine
<1>2. ASSUME NEW w \in Workers,
             \/ EditExpenses(w)
             \/ BeginCreate(w) \/ Admit(w) \/ Refuse(w) \/ Plan(w) \/ Insert(w)
             \/ BeginResolve(w) \/ Confirm(w) \/ Dispute(w)
      PROVE  FreshInv'
  BY <1>2, EditExpensesKeepsFresh, BeginCreateKeepsFresh, AdmitKeepsFresh, RefuseKeepsFresh,
     PlanKeepsFresh, InsertKeepsFresh, BeginResolveKeepsFresh, AnswerKeepsFresh
<1>3. QED
  BY <1>1, <1>2 DEF Next

\* Rows, tasks and requests stay well formed, however requests interleave.
THEOREM TypeCorrect == Spec => []TypeOK
<1>1. FreshInv => TypeOK
  BY DEF FreshInv
<1>2. QED
  BY <1>1, InitFresh, NextKeepsFresh, PTL DEF Spec

LEMMA FreshHolds == Spec => []FreshInv
BY InitFresh, NextKeepsFresh, PTL DEF Spec

-------------------------------------------------------------------------------
(* One worker: what a request has read is still so when it writes.           *)

\* The cap is that of now, what is pending fits below it with the amount, and the
\* plan is what is owed now.
Measured(c) ==
    /\ c.cap = Cap(c.op, c.payer, c.receiver, c.place)
    /\ c.step # "owed" => c.amount + PendingFor(c) <= c.cap
    /\ c.step = "checked" => c.plan = ReverseDebts(c)
    /\ c.step = "planned" => c.plan = Breakdown(c.payer, c.receiver)

CapInv == FreshInv /\ \A w \in Workers : Started(req[w]) => Measured(req[w])

\* What is owed depends on splits, rows and answers only.
SameDebts ==
    /\ \A op, u, v, g : Cap(op, u, v, g)' = Cap(op, u, v, g)
    /\ \A u, v : Breakdown(u, v)' = Breakdown(u, v)
    /\ \A u, v, S : Pending(u, v, S)' = Pending(u, v, S)

LEMMA DebtsStay ==
    ASSUME UNCHANGED <<split, rows, confirmed, disputed>>
    PROVE  SameDebts
<1>1. \A u, v : Between(u, v)' = Between(u, v)
  BY DEF Between
<1>2. \A u, v, g : Paid(u, v, g)' = Paid(u, v, g)
  BY <1>1 DEF Paid
<1>3. \A u, v, g : Owed(u, v, g)' = Owed(u, v, g)
  BY <1>2 DEF Owed
<1>4. \A u, v : Net(u, v)' = Net(u, v)
  BY <1>3 DEF Net
<1>5. \A op, u, v, g : Cap(op, u, v, g)' = Cap(op, u, v, g)
  BY <1>3, <1>4 DEF Cap
<1>6. \A u, v : Breakdown(u, v)' = Breakdown(u, v)
  BY <1>3 DEF Breakdown
<1>7. \A u, v, S : Pending(u, v, S)' = Pending(u, v, S)
  BY <1>1 DEF Pending
<1>8. QED
  BY <1>5, <1>6, <1>7 DEF SameDebts

LEMMA MeasuresStay ==
    ASSUME SameDebts, NEW d
    PROVE  /\ PendingFor(d)' = PendingFor(d) /\ ReverseDebts(d)' = ReverseDebts(d)
           /\ Measured(d) => Measured(d)'
<1>1. PendingFor(d)' = PendingFor(d)
  BY DEF PendingFor, SameDebts
<1>2. ReverseDebts(d)' = ReverseDebts(d)
  BY DEF ReverseDebts, SameDebts, Without, NoDebts
<1>3. /\ Breakdown(d.payer, d.receiver)' = Breakdown(d.payer, d.receiver)
      /\ Cap(d.op, d.payer, d.receiver, d.place)' = Cap(d.op, d.payer, d.receiver, d.place)
  BY DEF SameDebts
<1>4. Measured(d) => Measured(d)'
  BY <1>1, <1>2, <1>3 DEF Measured
<1>5. QED
  BY <1>1, <1>2, <1>4

LEMMA NextKeepsCap ==
    ASSUME \A v, w \in Workers : v = w, CapInv, [Next]_vars
    PROVE  CapInv'
<1>1. FreshInv /\ FreshInv'
  BY NextKeepsFresh DEF CapInv
<1>2. ASSUME NEW w \in Workers, Started(req'[w]) => Measured(req[w])'
      PROVE  CapInv'
  <2>1. \A v \in Workers : v = w
    OBVIOUS
  <2>2. QED
    BY <1>1, <1>2, <2>1 DEF CapInv
<1>3. ASSUME NEW w \in Workers, EditExpenses(w) \/ Refuse(w) \/ Insert(w) \/ Confirm(w) \/ Dispute(w)
      PROVE  CapInv'
  <2>1. req' = [req EXCEPT ![w] = Idle] \/ (req' = req /\ req[w] = Idle)
    BY <1>3 DEF EditExpenses, Refuse, Insert, Confirm, Dispute
  <2>2. req'[w] = Idle
    BY <1>1, <2>1 DEF FreshInv, TypeOK
  <2>3. ~Started(req'[w])
    BY <2>2 DEF Started, Idle
  <2>4. QED
    BY <1>2, <2>3
<1>4. ASSUME NEW w \in Workers, BeginResolve(w)
      PROVE  CapInv'
  <2>1. PICK r \in rows, s \in {"confirming", "disputing"} :
          req' = [req EXCEPT ![w] = [step |-> s, row |-> r, request |-> begun + 1]]
    BY <1>4 DEF BeginResolve
  <2>2. ~Started(req'[w])
    BY <1>1, <2>1 DEF FreshInv, TypeOK, Started
  <2>3. QED
    BY <1>2, <2>2
<1>5. ASSUME NEW w \in Workers, BeginCreate(w)
      PROVE  CapInv'
  <2>1. PICK op \in {"group", "global", "offset"}, u, v \in Users, g \in Places, a \in Amounts :
         /\ u # v
         /\ g = Personal <=> op = "global"
         /\ Cap(op, u, v, g) > 0
         /\ req' = [req EXCEPT ![w] =
                 [step |-> "owed", op |-> op, call |-> begun + 1, payer |-> u,
                  receiver |-> v, place |-> g, amount |-> a,
                  cap |-> Cap(op, u, v, g), plan |-> NoDebts]]
    BY <1>5 DEF BeginCreate
  <2>2. SameDebts
    BY <1>5, DebtsStay DEF BeginCreate, db
  <2>3. PICK d : d = req'[w]
    OBVIOUS
  <2>4. /\ d.step = "owed" /\ d.op = op /\ d.payer = u /\ d.receiver = v /\ d.place = g
        /\ d.cap = Cap(op, u, v, g)
    BY <1>1, <2>1, <2>3 DEF FreshInv, TypeOK
  <2>5. Measured(d)
    BY <2>4 DEF Measured
  <2>6. Measured(d)'
    BY <2>2, <2>5, MeasuresStay
  <2>7. Measured(req[w])'
    BY <2>3, <2>6 DEF Measured, PendingFor, ReverseDebts
  <2>8. QED
    BY <1>2, <2>7
<1>6. ASSUME NEW w \in Workers, Admit(w)
      PROVE  CapInv'
  <2>1. PICK c, d : c = req[w] /\ d = req'[w]
    OBVIOUS
  <2>2. Started(c) /\ c.step = "owed" /\ ~OverCap(c)
    BY <1>6, <2>1 DEF Admit, Started
  <2>3. Measured(c)
    BY <2>1, <2>2 DEF CapInv
  <2>4. c \in CreateRequest /\ ReverseDebts(c) \in [Places -> Nat] /\ c.cap \in Int /\ c.amount \in Nat
        /\ c.payer \in Users /\ c.receiver \in Users
    BY <1>1, <2>1, <2>2, RequestType, ReverseType DEF RequestFine
  <2>5. d = Moved(c, "checked", ReverseDebts(c))
    BY <1>1, <1>6, <2>1 DEF Admit, Moved, FreshInv, TypeOK
  <2>6. /\ d.payer = c.payer /\ d.receiver = c.receiver /\ d.amount = c.amount
        /\ d.place = c.place /\ d.op = c.op /\ d.cap = c.cap
        /\ d.step = "checked" /\ d.plan = ReverseDebts(c)
    BY <2>4, <2>5, MovedType
  <2>7. SameDebts
    BY <1>6, DebtsStay DEF Admit, db
  <2>8. PendingFor(c) \in Nat
    BY <1>1, PendingType DEF PendingFor
  <2>9. PendingFor(d) = PendingFor(c) /\ ReverseDebts(d) = ReverseDebts(c)
    BY <2>6 DEF PendingFor, ReverseDebts
  <2>10. d.amount + PendingFor(d) <= d.cap
    BY <2>2, <2>4, <2>6, <2>8, <2>9 DEF OverCap
  <2>11. Measured(d)
    BY <2>3, <2>6, <2>9, <2>10 DEF Measured
  <2>12. Measured(d)'
    BY <2>7, <2>11, MeasuresStay
  <2>13. Measured(req[w])'
    BY <2>1, <2>12 DEF Measured, PendingFor, ReverseDebts
  <2>14. QED
    BY <1>2, <2>13
<1>7. ASSUME NEW w \in Workers, Plan(w)
      PROVE  CapInv'
  <2>1. PICK c, d : c = req[w] /\ d = req'[w]
    OBVIOUS
  <2>2. Started(c) /\ c.step = "checked" /\ c.op = "global"
    BY <1>7, <2>1 DEF Plan, Started
  <2>3. Measured(c)
    BY <2>1, <2>2 DEF CapInv
  <2>4. c \in CreateRequest /\ Breakdown(c.payer, c.receiver) \in [Places -> Nat]
    BY <1>1, <2>1, <2>2, RequestType, BreakdownType
  <2>5. d = Moved(c, "planned", Breakdown(c.payer, c.receiver))
    BY <1>1, <1>7, <2>1 DEF Plan, Moved, FreshInv, TypeOK
  <2>6. /\ d.payer = c.payer /\ d.receiver = c.receiver /\ d.amount = c.amount
        /\ d.place = c.place /\ d.op = c.op /\ d.cap = c.cap
        /\ d.step = "planned" /\ d.plan = Breakdown(c.payer, c.receiver)
    BY <2>4, <2>5, MovedType
  <2>7. SameDebts
    BY <1>7, DebtsStay DEF Plan, db
  <2>8. c.amount + PendingFor(c) <= c.cap
    BY <2>2, <2>3 DEF Measured
  <2>9. PendingFor(d) = PendingFor(c)
    BY <2>6 DEF PendingFor
  <2>10. Measured(d)
    BY <2>3, <2>6, <2>8, <2>9 DEF Measured
  <2>11. Measured(d)'
    BY <2>7, <2>10, MeasuresStay
  <2>12. Measured(req[w])'
    BY <2>1, <2>11 DEF Measured, PendingFor, ReverseDebts
  <2>13. QED
    BY <1>2, <2>12
<1>8. CASE UNCHANGED vars
  <2>1. SameDebts /\ req' = req
    BY <1>8, DebtsStay DEF vars
  <2>2. ASSUME NEW w \in Workers, Started(req'[w])
        PROVE  Measured(req[w])'
    <3>1. PICK c : c = req[w]
      OBVIOUS
    <3>2. Measured(c) /\ req'[w] = c
      BY <2>1, <2>2, <3>1 DEF CapInv
    <3>3. Measured(c)'
      BY <2>1, <3>2, MeasuresStay
    <3>4. QED
      BY <3>2, <3>3 DEF Measured, PendingFor, ReverseDebts
  <2>3. QED
    BY <1>1, <2>2 DEF CapInv
<1>9. QED
  BY <1>3, <1>4, <1>5, <1>6, <1>7, <1>8 DEF Next

-------------------------------------------------------------------------------
(* What is recorded is covered by what is owed.                             *)

\* Nothing is left over of a settlement of one worker.
LEMMA NothingLeft ==
    ASSUME CapInv, NEW w \in Workers, req[w].step \in {"checked", "planned"},
           req[w].step = "planned" <=> req[w].op = "global", NewRows(req[w]) # {}
    PROVE  req[w].op # "group" => Leftover(req[w].plan, req[w].amount) = 0
<1> DEFINE c == req[w]
<1>1. FreshInv /\ Started(c) /\ Measured(c)
  BY DEF CapInv, Started
<1>2. /\ c \in CreateRequest /\ RequestFine(c) /\ c.payer \in Users /\ c.receiver \in Users
      /\ c.op \in {"group", "global", "offset"} /\ c.cap \in Int
      /\ c.amount \in Nat \ {0} /\ c.plan \in [Places -> Nat]
  BY <1>1, RequestType DEF RequestFine
<1>3. c.step \in {"checked", "planned"} /\ (c.step = "planned" <=> c.op = "global") /\ NewRows(c) # {}
  OBVIOUS
<1> HIDE DEF c
<1> DEFINE s == SumFunction(c.plan)
<1>4. s = SumFunctionOnSet(c.plan, Places) /\ s \in Nat
  <2>1. SumFunctionOnSet(c.plan, Places) \in Nat
    BY <1>2, PlacesAreFinite, SumIsNat
  <2>2. QED
    BY <1>2, <2>1 DEF SumFunction
<1>5. Leftover(c.plan, c.amount) = NonNegative(c.amount - s)
  BY DEF Leftover
<1> HIDE DEF s
<1>6. CASE c.op = "offset"
  <2>1. ~(Leftover(c.plan, c.amount) > 0)
    BY <1>3, <1>6 DEF NewRows
  <2>2. QED
    BY <1>2, <1>4, <1>5, <2>1 DEF NonNegative, c
<1>7. CASE c.op = "global"
  <2> DEFINE f == [g \in Places |-> Owed(c.payer, c.receiver, g)]
             n == Net(c.payer, c.receiver)
  <2>1. n = SumFunctionOnSet(f, Places) /\ n \in Int
    BY <1>1, <1>2, NetType
  <2>2. c.plan = Breakdown(c.payer, c.receiver)
    BY <1>1, <1>3, <1>7 DEF Measured
  <2>3. ASSUME NEW g \in Places
        PROVE  f[g] \in Int /\ c.plan[g] \in Int /\ f[g] <= c.plan[g]
    <3>1. Owed(c.payer, c.receiver, g) \in Int /\ c.plan[g] = NonNegative(Owed(c.payer, c.receiver, g))
      BY <1>1, <1>2, <2>2, OwedType DEF Breakdown
    <3>2. QED
      BY <3>1 DEF NonNegative
  <2> HIDE DEF f
  <2>4. SumFunctionOnSet(f, Places) <= SumFunctionOnSet(c.plan, Places)
    BY <2>3, PlacesAreFinite, SumMono
  <2>5. c.cap = NonNegative(n) /\ c.amount + PendingFor(c) <= c.cap /\ PendingFor(c) \in Nat
    BY <1>1, <1>3, <1>7, PendingType DEF Measured, Cap, PendingFor
  <2> HIDE DEF n
  <2>6. c.amount <= n
    BY <1>2, <2>1, <2>5 DEF NonNegative
  <2>7. c.amount <= s
    BY <1>2, <1>4, <2>1, <2>4, <2>6
  <2>8. QED
    BY <1>2, <1>4, <1>5, <2>7 DEF NonNegative, c
<1>8. QED
  BY <1>2, <1>6, <1>7 DEF c

\* What an insertion does to what is owed.
OwedGains(c) ==
    \A u, v \in Users : \A g \in Places :
       Owed(u, v, g)' = Owed(u, v, g) - Gain(c, u, v, g) + Gain(c, v, u, g)

LEMMA InsertGains ==
    ASSUME CapInv, NEW w \in Workers, Insert(w), NewRows(req[w]) # {}
    PROVE  NewRowsFit(req[w]) /\ OwedGains(req[w]) /\ GainFine(req[w])
<1> DEFINE c == req[w]
<1>1. FreshInv /\ Started(c) /\ (c.op # "group" => Leftover(c.plan, c.amount) = 0)
  BY NothingLeft DEF CapInv, Started, Insert
<1>2. NewRowsFit(c) /\ GainFine(c)
  BY <1>1, NewRowsAre, GainType
<1>3. rows' = rows \cup NewRows(c) /\ disputed' = disputed /\ split' = split
  BY DEF Insert
<1>4. ASSUME NEW u \in Users, NEW v \in Users, NEW g \in Places
      PROVE  Owed(u, v, g)' = Owed(u, v, g) - Gain(c, u, v, g) + Gain(c, v, u, g)
  <2> DEFINE m == Gain(c, u, v, g)
             n == Gain(c, v, u, g)
             p == Paid(u, v, g)
             q == Paid(v, u, g)
             a == split[g][u][v]
             b == split[g][v][u]
  <2>1. m \in Nat /\ n \in Nat
    BY <1>2 DEF GainFine
  <2>2. p \in Nat /\ q \in Nat /\ a \in Nat /\ b \in Nat /\ Owed(u, v, g) = a - b - p + q
    BY <1>1, OwedType
  <2>3. Paid(u, v, g)' = p + m /\ Paid(v, u, g)' = q + n
    BY <1>1, <1>2, <1>3, PaidGains
  <2>4. Owed(u, v, g)' = a - b - Paid(u, v, g)' + Paid(v, u, g)'
    BY <1>3 DEF Owed
  <2> HIDE DEF m, n, p, q, a, b
  <2>5. Owed(u, v, g)' = Owed(u, v, g) - m + n
    BY <2>1, <2>2, <2>3, <2>4
  <2>6. QED
    BY <2>5 DEF m, n
<1>5. QED
  BY <1>2, <1>4 DEF OwedGains

\* A gain is covered by what is owed, and nothing is gained both ways.
LEMMA GainIsCovered ==
    ASSUME CapInv, NEW w \in Workers, Insert(w), NEW p \in Users, NEW q \in Users,
           NEW g \in Places, Gain(req[w], p, q, g) > 0
    PROVE  Gain(req[w], p, q, g) <= Owed(p, q, g) /\ Gain(req[w], q, p, g) = 0
<1> DEFINE c == req[w]
           n == Gain(c, p, q, g)
<1>1. FreshInv /\ Started(c) /\ Measured(c) /\ c.step \in {"checked", "planned"}
      /\ (c.step = "planned" <=> c.op = "global")
  BY DEF CapInv, Started, Insert
<1>2. /\ c \in CreateRequest /\ c.payer \in Users /\ c.receiver \in Users /\ c.place \in Places
      /\ c.op \in {"group", "global", "offset"} /\ c.cap \in Int /\ c.payer # c.receiver
      /\ c.amount \in Nat \ {0} /\ c.plan \in [Places -> Nat]
  BY <1>1, RequestType DEF RequestFine
<1>3. n > 0
  OBVIOUS
<1>4. /\ c.cap = Cap(c.op, c.payer, c.receiver, c.place)
      /\ c.amount + PendingFor(c) <= c.cap /\ PendingFor(c) \in Nat
  BY <1>1, PendingType DEF Measured, PendingFor
<1>5. Owed(p, q, g) \in Int /\ Owed(c.payer, c.receiver, c.place) \in Int
  BY <1>1, <1>2, OwedType
<1> HIDE DEF c
<1>6. ASSUME c.op \in {"group", "offset"}
      PROVE  c.amount <= Owed(c.payer, c.receiver, c.place)
  <2>1. c.cap = NonNegative(Owed(c.payer, c.receiver, c.place))
    BY <1>4, <1>6 DEF Cap
  <2>2. QED
    BY <1>2, <1>4, <1>5, <2>1 DEF NonNegative
<1>7. CASE c.op = "group"
  <2>1. p = c.payer /\ q = c.receiver /\ g = c.place /\ n = c.amount
    BY <1>3, <1>7 DEF Gain
  <2>2. Gain(c, q, p, g) = 0
    BY <1>2, <1>7, <2>1 DEF Gain
  <2>3. QED
    BY <1>6, <1>7, <2>1, <2>2 DEF c, n
<1>8. \A h \in Places : Share(c.plan, c.amount, h) \in Nat /\ Share(c.plan, c.amount, h) <= c.plan[h]
  BY <1>2, ShareType
<1>9. CASE c.op = "global"
  <2>1. p = c.payer /\ q = c.receiver /\ n = Share(c.plan, c.amount, g)
    BY <1>3, <1>9 DEF Gain
  <2>2. Gain(c, q, p, g) = 0
    BY <1>2, <1>9, <2>1 DEF Gain
  <2>3. c.plan[g] = NonNegative(Owed(p, q, g))
    BY <1>1, <1>9, <2>1 DEF Measured, Breakdown, c
  <2> HIDE DEF n
  <2>4. n <= c.plan[g] /\ n \in Nat /\ c.plan[g] \in Nat
    BY <1>2, <1>8, <2>1
  <2>5. n <= Owed(p, q, g)
    BY <1>3, <1>5, <2>3, <2>4 DEF NonNegative
  <2>6. QED
    BY <2>2, <2>5 DEF c, n
<1>10. CASE c.op = "offset"
  <2> DEFINE b == Breakdown(c.receiver, c.payer)
  <2>1. c.plan = [b EXCEPT ![c.place] = 0] /\ b \in [Places -> Nat]
    BY <1>1, <1>2, <1>10, BreakdownType DEF Measured, ReverseDebts, Without, c
  <2>2. c.plan[c.place] = 0 /\ \A h \in Places \ {c.place} : c.plan[h] = b[h]
    <3> HIDE DEF b
    <3>1. QED
      BY <1>2, <2>1
  <2>3. Share(c.plan, c.amount, c.place) = 0
    BY <1>2, <1>8, <2>2
  <2>4. CASE p = c.payer /\ q = c.receiver
    <3>1. g = c.place /\ n = c.amount
      BY <1>2, <1>3, <1>10, <2>4 DEF Gain
    <3>2. Gain(c, q, p, g) = 0
      BY <1>2, <1>10, <2>3, <2>4, <3>1 DEF Gain
    <3>3. QED
      BY <1>6, <1>10, <2>4, <3>1, <3>2 DEF c, n
  <2>5. CASE ~(p = c.payer /\ q = c.receiver)
    <3>1. p = c.receiver /\ q = c.payer /\ n = Share(c.plan, c.amount, g)
      BY <1>3, <1>10, <2>5 DEF Gain
    <3>2. g # c.place
      BY <1>3, <2>3, <3>1
    <3>3. Gain(c, q, p, g) = 0
      BY <1>2, <1>10, <3>1, <3>2 DEF Gain
    <3>4. c.plan[g] = NonNegative(Owed(p, q, g))
      BY <2>2, <3>1, <3>2 DEF Breakdown
    <3> HIDE DEF n
    <3>5. n <= c.plan[g] /\ n \in Nat /\ c.plan[g] \in Nat
      BY <1>2, <1>8, <3>1
    <3>6. n <= Owed(p, q, g)
      BY <1>3, <1>5, <3>4, <3>5 DEF NonNegative
    <3>7. QED
      BY <3>3, <3>6 DEF c, n
  <2>6. QED
    BY <2>4, <2>5
<1>11. QED
  BY <1>2, <1>7, <1>9, <1>10

LEMMA InsertIsCovered ==
    ASSUME CapInv, NEW w \in Workers, Insert(w), NEW r \in rows' \ rows
    PROVE  Owed(r.payer, r.receiver, r.place)' >= 0
<1> DEFINE c == req[w]
<1>1. r \in NewRows(c) /\ FreshInv /\ Started(c)
  BY DEF Insert, CapInv, Started
<1>2. NewRowsFit(c) /\ OwedGains(c) /\ GainFine(c)
  BY <1>1, InsertGains
<1>3. c.payer \in Users /\ c.receiver \in Users
  BY <1>1, RequestType
<1>4. PICK p, q \in {c.payer, c.receiver}, g \in Places :
        Gain(c, p, q, g) > 0 /\ r = PlainRow(c, p, q, g, Gain(c, p, q, g))
  BY <1>1, <1>2 DEF NewRowsFit
<1>5. r.payer = p /\ r.receiver = q /\ r.place = g /\ p \in Users /\ q \in Users
  BY <1>3, <1>4 DEF PlainRow
<1>6. Gain(c, p, q, g) <= Owed(p, q, g) /\ Gain(c, q, p, g) = 0
  BY <1>4, <1>5, GainIsCovered
<1>7. Owed(p, q, g)' = Owed(p, q, g) - Gain(c, p, q, g) + Gain(c, q, p, g)
  BY <1>2, <1>5 DEF OwedGains
<1>8. Owed(p, q, g) \in Int /\ Gain(c, p, q, g) \in Nat
  BY <1>1, <1>2, <1>5, OwedType DEF GainFine
<1>9. Owed(p, q, g)' >= 0
  BY <1>6, <1>7, <1>8
<1>10. QED
  BY <1>5, <1>9

\* Served one at a time, requests never record more than the payer owes in that
\* place, whatever is pending and however a settlement is spread over places (the
\* caps of TransactionService.create and create_offset).
THEOREM OneWorkerNeverOverRecorded ==
    ASSUME \A v, w \in Workers : v = w
    PROVE  Spec => NeverOverRecorded
<1> DEFINE Covered == \A r \in rows' \ rows : Owed(r.payer, r.receiver, r.place)' >= 0
<1>1. Init => CapInv
  BY InitFresh DEF CapInv, Init, Started, Idle
<1>2. CapInv /\ [Next]_vars => CapInv'
  BY NextKeepsCap
<1>3. CapInv /\ [Next]_vars => [Covered]_vars
  <2> SUFFICES ASSUME CapInv, [Next]_vars, rows' # rows
               PROVE  Covered
    OBVIOUS
  <2>1. PICK w \in Workers : Insert(w)
    BY DEF Next, vars, db, EditExpenses, BeginCreate, Admit, Refuse, Plan, BeginResolve, Confirm, Dispute
  <2>2. QED
    BY <2>1, InsertIsCovered
<1> HIDE DEF Covered
<1>4. Spec => [][Covered]_vars
  BY <1>1, <1>2, <1>3, PTL DEF Spec
<1>5. QED
  BY <1>4 DEF Covered, NeverOverRecorded

-------------------------------------------------------------------------------
(* An offset changes no net.                                                *)

\* What is taken in some places and given in others.
LEMMA SumsShift ==
    ASSUME NEW S, IsFiniteSet(S), NEW f, NEW g, NEW a, NEW b,
           \A x \in S : f[x] \in Int /\ a[x] \in Int /\ b[x] \in Int /\ g[x] = f[x] - a[x] + b[x],
           SumFunctionOnSet(a, S) = SumFunctionOnSet(b, S)
    PROVE  SumFunctionOnSet(g, S) = SumFunctionOnSet(f, S)
<1> DEFINE k == [x \in S |-> f[x] + b[x]]
<1>1. \A x \in S : /\ f[x] \in Int /\ a[x] \in Int /\ b[x] \in Int /\ g[x] \in Int
                   /\ k[x] = f[x] + b[x] /\ k[x] = g[x] + a[x]
  OBVIOUS
<1> HIDE DEF k
<1>2. SumFunctionOnSet(k, S) = SumFunctionOnSet(f, S) + SumFunctionOnSet(b, S)
  BY <1>1, SumPlus
<1>3. SumFunctionOnSet(k, S) = SumFunctionOnSet(g, S) + SumFunctionOnSet(a, S)
  BY <1>1, SumPlus
<1>4. /\ SumFunctionOnSet(f, S) \in Int /\ SumFunctionOnSet(g, S) \in Int
      /\ SumFunctionOnSet(a, S) \in Int
  BY <1>1, SumType
<1>5. QED
  BY <1>2, <1>3, <1>4

\* A sum with one term.
LEMMA SumOfOne ==
    ASSUME NEW S, IsFiniteSet(S), NEW x \in S, NEW n \in Int,
           NEW f, \A y \in S : f[y] = IF y = x THEN n ELSE 0
    PROVE  SumFunctionOnSet(f, S) = n
<1> DEFINE T == S \ {x}
<1>1. IsFiniteSet(T) /\ \A y \in S : f[y] \in Int
  BY FS_RemoveElement
<1>2. SumFunctionOnSet(f, S) = f[x] + SumFunctionOnSet(f, T)
  BY <1>1, SumRemove
<1>3. \A y \in T : f[y] \in Int /\ f[y] = 0
  OBVIOUS
<1> HIDE DEF T
<1>4. SumFunctionOnSet(f, T) = 0
  <2> DEFINE Good == {U \in SUBSET T : SumFunctionOnSet(f, U) = 0}
  <2>1. {} \in Good
    BY SumEmpty
  <2>2. ASSUME NEW U \in SUBSET T, NEW y \in T, U \in Good, y \notin U
        PROVE  U \cup {y} \in Good
    <3>1. IsFiniteSet(U) /\ \A t \in U \cup {y} : f[t] \in Int
      BY <1>1, <1>3, FS_Subset
    <3>2. SumFunctionOnSet(f, U \cup {y}) = f[y] + SumFunctionOnSet(f, U)
      BY <2>2, <3>1, SumAdd
    <3>3. QED
      BY <1>3, <2>2, <3>2
  <2>3. T \in Good
    <3> HIDE DEF Good
    <3>1. QED
      BY <1>1, <2>1, <2>2, SetInduction
  <2>4. QED
    BY <2>3
<1>5. f[x] = n
  OBVIOUS
<1>6. QED
  BY <1>2, <1>4, <1>5

\* The two legs of an offset are of one amount.
LEMMA LegsBalance ==
    ASSUME CapInv, NEW w \in Workers, Insert(w), req[w].op = "offset", NewRows(req[w]) # {},
           NEW u \in Users, NEW v \in Users, u # v,
           NEW a, a = [g \in Places |-> Gain(req[w], u, v, g)],
           NEW b, b = [g \in Places |-> Gain(req[w], v, u, g)]
    PROVE  SumFunctionOnSet(a, Places) = SumFunctionOnSet(b, Places)
<1> DEFINE c == req[w]
           share == [g \in Places |-> Share(c.plan, c.amount, g)]
           direct == [g \in Places |-> IF g = c.place THEN c.amount ELSE 0]
<1>1. FreshInv /\ Started(c) /\ c.op = "offset"
  BY DEF CapInv, Started, Insert
<1>2. /\ c.payer \in Users /\ c.receiver \in Users /\ c.place \in Places /\ c.payer # c.receiver
      /\ c.amount \in Nat \ {0} /\ c.plan \in [Places -> Nat]
  BY <1>1, RequestType DEF RequestFine
<1>3. Leftover(c.plan, c.amount) = 0
  BY <1>1, NothingLeft DEF Insert
<1> HIDE DEF c
<1>4. SumFunctionOnSet(share, Places) = c.amount
  BY <1>2, <1>3, SharesAddUp
<1>5. SumFunctionOnSet(direct, Places) = c.amount
  <2> DEFINE n == c.amount
             x == c.place
  <2>1. n \in Int /\ x \in Places /\ \A g \in Places : direct[g] = IF g = x THEN n ELSE 0
    BY <1>2
  <2> HIDE DEF direct, n, x
  <2>2. SumFunctionOnSet(direct, Places) = n
    BY <2>1, PlacesAreFinite, SumOfOne
  <2>3. QED
    BY <2>2 DEF n
<1>6. a = [g \in Places |-> Gain(c, u, v, g)] /\ b = [g \in Places |-> Gain(c, v, u, g)]
  BY DEF c
<1>7. CASE u = c.payer /\ v = c.receiver
  <2>1. a = direct /\ b = share
    BY <1>1, <1>2, <1>6, <1>7 DEF Gain
  <2>2. QED
    BY <1>4, <1>5, <2>1
<1>8. CASE v = c.payer /\ u = c.receiver
  <2>1. b = direct /\ a = share
    BY <1>1, <1>2, <1>6, <1>8 DEF Gain
  <2>2. QED
    BY <1>4, <1>5, <2>1
<1>9. CASE ~(u = c.payer /\ v = c.receiver) /\ ~(v = c.payer /\ u = c.receiver)
  <2>1. a = [g \in Places |-> 0] /\ b = [g \in Places |-> 0]
    BY <1>1, <1>6, <1>9 DEF Gain
  <2>2. QED
    BY <2>1
<1>10. QED
  BY <1>7, <1>8, <1>9

LEMMA OffsetsBalance ==
    ASSUME CapInv, NEW w \in Workers, Insert(w), req[w].op = "offset", rows' # rows,
           NEW u \in Users, NEW v \in Users, u # v
    PROVE  Net(u, v)' = Net(u, v)
<1> DEFINE c == req[w]
           f == [g \in Places |-> Owed(u, v, g)]
           h == [g \in Places |-> Owed(u, v, g)']
           a == [g \in Places |-> Gain(c, u, v, g)]
           b == [g \in Places |-> Gain(c, v, u, g)]
<1>1. NewRows(c) # {} /\ FreshInv
  BY DEF Insert, CapInv
<1>2. OwedGains(c) /\ GainFine(c)
  BY <1>1, InsertGains
<1>3. SumFunctionOnSet(a, Places) = SumFunctionOnSet(b, Places)
  BY <1>1, LegsBalance
<1>4. \A g \in Places : /\ f[g] \in Int /\ a[g] \in Int /\ b[g] \in Int
                        /\ h[g] = f[g] - a[g] + b[g]
  <2> SUFFICES ASSUME NEW g \in Places
               PROVE  /\ f[g] \in Int /\ a[g] \in Int /\ b[g] \in Int
                      /\ h[g] = f[g] - a[g] + b[g]
    OBVIOUS
  <2>1. Owed(u, v, g)' = Owed(u, v, g) - Gain(c, u, v, g) + Gain(c, v, u, g)
    BY <1>2 DEF OwedGains
  <2>2. Gain(c, u, v, g) \in Nat /\ Gain(c, v, u, g) \in Nat
    BY <1>2 DEF GainFine
  <2>3. Owed(u, v, g) \in Int
    BY <1>1, OwedType
  <2>4. QED
    BY <2>1, <2>2, <2>3
<1>5. Net(u, v) = SumFunctionOnSet(f, Places) /\ Net(u, v)' = SumFunctionOnSet(h, Places)
  BY DEF Net, SumFunction
<1> HIDE DEF f, h, a, b
<1>6. SumFunctionOnSet(h, Places) = SumFunctionOnSet(f, Places)
  BY <1>3, <1>4, PlacesAreFinite, SumsShift
<1>7. QED
  BY <1>5, <1>6

\* Served one at a time, an offset pays in one place what it takes back in others,
\* to the cent and for all pairs of users (create_offset and the waterfall).
THEOREM OneWorkerKeepsNet ==
    ASSUME \A v, w \in Workers : v = w
    PROVE  Spec => OffsetKeepsNet
<1> DEFINE Kept == \A w \in Workers :
                      (req[w].step = "checked" /\ req[w].op = "offset" /\ rows' # rows)
                         => \A u, v \in Users : u # v => Net(u, v)' = Net(u, v)
<1>1. Init => CapInv
  BY InitFresh DEF CapInv, Init, Started, Idle
<1>2. CapInv /\ [Next]_vars => CapInv'
  BY NextKeepsCap
<1>3. CapInv /\ [Next]_vars => [Kept]_vars
  <2> SUFFICES ASSUME CapInv, [Next]_vars, rows' # rows
               PROVE  Kept
    OBVIOUS
  <2>1. PICK w \in Workers : Insert(w)
    BY DEF Next, vars, db, EditExpenses, BeginCreate, Admit, Refuse, Plan, BeginResolve, Confirm, Dispute
  <2>2. \A v \in Workers : v = w
    OBVIOUS
  <2>3. req[w].op = "offset" => \A u, v \in Users : u # v => Net(u, v)' = Net(u, v)
    BY <2>1, OffsetsBalance
  <2>4. QED
    BY <2>2, <2>3
<1> HIDE DEF Kept
<1>4. Spec => [][Kept]_vars
  BY <1>1, <1>2, <1>3, PTL DEF Spec
<1>5. QED
  BY <1>4 DEF Kept, OffsetKeepsNet
===============================================================================
