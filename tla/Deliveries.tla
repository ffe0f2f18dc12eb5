------------------------------ MODULE Deliveries -------------------------------
(***************************************************************************)
(* News of expenses and payments: the mails and pushes that requests queue *)
(* after their commit, and the Celery tasks that deliver them.  A message  *)
(* names the row, the task reads the row when it runs.  What the requests  *)
(* check is in Expenses and Settlements; devices, preferences, templates   *)
(* and wording are left out.                                               *)
(***************************************************************************)
EXTENDS Integers, Sequences, FiniteSets

CONSTANTS
    Users,
    Author,             \* who created the expenses, and edits them
    Expenses, Payments,
    Parties,            \* Parties[p]: the payer and the receiver of payment p
    Celery,             \* processes running tasks
    MaxRetries,         \* of a task
    MaxEdits,           \* bound: versions of an expense
    MaxFaults           \* bound: outages of the broker, Brevo or FCM, lost processes

Rows == Expenses \cup Payments

ASSUME ParametersAssumption ==
    /\ Expenses \cap Payments = {} /\ Parties \in [Payments -> Users \X Users]
    /\ MaxRetries \in Nat /\ MaxEdits \in Nat /\ MaxFaults \in Nat
    /\ IsFiniteSet(Celery) /\ IsFiniteSet(Users)

VARIABLES
    version,    \* version[x]: 0 no row yet; 1 and up: times splits were written,
                \* of a payment 1 recorded, 2 confirmed
    sharers,    \* sharers[x]: whom the splits of an expense name
    deleted,    \* soft-deleted expenses
    queue,      \* messages waiting at the broker
    job,        \* what each Celery process is doing
    told,       \* told[x][u]: the version of row and share in the last mail to u
    notices,    \* notices[x][u]: rows of notifications
    spoiled,    \* history: rows deleted once, or whose messages were not all queued
    faults      \* so far

rows == <<version, sharers, deleted, spoiled>>
vars == <<rows, queue, job, told, notices, faults>>

Idle == [step |-> "idle"]
Last(x) == IF x \in Expenses THEN MaxEdits ELSE 2
Numbers == 0 .. (IF MaxEdits > 2 THEN MaxEdits ELSE 2)
News == [row : Numbers, share : Numbers]

Recipients == {<<u>> : u \in Users} \cup Users \X Users

\* of: the version that queued it, which no task looks at; it tells messages apart.
Message == [task : {"mail", "push"}, about : Rows, to : Recipients,
            of : Numbers, tries : 0 .. MaxRetries]
Job == [message : Message, step : {"start", "loaded", "ready"}, news : News, next : {1, 2}]

TypeOK ==
    /\ version \in [Rows -> Numbers] /\ sharers \in [Expenses -> SUBSET Users]
    /\ deleted \subseteq Expenses /\ spoiled \subseteq Rows
    /\ queue \subseteq Message
    /\ job \in [Celery -> Job \cup {Idle}]
    /\ told \in [Rows -> [Users -> News]]
    /\ notices \in [Rows -> [Users -> Nat]]
    /\ faults \in 0 .. MaxFaults

Init ==
    /\ version = [x \in Rows |-> 0] /\ sharers = [x \in Expenses |-> {}]
    /\ deleted = {} /\ spoiled = {}
    /\ queue = {} /\ job = [c \in Celery |-> Idle]
    /\ told = [x \in Rows |-> [u \in Users |-> [row |-> 0, share |-> 0]]]
    /\ notices = [x \in Rows |-> [u \in Users |-> 0]]
    /\ faults = 0

Fault == faults < MaxFaults /\ faults' = faults + 1

-------------------------------------------------------------------------------
(* Requests.                                                                 *)

About(t, x, to) ==
    [task |-> t, about |-> x, to |-> to, of |-> version[x] + 1, tries |-> 0]

\* After the commit; what a broker that is down refuses is logged (expenses) or
\* answered with a 500 (payments), and lost.
Publish(x, messages) ==
    \/ /\ queue' = queue \cup messages
       /\ UNCHANGED <<spoiled, faults>>
    \/ /\ Fault
       /\ \E lost \in SUBSET messages :
             lost # {} /\ queue' = queue \cup (messages \ lost)
       /\ spoiled' = spoiled \cup {x}

\* create and full_update: the splits are replaced, everybody who has one is
\* written to.
WriteSplits(x, S) ==
    /\ version[x] < Last(x) /\ x \notin deleted
    /\ version' = [version EXCEPT ![x] = @ + 1] /\ sharers' = [sharers EXCEPT ![x] = S]
    /\ Publish(x, {About("mail", x, <<u>>) : u \in S} \cup {About("push", x, <<u>>) : u \in S})
    /\ UNCHANGED <<deleted, job, told, notices>>

DeleteOrRestore(x) ==
    /\ version[x] > 0
    /\ deleted' = IF x \in deleted THEN deleted \ {x} ELSE deleted \cup {x}
    /\ spoiled' = spoiled \cup {x}
    /\ UNCHANGED <<version, sharers, queue, job, told, notices, faults>>

\* A payment is recorded, then confirmed; a disputed one brings no news.
RecordOrConfirm(p) ==
    /\ version[p] < Last(p)
    /\ version' = [version EXCEPT ![p] = @ + 1]
    /\ Publish(p, {About("mail", p, Parties[p])})
    /\ UNCHANGED <<sharers, deleted, job, told, notices>>

-------------------------------------------------------------------------------
(* Tasks.  A message is acknowledged when its task has ended.                *)

Doing(c, t, step) ==
    job[c] # Idle /\ job[c].message.task = t /\ job[c].step = step
Subject(c) == job[c].message.about
Recipient(c) == job[c].message.to[job[c].next]
Ended(c) == job' = [job EXCEPT ![c] = Idle]

Take(c, m) ==
    /\ job[c] = Idle /\ m \in queue
    /\ job' = [job EXCEPT ![c] =
          [message |-> m, step |-> "start", news |-> [row |-> 0, share |-> 0], next |-> 1]]
    /\ queue' = queue \ {m}
    /\ UNCHANGED <<rows, told, notices, faults>>

\* Mutant of Requeued: the last retry is missing.
RequeuedLess(m) ==
    IF m.tries + 1 < MaxRetries THEN {[m EXCEPT !.tries = @ + 1]} ELSE {}

\* self.retry: the message comes back until its tries are used up.
Requeued(m) == IF m.tries < MaxRetries THEN {[m EXCEPT !.tries = @ + 1]} ELSE {}

Retry(c) == Ended(c) /\ queue' = queue \cup Requeued(job[c].message)

\* Mutant of Current: the message has it from the request.
CurrentWhenQueued(c) == job[c].message.of

Current(c) == version[Subject(c)]

\* The row of an expense; its creator gets no mail, a deleted one is not found.
LoadExpense(c) ==
    /\ Doing(c, "mail", "start") /\ Subject(c) \in Expenses
    /\ IF Subject(c) \in deleted THEN Retry(c)
       ELSE /\ IF Recipient(c) = Author THEN Ended(c)
               ELSE job' = [job EXCEPT ![c].step = "loaded", ![c].news.row = Current(c)]
            /\ UNCHANGED queue
    /\ UNCHANGED <<rows, told, notices, faults>>

\* The recipient's split, which need not exist any more, in a query of its own.
LoadShare(c) ==
    /\ Doing(c, "mail", "loaded")
    /\ job' = [job EXCEPT ![c].step = "ready", ![c].news.share = Current(c)]
    /\ UNCHANGED <<rows, queue, told, notices, faults>>

LoadPayment(c) ==
    /\ Doing(c, "mail", "start") /\ Subject(c) \in Payments
    /\ job' = [job EXCEPT ![c].step = "ready",
                          ![c].news = [row |-> Current(c), share |-> Current(c)]]
    /\ UNCHANGED <<rows, queue, told, notices, faults>>

\* Brevo takes the mail; a payment's goes to the payer, then to the receiver.
SendMail(c) ==
    /\ Doing(c, "mail", "ready")
    /\ told' = [told EXCEPT ![Subject(c)][Recipient(c)] = job[c].news]
    /\ IF job[c].next < Len(job[c].message.to)
       THEN job' = [job EXCEPT ![c].next = @ + 1]
       ELSE Ended(c)
    /\ UNCHANGED <<rows, queue, notices, faults>>

\* A push about an expense that is gone, or to its creator, is not sent.
LoadPush(c) ==
    /\ Doing(c, "push", "start")
    /\ IF Subject(c) \in deleted \/ Recipient(c) = Author THEN Ended(c)
       ELSE job' = [job EXCEPT ![c].step = "loaded"]
    /\ UNCHANGED <<rows, queue, told, notices, faults>>

\* Mutant of Noticed: everybody who has a share.
NoticedAll(c) == sharers[Subject(c)]

Noticed(c) == {Recipient(c)}

CreateNotice(c) ==
    /\ Doing(c, "push", "loaded")
    /\ notices' = [notices EXCEPT ![Subject(c)] =
                      [u \in Users |-> IF u \in Noticed(c) THEN @[u] + 1 ELSE @[u]]]
    /\ job' = [job EXCEPT ![c].step = "ready"]
    /\ UNCHANGED <<rows, queue, told, faults>>

\* FCM takes the push, or the user has no device.
SendPush(c) ==
    /\ Doing(c, "push", "ready")
    /\ Ended(c)
    /\ UNCHANGED <<rows, queue, told, notices, faults>>

\* Brevo or FCM raises; the task starts over with the first recipient.
SendingFails(c) ==
    /\ job[c] # Idle /\ job[c].step = "ready" /\ Fault
    /\ Retry(c)
    /\ UNCHANGED <<rows, told, notices>>

\* task_reject_on_worker_lost: the same message comes back.
WorkerLost(c) ==
    /\ job[c] # Idle /\ Fault
    /\ queue' = queue \cup {job[c].message}
    /\ Ended(c)
    /\ UNCHANGED <<rows, told, notices>>

-------------------------------------------------------------------------------
Run(c) ==
    \/ LoadExpense(c) \/ LoadShare(c) \/ LoadPayment(c) \/ SendMail(c)
    \/ LoadPush(c) \/ CreateNotice(c) \/ SendPush(c)
TakeAny == \E c \in Celery : \E m \in queue : Take(c, m)

Next ==
    \/ \E x \in Expenses :
          \/ \E S \in (SUBSET Users) \ {{}} : WriteSplits(x, S)
          \/ DeleteOrRestore(x)
    \/ \E p \in Payments : RecordOrConfirm(p)
    \/ TakeAny
    \/ \E c \in Celery : Run(c) \/ SendingFails(c) \/ WorkerLost(c)

Spec == Init /\ [][Next]_vars

\* Processes work, and the broker hands messages out, in whatever order.
Fairness == WF_vars(TakeAny) /\ \A c \in Celery : WF_vars(Run(c))

FairSpec == Spec /\ Fairness

-------------------------------------------------------------------------------
(* Properties.                                                               *)

\* A later mail never has older news than an earlier one: the row and the share
\* are read when the task runs (send_expense_notification,
\* send_settlement_confirmation).
NewerOnly ==
    \A x \in Rows, u \in Users :
        /\ told'[x][u].row >= told[x][u].row
        /\ told'[x][u].share >= told[x][u].share
NewsInOrder == [][NewerOnly]_vars

\* Creators are not notified; everybody else once for each time the splits were
\* written and for each failure, as every retry creates the notification anew
\* (_deliver_push_to_user).
NoticesBounded ==
    \A x \in Rows, u \in Users :
        notices[x][u] <= IF u = Author THEN 0 ELSE version[x] + faults

Concerned(x, u) ==
    IF x \in Expenses THEN u \in sharers[x] \ {Author}
    ELSE version[x] > 0 /\ u \in {Parties[x][1], Parties[x][2]}

\* With no more failures than retries, everybody a row concerns has a mail with
\* what it says last.
Informed(x, u) ==
    Concerned(x, u) /\ x \notin spoiled /\ faults <= MaxRetries
        => told[x][u] = [row |-> version[x], share |-> version[x]]

\* However often FCM fails, they find a notification in the app.
Notified(x, u) ==
    x \in Expenses /\ Concerned(x, u) /\ x \notin spoiled => notices[x][u] > 0

\* In the end everybody knows (send_expense_notification, send_expense_created_push,
\* send_settlement_confirmation).
NewsArrives == \A x \in Rows, u \in Users : <>[](Informed(x, u) /\ Notified(x, u))
===============================================================================
