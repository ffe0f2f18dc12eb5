--------------------------- MODULE DeliveriesProofs ----------------------------
(***************************************************************************)
(* Type correctness of Deliveries, how many notifications anybody can find *)
(* for any number of processes and failures, and that mails come in order  *)
(* with one process.                                                       *)
(***************************************************************************)
EXTENDS MCDeliveries, FiniteSetTheorems, TLAPS

LEMMA IdleIsNoJob == Idle \notin Job
BY DEF Idle, Job

LEMMA JobType ==
    ASSUME TypeOK, NEW c \in Celery, job[c] # Idle
    PROVE  /\ job[c] \in Job /\ job[c].message \in Message
           /\ Subject(c) \in Rows /\ Current(c) \in Numbers
<1>1. job[c] \in Job
  BY DEF TypeOK
<1>2. QED
  BY <1>1 DEF TypeOK, Job, Message, Subject, Current

LEMMA StepsType ==
    ASSUME TypeOK, NEW c \in Celery, job[c] # Idle
    PROVE  /\ [job[c] EXCEPT !.step = "loaded", !.news.row = Current(c)] \in Job
           /\ [job[c] EXCEPT !.step = "ready", !.news.share = Current(c)] \in Job
           /\ [job[c] EXCEPT !.step = "ready",
                             !.news = [row |-> Current(c), share |-> Current(c)]] \in Job
           /\ [job[c] EXCEPT !.step = "loaded"] \in Job
           /\ [job[c] EXCEPT !.step = "ready"] \in Job
BY JobType DEF Job, News

LEMMA RecipientsType ==
    ASSUME NEW to \in Recipients
    PROVE  Len(to) \in Nat /\ Len(to) <= 2
<1>1. CASE to \in {<<u>> : u \in Users}
  <2>1. PICK u \in Users : to = <<u>>
    BY <1>1
  <2>2. QED
    BY <2>1
<1>2. CASE to \in Users \X Users
  <2>1. PICK u \in Users, v \in Users : to = <<u, v>>
    BY <1>2
  <2>2. QED
    BY <2>1
<1>3. QED
  BY <1>1, <1>2 DEF Recipients

LEMMA VersionType ==
    ASSUME TypeOK, NEW x \in Rows, version[x] < Last(x)
    PROVE  version[x] \in Nat /\ version[x] + 1 \in Numbers
BY ParametersAssumption DEF TypeOK, Numbers, Last

LEMMA AboutType ==
    ASSUME TypeOK, NEW x \in Rows, version[x] < Last(x), NEW t \in {"mail", "push"},
           NEW to \in Recipients
    PROVE  About(t, x, to) \in Message
<1>1. 0 \in 0 .. MaxRetries
  BY ParametersAssumption
<1>2. QED
  BY <1>1, VersionType DEF About, Message

LEMMA FaultType == TypeOK /\ Fault => faults' \in 0 .. MaxFaults /\ faults' = faults + 1
BY ParametersAssumption DEF TypeOK, Fault

LEMMA RequeuedType ==
    ASSUME NEW m \in Message
    PROVE  Requeued(m) \subseteq Message
<1>1. m.tries < MaxRetries => m.tries + 1 \in 0 .. MaxRetries
  BY ParametersAssumption DEF Message
<1>2. QED
  BY <1>1 DEF Requeued, Message

-------------------------------------------------------------------------------
LEMMA InitIsTyped == Init => TypeOK
<1>1. 0 \in Numbers /\ 0 \in 0 .. MaxFaults
  BY ParametersAssumption DEF Numbers
<1>2. QED
  BY <1>1 DEF Init, TypeOK, News

LEMMA RequestTyped ==
    ASSUME TypeOK,
           \/ \E x \in Expenses :
                 (\E S \in (SUBSET Users) \ {{}} : WriteSplits(x, S)) \/ DeleteOrRestore(x)
           \/ \E p \in Payments : RecordOrConfirm(p)
    PROVE  TypeOK'
<1>1. ASSUME NEW x \in Rows, NEW messages \in SUBSET Message, Publish(x, messages)
      PROVE  queue' \subseteq Message /\ spoiled' \subseteq Rows /\ faults' \in 0 .. MaxFaults
  BY <1>1, FaultType DEF Publish, TypeOK
<1>2. ASSUME NEW x \in Expenses, NEW S \in (SUBSET Users) \ {{}}, WriteSplits(x, S)
      PROVE  TypeOK'
  <2> DEFINE messages == {About("mail", x, <<u>>) : u \in S} \cup {About("push", x, <<u>>) : u \in S}
  <2>1. x \in Rows /\ version[x] < Last(x)
    BY <1>2 DEF WriteSplits, Rows
  <2>2. ASSUME NEW t \in {"mail", "push"}, NEW u \in S
        PROVE  About(t, x, <<u>>) \in Message
    BY <2>1, AboutType DEF Recipients
  <2>3. messages \subseteq Message
    BY <2>2
  <2>7. version[x] + 1 \in Numbers
    BY <2>1, VersionType
  <2>4. /\ version' = [version EXCEPT ![x] = @ + 1] /\ sharers' = [sharers EXCEPT ![x] = S]
        /\ Publish(x, messages) /\ UNCHANGED <<deleted, job, told, notices>>
    BY <1>2 DEF WriteSplits
  <2> HIDE DEF messages
  <2>5. queue' \subseteq Message /\ spoiled' \subseteq Rows /\ faults' \in 0 .. MaxFaults
    BY <1>1, <2>1, <2>3, <2>4
  <2>6. QED
    BY <2>4, <2>5, <2>7 DEF TypeOK
<1>3. ASSUME NEW x \in Expenses, DeleteOrRestore(x)
      PROVE  TypeOK'
  BY <1>3 DEF DeleteOrRestore, TypeOK, Rows
<1>4. ASSUME NEW p \in Payments, RecordOrConfirm(p)
      PROVE  TypeOK'
  <2>1. p \in Rows /\ version[p] < Last(p) /\ Parties[p] \in Recipients
    BY <1>4, ParametersAssumption DEF RecordOrConfirm, Recipients, Rows
  <2>2. {About("mail", p, Parties[p])} \subseteq Message /\ version[p] + 1 \in Numbers
    BY <2>1, AboutType, VersionType
  <2>3. QED
    BY <1>1, <1>4, <2>1, <2>2 DEF RecordOrConfirm, TypeOK
<1>5. QED
  BY <1>2, <1>3, <1>4

LEMMA TaskTyped ==
    ASSUME TypeOK, NEW c \in Celery,
           \/ \E m \in queue : Take(c, m)
           \/ Run(c) \/ SendingFails(c) \/ WorkerLost(c)
    PROVE  TypeOK'
<1> DEFINE Typed == /\ job' \in [Celery -> Job \cup {Idle}] /\ queue' \subseteq Message
<1>1. ASSUME NEW m \in queue, Take(c, m)
      PROVE  TypeOK'
  <2>1. 0 \in Numbers
    BY ParametersAssumption DEF Numbers
  <2>2. [message |-> m, step |-> "start", news |-> [row |-> 0, share |-> 0], next |-> 1] \in Job
    BY <2>1 DEF Job, News, TypeOK
  <2>3. QED
    BY <1>1, <2>2 DEF Take, TypeOK, rows
<1>2. ASSUME job[c] # Idle, Ended(c)
      PROVE  job' \in [Celery -> Job \cup {Idle}]
  BY <1>2 DEF Ended, TypeOK
<1>3. ASSUME job[c] # Idle, Retry(c)
      PROVE  job' \in [Celery -> Job \cup {Idle}] /\ queue' \subseteq Message
  BY <1>2, <1>3, JobType, RequeuedType DEF Retry, TypeOK
<1>4. ASSUME Doing(c, "mail", "ready") \/ Doing(c, "push", "loaded")
      PROVE  job[c] # Idle /\ job[c].news \in News
  BY <1>4, JobType DEF Doing, Job
<1>5. CASE LoadExpense(c)
  BY <1>2, <1>3, StepsType, <1>5 DEF LoadExpense, Doing, TypeOK, rows
<1>6. CASE LoadShare(c)
  BY StepsType, <1>6 DEF LoadShare, Doing, TypeOK, rows
<1>7. CASE LoadPayment(c)
  BY StepsType, <1>7 DEF LoadPayment, Doing, TypeOK, rows
<1>8. CASE SendMail(c)
  <2>1. job[c].next < Len(job[c].message.to) => [job[c] EXCEPT !.next = @ + 1] \in Job
    <3>1. Len(job[c].message.to) <= 2
      <4>1. job[c].message.to \in Recipients
        BY <1>4, <1>8, JobType DEF SendMail, Message
      <4>2. QED
        BY <4>1, RecipientsType
    <3>2. QED
      BY <1>4, <1>8, <3>1, JobType DEF SendMail, Job
  <2>2. QED
    BY <1>2, <1>4, <1>8, <2>1 DEF SendMail, TypeOK, rows
<1>9. CASE LoadPush(c)
  BY <1>2, StepsType, <1>9 DEF LoadPush, Doing, TypeOK, rows
<1>10. CASE CreateNotice(c)
  <2>1. job[c] # Idle
    BY <1>4, <1>10 DEF CreateNotice
  <2>2. notices' \in [Rows -> [Users -> Nat]]
    BY <1>10, <2>1, JobType DEF CreateNotice, TypeOK
  <2>3. QED
    BY StepsType, <1>10, <2>1, <2>2 DEF CreateNotice, TypeOK, rows
<1>11. CASE SendPush(c)
  BY <1>2, <1>11 DEF SendPush, Doing, TypeOK, rows
<1>12. CASE SendingFails(c)
  BY <1>3, <1>12, FaultType DEF SendingFails, TypeOK, rows
<1>13. CASE WorkerLost(c)
  BY <1>2, <1>13, JobType, FaultType DEF WorkerLost, TypeOK, rows
<1>14. QED
  BY <1>1, <1>5, <1>6, <1>7, <1>8, <1>9, <1>10, <1>11, <1>12, <1>13 DEF Run

LEMMA TypeStep == TypeOK /\ [Next]_vars => TypeOK'
<1>1. ASSUME TypeOK, UNCHANGED vars
      PROVE  TypeOK'
  BY <1>1 DEF TypeOK, vars, rows
<1>2. QED
  BY <1>1, RequestTyped, TaskTyped DEF Next, TakeAny

\* Every value of a state of Deliveries is one the model names.
THEOREM TypeCorrect == Spec => []TypeOK
BY InitIsTyped, TypeStep, PTL DEF Spec

-------------------------------------------------------------------------------
(***************************************************************************)
(* Mails in order.  No mail has news from the future, and what a process   *)
(* has read for its mail is no older than what anybody was told, as nobody *)
(* else sends mails meanwhile.                                             *)
(***************************************************************************)
Mailing(c) == job[c] # Idle /\ job[c].message.task = "mail"
RowRead(c) == Mailing(c) /\ job[c].step \in {"loaded", "ready"}
ShareRead(c) == Mailing(c) /\ job[c].step = "ready"

NothingAhead ==
    /\ \A x \in Rows, u \in Users :
          told[x][u].row <= version[x] /\ told[x][u].share <= version[x]
    /\ \A c \in Celery :
          /\ RowRead(c) => job[c].news.row <= version[Subject(c)]
          /\ ShareRead(c) => job[c].news.share <= version[Subject(c)]

OneWorks == \A c, d \in Celery : job[c] # Idle /\ job[d] # Idle => c = d
ReadIsNewest ==
    \A c \in Celery, u \in Users :
        /\ RowRead(c) => told[Subject(c)][u].row <= job[c].news.row
        /\ ShareRead(c) => told[Subject(c)][u].share <= job[c].news.share

MailInv == TypeOK /\ NothingAhead /\ (inTurn => OneWorks /\ ReadIsNewest)

LEMMA InitMails == TurnInit => MailInv
<1>1. ASSUME TurnInit
      PROVE  TypeOK
  BY <1>1, InitIsTyped DEF TurnInit
<1>2. ASSUME TurnInit
      PROVE  NothingAhead /\ OneWorks /\ ReadIsNewest
  BY <1>2 DEF TurnInit, Init, NothingAhead, OneWorks, ReadIsNewest, RowRead, ShareRead, Mailing
<1>3. QED
  BY <1>1, <1>2 DEF MailInv

LEMMA MailTypes ==
    ASSUME TypeOK, NEW c \in Celery, job[c] # Idle
    PROVE  /\ job[c].news.row \in Int /\ job[c].news.share \in Int
           /\ Subject(c) \in Rows /\ version[Subject(c)] \in Int
           /\ job[c] \in Job /\ job[c].news \in News
<1>1. job[c].news \in News /\ version[Subject(c)] \in Numbers
  BY JobType DEF Job, TypeOK
<1>2. Numbers \subseteq Int
  BY DEF Numbers
<1>3. QED
  BY <1>1, <1>2, JobType DEF News

\* Versions grow.
LEMMA VersionsGrow ==
    ASSUME TypeOK, [Next]_vars, NEW x \in Rows
    PROVE  version[x] \in Int /\ version'[x] \in Int /\ version'[x] >= version[x]
<1>1. \A y \in Rows : version[y] \in Int
  BY DEF TypeOK, Numbers
<1>2. CASE UNCHANGED version
  BY <1>1, <1>2
<1>3. CASE \E y \in Rows : version' = [version EXCEPT ![y] = @ + 1]
  BY <1>1, <1>3 DEF TypeOK
<1>4. QED
  BY <1>2, <1>3 DEF Next, WriteSplits, DeleteOrRestore, RecordOrConfirm, TakeAny, Take, Run,
     LoadExpense, LoadShare, LoadPayment, SendMail, LoadPush, CreateNotice, SendPush,
     SendingFails, WorkerLost, rows, vars, Rows

\* Steps that read nothing for a mail and send none.
LEMMA QuietStep ==
    ASSUME TypeOK, [Next]_vars, NothingAhead, UNCHANGED told,
           \A c \in Celery : job'[c] = job[c] \/ ~RowRead(c)'
    PROVE  NothingAhead' /\ (ReadIsNewest => ReadIsNewest')
<1>1. \A x \in Rows, u \in Users : told[x][u].row \in Int /\ told[x][u].share \in Int
  BY DEF TypeOK, News, Numbers
<1>2. \A x \in Rows, u \in Users :
          told'[x][u].row <= version'[x] /\ told'[x][u].share <= version'[x]
  BY <1>1, VersionsGrow DEF NothingAhead
<1>3. ASSUME NEW c \in Celery, RowRead(c)'
      PROVE  /\ RowRead(c) /\ job'[c] = job[c] /\ job[c] # Idle
             /\ Subject(c)' = Subject(c) /\ (ShareRead(c)' => ShareRead(c))
  BY <1>3 DEF RowRead, ShareRead, Mailing, Subject
<1>4. ASSUME NEW c \in Celery, RowRead(c)'
      PROVE  /\ job'[c].news.row <= version'[Subject(c)']
             /\ ShareRead(c)' => job'[c].news.share <= version'[Subject(c)']
  <2>1. Subject(c) \in Rows /\ job[c].news.row \in Int /\ job[c].news.share \in Int
    BY <1>3, <1>4, MailTypes
  <2>2. QED
    BY <1>3, <1>4, <2>1, VersionsGrow DEF NothingAhead
<1>5. ASSUME NEW c \in Celery, ShareRead(c)'
      PROVE  RowRead(c)'
  BY <1>5 DEF ShareRead, RowRead
<1>6. NothingAhead'
  BY <1>2, <1>4, <1>5 DEF NothingAhead
<1>7. ASSUME ReadIsNewest
      PROVE  ReadIsNewest'
  BY <1>3, <1>5, <1>7 DEF ReadIsNewest
<1>8. QED
  BY <1>6, <1>7

\* Steps that read a version as it is.
LEMMA ReadStep ==
    ASSUME TypeOK, NothingAhead, UNCHANGED <<told, version>>, NEW c \in Celery,
           job[c] # Idle, job'[c] # Idle, job'[c].message = job[c].message,
           \A d \in Celery \ {c} : job'[d] = job[d],
           \/ job'[c].news.row = Current(c)
           \/ RowRead(c) /\ job'[c].news.row = job[c].news.row,
           job'[c].news.share = Current(c) \/ ~ShareRead(c)'
    PROVE  NothingAhead' /\ (ReadIsNewest => ReadIsNewest')
<1>1. \A x \in Rows, u \in Users :
          /\ told[x][u].row \in Int /\ told[x][u].share \in Int /\ version[x] \in Int
  BY DEF TypeOK, News, Numbers
<1>2. /\ Subject(c)' = Subject(c) /\ Subject(c) \in Rows /\ Current(c) = version[Subject(c)]
      /\ version[Subject(c)] \in Int
  BY MailTypes DEF Subject, Current
<1>3. ASSUME NEW d \in Celery \ {c}
      PROVE  /\ Subject(d)' = Subject(d) /\ (RowRead(d)' <=> RowRead(d))
             /\ (ShareRead(d)' <=> ShareRead(d))
  BY <1>3 DEF Subject, RowRead, ShareRead, Mailing
<1>4. /\ job'[c].news.row <= version'[Subject(c)']
      /\ ShareRead(c)' => job'[c].news.share <= version'[Subject(c)']
  BY <1>1, <1>2 DEF NothingAhead
<1>5. NothingAhead'
  BY <1>3, <1>4 DEF NothingAhead
<1>6. ASSUME ReadIsNewest, NEW u \in Users
      PROVE  /\ told'[Subject(c)'][u].row <= job'[c].news.row
             /\ ShareRead(c)' => told'[Subject(c)'][u].share <= job'[c].news.share
  BY <1>1, <1>2, <1>6 DEF NothingAhead, ReadIsNewest
<1>7. ASSUME ReadIsNewest
      PROVE  ReadIsNewest'
  BY <1>3, <1>6, <1>7 DEF ReadIsNewest
<1>8. QED
  BY <1>5, <1>7

LEMMA SendStep ==
    ASSUME TypeOK, NothingAhead, NEW c \in Celery, SendMail(c)
    PROVE  /\ NothingAhead'
           /\ OneWorks /\ ReadIsNewest => ReadIsNewest' /\ NewerOnly
<1>1. /\ job[c] # Idle /\ RowRead(c) /\ ShareRead(c) /\ UNCHANGED version
      /\ job[c].news \in News /\ Subject(c) \in Rows
  BY MailTypes DEF SendMail, Doing, RowRead, ShareRead, Mailing, rows
<1>2. \A x \in Rows, u \in Users :
          /\ told[x][u].row \in Int /\ told[x][u].share \in Int /\ version[x] \in Int
  BY DEF TypeOK, News, Numbers
<1>3. \A x \in Rows, u \in Users :
          told'[x][u] = told[x][u] \/ (x = Subject(c) /\ told'[x][u] = job[c].news)
  BY <1>1 DEF SendMail, TypeOK
<1>4. \A d \in Celery : job'[d] \in {job[d], Idle}
                        \/ (d = c /\ job'[d] = [job[d] EXCEPT !.next = @ + 1])
  BY DEF SendMail, Ended, TypeOK
<1>5. ASSUME NEW d \in Celery, RowRead(d)'
      PROVE  /\ RowRead(d) /\ Subject(d)' = Subject(d) /\ job'[d].news = job[d].news
             /\ (ShareRead(d)' => ShareRead(d))
  <2>1. job'[d] # Idle
    BY <1>5 DEF RowRead, Mailing
  <2>2. /\ job'[d].message = job[d].message /\ job'[d].step = job[d].step
        /\ job'[d].news = job[d].news /\ job[d] # Idle
    <3>1. CASE job'[d] = job[d]
      BY <2>1, <3>1
    <3>2. CASE d = c /\ job'[d] = [job[d] EXCEPT !.next = @ + 1]
      BY <1>1, <3>2, MailTypes DEF Job
    <3>3. QED
      BY <1>4, <2>1, <3>1, <3>2
  <2>3. QED
    BY <1>5, <2>2 DEF RowRead, ShareRead, Mailing, Subject
<1>6. ASSUME NEW d \in Celery, ShareRead(d)'
      PROVE  RowRead(d)'
  BY <1>6 DEF ShareRead, RowRead
<1>7. NothingAhead'
  <2>1. ASSUME NEW x \in Rows, NEW u \in Users
        PROVE  told'[x][u].row <= version'[x] /\ told'[x][u].share <= version'[x]
    BY <1>1, <1>3 DEF NothingAhead
  <2>2. QED
    BY <1>1, <1>5, <1>6, <2>1 DEF NothingAhead
<1>8. ASSUME OneWorks, ReadIsNewest
      PROVE  ReadIsNewest' /\ NewerOnly
  <2>1. ASSUME NEW d \in Celery, RowRead(d)', NEW u \in Users
        PROVE  /\ told'[Subject(d)'][u].row <= job'[d].news.row
               /\ ShareRead(d)' => told'[Subject(d)'][u].share <= job'[d].news.share
    <3>1. d = c
      BY <1>1, <1>5, <1>8, <2>1 DEF OneWorks, RowRead, Mailing
    <3>2. job[c].news.row \in Int /\ job[c].news.share \in Int
      BY <1>1, MailTypes
    <3>3. QED
      BY <1>1, <1>3, <1>5, <1>8, <2>1, <3>1, <3>2 DEF ReadIsNewest
  <2>2. ASSUME NEW x \in Rows, NEW u \in Users
        PROVE  /\ told'[x][u].row >= told[x][u].row
               /\ told'[x][u].share >= told[x][u].share
    BY <1>1, <1>2, <1>3, <1>8, MailTypes DEF ReadIsNewest
  <2>3. QED
    BY <1>6, <2>1, <2>2 DEF ReadIsNewest, NewerOnly
<1>9. QED
  BY <1>7, <1>8

LEMMA MailStep ==
    ASSUME MailInv, [TurnNext]_allVars
    PROVE  MailInv' /\ [inTurn => NewerOnly]_allVars
<1> USE DEF MailInv
<1>1. TypeOK /\ NothingAhead /\ [Next]_vars /\ UNCHANGED inTurn
  BY DEF TurnNext, allVars
<1>2. inTurn => OneWorks'
  <2>1. CASE TurnNext
    BY <1>1, <2>1 DEF TurnNext, OneWorks
  <2>2. CASE UNCHANGED allVars
    BY <1>1, <2>2 DEF OneWorks, allVars, vars
  <2>3. QED
    BY <2>1, <2>2
<1>3. ASSUME UNCHANGED told
      PROVE  NewerOnly
  <2>1. \A x \in Rows, u \in Users : told[x][u].row \in Int /\ told[x][u].share \in Int
    BY <1>1 DEF TypeOK, News, Numbers
  <2>2. QED
    BY <1>3, <2>1 DEF NewerOnly
<1>4. NothingAhead' /\ (inTurn => ReadIsNewest' /\ NewerOnly)
  <2>1. ASSUME NEW c \in Celery, SendMail(c)
        PROVE  NothingAhead' /\ (inTurn => ReadIsNewest' /\ NewerOnly)
    BY <1>1, <2>1, SendStep
  <2>2. ASSUME NEW c \in Celery, LoadShare(c)
        PROVE  NothingAhead' /\ (inTurn => ReadIsNewest' /\ NewerOnly)
    <3>1. job[c] # Idle /\ RowRead(c) /\ UNCHANGED <<told, version>> /\ job[c] \in Job
      BY <1>1, <2>2, MailTypes DEF LoadShare, Doing, RowRead, Mailing, rows
    <3>2. job'[c] = [job[c] EXCEPT !.step = "ready", !.news.share = Current(c)]
      BY <1>1, <2>2 DEF LoadShare, TypeOK
    <3>3. /\ job'[c].message = job[c].message /\ job'[c].news.row = job[c].news.row
          /\ job'[c].news.share = Current(c)
      BY <3>1, <3>2 DEF Job, News
    <3>4. job'[c] # Idle
      BY <1>1, <3>1, <3>2, IdleIsNoJob, StepsType
    <3>5. \A d \in Celery \ {c} : job'[d] = job[d]
      BY <1>1, <2>2 DEF LoadShare, TypeOK
    <3>6. NothingAhead' /\ (ReadIsNewest => ReadIsNewest')
      BY <1>1, <3>1, <3>3, <3>4, <3>5, ReadStep
    <3>7. QED
      BY <1>3, <3>1, <3>6
  <2>3. ASSUME NEW c \in Celery, LoadPayment(c)
        PROVE  NothingAhead' /\ (inTurn => ReadIsNewest' /\ NewerOnly)
    <3>1. job[c] # Idle /\ UNCHANGED <<told, version>> /\ job[c] \in Job
      BY <1>1, <2>3, MailTypes DEF LoadPayment, Doing, rows
    <3>2. job'[c] = [job[c] EXCEPT !.step = "ready",
                        !.news = [row |-> Current(c), share |-> Current(c)]]
      BY <1>1, <2>3 DEF LoadPayment, TypeOK
    <3>3. /\ job'[c].message = job[c].message /\ job'[c].news.row = Current(c)
          /\ job'[c].news.share = Current(c)
      BY <3>1, <3>2 DEF Job, News
    <3>4. job'[c] # Idle
      BY <1>1, <3>1, <3>2, IdleIsNoJob, StepsType
    <3>5. \A d \in Celery \ {c} : job'[d] = job[d]
      BY <1>1, <2>3 DEF LoadPayment, TypeOK
    <3>6. NothingAhead' /\ (ReadIsNewest => ReadIsNewest')
      BY <1>1, <3>1, <3>3, <3>4, <3>5, ReadStep
    <3>7. QED
      BY <1>3, <3>1, <3>6
  <2>4. ASSUME NEW c \in Celery, LoadExpense(c)
        PROVE  NothingAhead' /\ (inTurn => ReadIsNewest' /\ NewerOnly)
    <3>1. job[c] # Idle /\ UNCHANGED <<told, version>> /\ job[c] \in Job
      BY <1>1, <2>4, MailTypes DEF LoadExpense, Doing, rows
    <3>2. \A d \in Celery \ {c} : job'[d] = job[d]
      BY <1>1, <2>4 DEF LoadExpense, Retry, Ended, TypeOK
    <3>3. \/ job'[c] = Idle
          \/ job'[c] = [job[c] EXCEPT !.step = "loaded", !.news.row = Current(c)]
      BY <1>1, <2>4 DEF LoadExpense, Retry, Ended, TypeOK
    <3>4. CASE job'[c] = Idle
      <4>1. \A d \in Celery : job'[d] = job[d] \/ ~RowRead(d)'
        BY <3>2, <3>4 DEF RowRead, Mailing
      <4>2. QED
        BY <1>1, <1>3, <3>1, <4>1, QuietStep
    <3>5. CASE job'[c] = [job[c] EXCEPT !.step = "loaded", !.news.row = Current(c)]
      <4>1. /\ job'[c].message = job[c].message /\ job'[c].news.row = Current(c)
            /\ job'[c].step = "loaded"
        BY <3>1, <3>5 DEF Job, News
      <4>2. job'[c] # Idle
        BY <1>1, <3>1, <3>5, IdleIsNoJob, StepsType
      <4>3. ~ShareRead(c)'
        BY <4>1 DEF ShareRead
      <4>4. NothingAhead' /\ (ReadIsNewest => ReadIsNewest')
        BY <1>1, <3>1, <3>2, <4>1, <4>2, <4>3, ReadStep
      <4>5. QED
        BY <1>3, <3>1, <4>4
    <3>6. QED
      BY <3>3, <3>4, <3>5
  <2>5. CASE ~\E c \in Celery :
             SendMail(c) \/ LoadShare(c) \/ LoadPayment(c) \/ LoadExpense(c)
    <3>1. UNCHANGED told
      BY <1>1, <2>5 DEF Next, WriteSplits, DeleteOrRestore, RecordOrConfirm, TakeAny, Take,
         Run, LoadPush, CreateNotice, SendPush, SendingFails, WorkerLost, vars
    <3>2. \A d \in Celery : job'[d] = job[d] \/ ~RowRead(d)'
      <4>1. CASE UNCHANGED job
        BY <4>1
      <4>2. ASSUME NEW c \in Celery, NEW m \in queue, Take(c, m), NEW d \in Celery
            PROVE  job'[d] = job[d] \/ ~RowRead(d)'
        BY <1>1, <4>2 DEF Take, TypeOK, RowRead
      <4>3. ASSUME NEW c \in Celery, SendPush(c) \/ SendingFails(c) \/ WorkerLost(c),
                   NEW d \in Celery
            PROVE  job'[d] = job[d] \/ ~RowRead(d)'
        BY <1>1, <4>3 DEF SendPush, SendingFails, WorkerLost, Retry, Ended, TypeOK,
           RowRead, Mailing
      <4>4. ASSUME NEW c \in Celery, LoadPush(c) \/ CreateNotice(c), NEW d \in Celery
            PROVE  job'[d] = job[d] \/ ~RowRead(d)'
        <5>1. job[c] # Idle /\ job[c].message.task = "push" /\ job[c] \in Job
          BY <1>1, <4>4, MailTypes DEF LoadPush, CreateNotice, Doing
        <5>2. \/ job'[d] = job[d] \/ job'[d] = Idle
              \/ d = c /\ job'[d].message = job[d].message
          BY <1>1, <4>4, <5>1 DEF LoadPush, CreateNotice, Ended, TypeOK, Job
        <5>3. QED
          BY <5>1, <5>2 DEF RowRead, Mailing
      <4>5. QED
        BY <1>1, <2>5, <4>1, <4>2, <4>3, <4>4 DEF Next, WriteSplits, DeleteOrRestore,
           RecordOrConfirm, TakeAny, Run, vars
    <3>3. QED
      BY <1>1, <1>3, <3>1, <3>2, QuietStep
  <2>6. QED
    BY <2>1, <2>2, <2>3, <2>4, <2>5
<1>5. QED
  BY <1>1, <1>2, <1>4, TypeStep

\* With one process no mail has older news than an earlier one to the same person
\* (send_expense_notification, send_settlement_confirmation).
THEOREM MailsInOrder == TurnSpec => NewsInOrderInTurn
BY InitMails, MailStep, PTL DEF TurnSpec, NewsInOrderInTurn

-------------------------------------------------------------------------------
(***************************************************************************)
(* How many notifications: one for every push that ran as far, and every   *)
(* push still to run is owed to a version of the row or to a failure.      *)
(***************************************************************************)
Push(m, x, u) == m.task = "push" /\ m.about = x /\ m.to = <<u>>
Waiting(x, u) == {m \in queue : Push(m, x, u)}
Underway(x, u) ==
    {c \in Celery : /\ job[c] # Idle /\ Push(job[c].message, x, u)
                    /\ job[c].step \in {"start", "loaded"}}

\* A push goes to one user, and has nothing to send twice.
PushesSingle ==
    /\ \A m \in queue : m.task = "push" => \E u \in Users : m.to = <<u>>
    /\ \A c \in Celery :
          job[c] # Idle /\ job[c].message.task = "push" =>
              /\ job[c].next = 1 /\ \E u \in Users : job[c].message.to = <<u>>
              /\ job[c].step = "loaded" => Recipient(c) # Author

AuthorSpared == \A x \in Rows, u \in Users : u = Author => notices[x][u] = 0

Accounted(x, u) ==
    /\ IsFiniteSet(Waiting(x, u))
    /\ notices[x][u] + Cardinality(Waiting(x, u)) + Cardinality(Underway(x, u))
          <= version[x] + faults

PushInv ==
    TypeOK /\ PushesSingle /\ AuthorSpared /\ \A x \in Rows, u \in Users : Accounted(x, u)

LEMMA Kept ==
    ASSUME NEW S, NEW T, IsFiniteSet(S), T \subseteq S
    PROVE  /\ IsFiniteSet(T) /\ Cardinality(S) \in Nat /\ Cardinality(T) \in Nat
           /\ Cardinality(T) <= Cardinality(S)
BY FS_Subset, FS_CardinalityType

LEMMA Grown ==
    ASSUME NEW S, NEW T, NEW e, IsFiniteSet(S), T \subseteq S \cup {e}
    PROVE  /\ IsFiniteSet(T) /\ Cardinality(S) \in Nat /\ Cardinality(T) \in Nat
           /\ Cardinality(T) <= Cardinality(S) + 1
<1>1. /\ IsFiniteSet(S \cup {e}) /\ Cardinality(S) \in Nat
      /\ Cardinality(S \cup {e}) <= Cardinality(S) + 1
  BY FS_AddElement, FS_CardinalityType
<1>2. QED
  BY <1>1, Kept

LEMMA Shrunk ==
    ASSUME NEW S, NEW T, NEW e \in S, IsFiniteSet(S), T \subseteq S \ {e}
    PROVE  /\ IsFiniteSet(T) /\ Cardinality(S) \in Nat /\ Cardinality(T) \in Nat
           /\ Cardinality(T) + 1 <= Cardinality(S)
<1>1. IsFiniteSet(S \ {e}) /\ Cardinality(S \ {e}) = Cardinality(S) - 1
  BY FS_RemoveElement
<1>2. Cardinality(S) \in Nat
  BY FS_CardinalityType
<1>3. /\ IsFiniteSet(T) /\ Cardinality(T) \in Nat
      /\ Cardinality(T) <= Cardinality(S \ {e})
  BY <1>1, Kept
<1>4. QED
  BY <1>1, <1>2, <1>3

LEMMA AccountTypes ==
    ASSUME TypeOK, NEW x \in Rows, NEW u \in Users
    PROVE  /\ notices[x][u] \in Nat /\ version[x] \in Nat /\ faults \in Nat
           /\ IsFiniteSet(Underway(x, u))
<1>1. Underway(x, u) \subseteq Celery
  BY DEF Underway
<1>2. IsFiniteSet(Underway(x, u))
  BY <1>1, FS_Subset, ParametersAssumption
<1>3. QED
  BY <1>2 DEF TypeOK, Numbers

LEMMA InitPushes == Init => PushInv
<1> SUFFICES ASSUME Init
             PROVE  PushInv
  OBVIOUS
<1>1. TypeOK
  BY InitIsTyped
<1>2. PushesSingle /\ AuthorSpared
  BY DEF Init, PushesSingle, AuthorSpared
<1>3. ASSUME NEW x \in Rows, NEW u \in Users
      PROVE  Accounted(x, u)
  <2>1. Waiting(x, u) = {} /\ Underway(x, u) = {}
    BY DEF Init, Waiting, Underway
  <2>2. notices[x][u] = 0 /\ version[x] = 0 /\ faults = 0
    BY DEF Init
  <2>3. QED
    BY <2>1, <2>2, FS_EmptySet DEF Accounted
<1>4. QED
  BY <1>1, <1>2, <1>3 DEF PushInv

\* Nothing new is to be run, and nothing was created.
LEMMA AccountsKept ==
    ASSUME PushInv, TypeOK', NEW x \in Rows, NEW u \in Users,
           notices'[x][u] = notices[x][u], Waiting(x, u)' \subseteq Waiting(x, u),
           Underway(x, u)' \subseteq Underway(x, u),
           version[x] + faults <= version'[x] + faults'
    PROVE  Accounted(x, u)'
<1>1. Accounted(x, u) /\ TypeOK
  BY DEF PushInv
<1>2. /\ IsFiniteSet(Waiting(x, u)')
      /\ Cardinality(Waiting(x, u)) \in Nat /\ Cardinality(Waiting(x, u)') \in Nat
      /\ Cardinality(Waiting(x, u)') <= Cardinality(Waiting(x, u))
  BY <1>1, Kept DEF Accounted
<1>3. /\ Cardinality(Underway(x, u)) \in Nat /\ Cardinality(Underway(x, u)') \in Nat
      /\ Cardinality(Underway(x, u)') <= Cardinality(Underway(x, u))
  BY <1>1, AccountTypes, Kept
<1>4. /\ notices[x][u] \in Nat /\ version[x] \in Nat /\ faults \in Nat
      /\ version'[x] \in Nat /\ faults' \in Nat
  BY <1>1, AccountTypes DEF TypeOK, Numbers
<1>5. QED
  BY <1>1, <1>2, <1>3, <1>4 DEF Accounted

\* One more message, for a version or a failure.
LEMMA AccountsGrow ==
    ASSUME PushInv, TypeOK', NEW x \in Rows, NEW u \in Users, NEW m,
           notices'[x][u] = notices[x][u], Waiting(x, u)' \subseteq Waiting(x, u) \cup {m},
           Underway(x, u)' \subseteq Underway(x, u),
           version[x] + faults + 1 <= version'[x] + faults'
    PROVE  Accounted(x, u)'
<1>1. Accounted(x, u) /\ TypeOK
  BY DEF PushInv
<1>2. /\ IsFiniteSet(Waiting(x, u)')
      /\ Cardinality(Waiting(x, u)) \in Nat /\ Cardinality(Waiting(x, u)') \in Nat
      /\ Cardinality(Waiting(x, u)') <= Cardinality(Waiting(x, u)) + 1
  BY <1>1, Grown DEF Accounted
<1>3. /\ Cardinality(Underway(x, u)) \in Nat /\ Cardinality(Underway(x, u)') \in Nat
      /\ Cardinality(Underway(x, u)') <= Cardinality(Underway(x, u))
  BY <1>1, AccountTypes, Kept
<1>4. /\ notices[x][u] \in Nat /\ version[x] \in Nat /\ faults \in Nat
      /\ version'[x] \in Nat /\ faults' \in Nat
  BY <1>1, AccountTypes DEF TypeOK, Numbers
<1>5. QED
  BY <1>1, <1>2, <1>3, <1>4 DEF Accounted

\* A process takes a message, and starts with it.
LEMMA AccountsMove ==
    ASSUME PushInv, TypeOK', NEW x \in Rows, NEW u \in Users, NEW c, NEW m \in Waiting(x, u),
           notices'[x][u] = notices[x][u], Waiting(x, u)' \subseteq Waiting(x, u) \ {m},
           Underway(x, u)' \subseteq Underway(x, u) \cup {c},
           version'[x] = version[x], faults' = faults
    PROVE  Accounted(x, u)'
<1>1. Accounted(x, u) /\ TypeOK
  BY DEF PushInv
<1>2. /\ IsFiniteSet(Waiting(x, u)')
      /\ Cardinality(Waiting(x, u)) \in Nat /\ Cardinality(Waiting(x, u)') \in Nat
      /\ Cardinality(Waiting(x, u)') + 1 <= Cardinality(Waiting(x, u))
  BY <1>1, Shrunk DEF Accounted
<1>3. /\ Cardinality(Underway(x, u)) \in Nat /\ Cardinality(Underway(x, u)') \in Nat
      /\ Cardinality(Underway(x, u)') <= Cardinality(Underway(x, u)) + 1
  BY <1>1, AccountTypes, Grown
<1>4. notices[x][u] \in Nat /\ version[x] \in Nat /\ faults \in Nat
  BY <1>1, AccountTypes
<1>5. QED
  BY <1>1, <1>2, <1>3, <1>4 DEF Accounted

\* A notification is created by a process that was to do so.
LEMMA AccountsSpent ==
    ASSUME PushInv, NEW x \in Rows, NEW u \in Users, NEW c \in Underway(x, u),
           notices'[x][u] = notices[x][u] + 1, Waiting(x, u)' = Waiting(x, u),
           Underway(x, u)' \subseteq Underway(x, u) \ {c},
           version'[x] = version[x], faults' = faults
    PROVE  Accounted(x, u)'
<1>1. Accounted(x, u) /\ TypeOK
  BY DEF PushInv
<1>2. IsFiniteSet(Waiting(x, u)) /\ Cardinality(Waiting(x, u)) \in Nat
  BY <1>1, Kept DEF Accounted
<1>3. /\ Cardinality(Underway(x, u)) \in Nat /\ Cardinality(Underway(x, u)') \in Nat
      /\ Cardinality(Underway(x, u)') + 1 <= Cardinality(Underway(x, u))
  BY <1>1, AccountTypes, Shrunk
<1>4. notices[x][u] \in Nat /\ version[x] \in Nat /\ faults \in Nat
  BY <1>1, AccountTypes
<1>5. QED
  BY <1>1, <1>2, <1>3, <1>4 DEF Accounted

-------------------------------------------------------------------------------
(* The steps.                                                                *)

LEMMA RequestCounts ==
    ASSUME PushInv, TypeOK',
           \/ \E x \in Expenses :
                 (\E S \in (SUBSET Users) \ {{}} : WriteSplits(x, S)) \/ DeleteOrRestore(x)
           \/ \E p \in Payments : RecordOrConfirm(p)
    PROVE  PushInv'
<1>1. TypeOK /\ \A y \in Rows : version[y] \in Nat
  BY DEF PushInv, TypeOK, Numbers
<1>2. ASSUME NEW y, NEW messages, Publish(y, messages)
      PROVE  /\ queue' \subseteq queue \cup messages
             /\ faults \in Nat /\ faults' \in Nat /\ faults <= faults'
  BY <1>1, <1>2 DEF Publish, Fault, TypeOK
<1>3. ASSUME UNCHANGED <<job, notices>>,
             \A m \in queue' \ queue : m.task = "push" => \E u \in Users : m.to = <<u>>
      PROVE  /\ PushesSingle' /\ AuthorSpared'
             /\ \A x \in Rows, u \in Users :
                   Underway(x, u)' = Underway(x, u) /\ notices'[x][u] = notices[x][u]
  BY <1>3 DEF PushInv, PushesSingle, AuthorSpared, Underway, Recipient
<1>4. ASSUME NEW y \in Expenses, NEW S \in SUBSET Users, WriteSplits(y, S)
      PROVE  PushInv'
  <2> DEFINE pushes == {About("push", y, <<u>>) : u \in S}
             mails == {About("mail", y, <<u>>) : u \in S}
  <2>1. /\ y \in Rows /\ version' = [version EXCEPT ![y] = @ + 1] /\ UNCHANGED <<job, notices>>
        /\ Publish(y, mails \cup pushes)
    BY <1>4 DEF WriteSplits, Rows
  <2>2. /\ \A m \in mails : m.task = "mail"
        /\ \A m \in pushes : m.task = "push" /\ m.about = y
                           /\ \E u \in Users : m = About("push", y, <<u>>) /\ m.to = <<u>>
    BY DEF About
  <2> HIDE DEF pushes, mails
  <2>3. /\ queue' \subseteq queue \cup mails \cup pushes
        /\ faults \in Nat /\ faults' \in Nat /\ faults <= faults'
    BY <1>2, <2>1
  <2>4. PushesSingle' /\ AuthorSpared'
    BY <1>3, <2>1, <2>2, <2>3
  <2>5. ASSUME NEW x \in Rows, NEW u \in Users
        PROVE  Accounted(x, u)'
    <3>1. Underway(x, u)' = Underway(x, u) /\ notices'[x][u] = notices[x][u]
      BY <1>3, <2>1, <2>2, <2>3
    <3>2. CASE x = y
      <4>1. Waiting(x, u)' \subseteq Waiting(x, u) \cup {About("push", x, <<u>>)}
        BY <2>2, <2>3, <3>2 DEF Waiting, Push
      <4>2. version[x] + faults + 1 <= version'[x] + faults'
        BY <1>1, <2>1, <2>3, <3>2 DEF TypeOK
      <4>3. QED
        BY <3>1, <4>1, <4>2, AccountsGrow
    <3>3. CASE x # y
      <4>1. Waiting(x, u)' \subseteq Waiting(x, u)
        BY <2>2, <2>3, <3>3 DEF Waiting, Push
      <4>2. version[x] + faults <= version'[x] + faults'
        BY <1>1, <2>1, <2>3, <3>3 DEF TypeOK
      <4>3. QED
        BY <3>1, <4>1, <4>2, AccountsKept
    <3>4. QED
      BY <3>2, <3>3
  <2>6. QED
    BY <2>4, <2>5 DEF PushInv
<1>5. ASSUME NEW y \in Expenses, DeleteOrRestore(y)
      PROVE  PushInv'
  <2>1. UNCHANGED <<version, queue, job, notices, faults>>
    BY <1>5 DEF DeleteOrRestore
  <2>2. QED
    BY <2>1 DEF PushInv, PushesSingle, AuthorSpared, Accounted, Waiting, Underway, Recipient
<1>6. ASSUME NEW p \in Payments, RecordOrConfirm(p)
      PROVE  PushInv'
  <2>1. /\ p \in Rows /\ version' = [version EXCEPT ![p] = @ + 1] /\ UNCHANGED <<job, notices>>
        /\ Publish(p, {About("mail", p, Parties[p])})
    BY <1>6 DEF RecordOrConfirm, Rows
  <2>2. \A m \in queue' \ queue : m.task = "mail"
    BY <1>2, <2>1 DEF About
  <2>3. PushesSingle' /\ AuthorSpared'
    BY <1>3, <2>1, <2>2
  <2>4. ASSUME NEW x \in Rows, NEW u \in Users
        PROVE  Accounted(x, u)'
    <3>1. Waiting(x, u)' \subseteq Waiting(x, u)
      BY <2>2 DEF Waiting, Push
    <3>2. version[x] + faults <= version'[x] + faults'
      <4>1. version[x] <= version'[x]
        BY <1>1, <2>1 DEF TypeOK
      <4>2. QED
        BY <1>1, <1>2, <2>1, <4>1 DEF TypeOK
    <3>3. QED
      BY <1>3, <2>1, <2>2, <3>1, <3>2, AccountsKept
  <2>5. QED
    BY <2>3, <2>4 DEF PushInv
<1>7. QED
  BY <1>4, <1>5, <1>6

\* A process ends its task: nothing comes to the queue, or for a failure the message.
LEMMA EndCounts ==
    ASSUME PushInv, TypeOK', NEW c \in Celery, job[c] # Idle, Ended(c),
           UNCHANGED <<notices, version>>,
           \/ UNCHANGED <<queue, faults>>
           \/ /\ faults' = faults + 1
              /\ \E m : /\ queue' \subseteq queue \cup {m}
                       /\ m.task = job[c].message.task /\ m.to = job[c].message.to
    PROVE  PushInv'
<1>1. TypeOK /\ PushesSingle /\ \A y \in Rows : version[y] \in Nat
  BY DEF PushInv, TypeOK, Numbers
<1>2. faults \in Nat
  BY <1>1 DEF TypeOK
<1>3. \A d \in Celery : job'[d] = Idle \/ job'[d] = job[d]
  BY <1>1 DEF Ended, TypeOK
<1>4. \A m \in queue' : m.task = "push" => \E u \in Users : m.to = <<u>>
  BY <1>1 DEF PushesSingle
<1>5. PushesSingle' /\ AuthorSpared'
  BY <1>1, <1>3, <1>4 DEF PushInv, PushesSingle, AuthorSpared, Recipient
<1>6. ASSUME NEW x \in Rows, NEW u \in Users
      PROVE  Accounted(x, u)'
  <2>1. Underway(x, u)' \subseteq Underway(x, u)
    BY <1>3 DEF Underway
  <2>2. CASE UNCHANGED <<queue, faults>>
    <3>1. Waiting(x, u)' \subseteq Waiting(x, u)
      BY <2>2 DEF Waiting
    <3>2. QED
      BY <1>1, <1>2, <2>1, <2>2, <3>1, AccountsKept
  <2>3. CASE faults' = faults + 1 /\ \E m : queue' \subseteq queue \cup {m}
    <3>1. PICK m : queue' \subseteq queue \cup {m}
      BY <2>3
    <3>2. Waiting(x, u)' \subseteq Waiting(x, u) \cup {m}
      BY <3>1 DEF Waiting
    <3>3. version[x] + faults + 1 <= version'[x] + faults'
      BY <1>1, <1>2, <2>3
    <3>4. QED
      BY <2>1, <3>2, <3>3, AccountsGrow
  <2>4. QED
    BY <2>2, <2>3
<1>7. QED
  BY <1>5, <1>6 DEF PushInv

LEMMA RequeuedOne ==
    ASSUME NEW m \in Message
    PROVE  \E n : Requeued(m) \subseteq {n} /\ n.task = m.task /\ n.to = m.to
                /\ n.about = m.about
<1> DEFINE n == [m EXCEPT !.tries = @ + 1]
<1>1. Requeued(m) \subseteq {n} /\ n.task = m.task /\ n.to = m.to /\ n.about = m.about
  BY DEF Requeued, Message
<1>2. QED
  BY <1>1

\* A mail's task concerns no notification.
LEMMA MailCounts ==
    ASSUME PushInv, TypeOK', NEW c \in Celery,
           LoadExpense(c) \/ LoadShare(c) \/ LoadPayment(c) \/ SendMail(c)
    PROVE  PushInv'
<1>1. TypeOK /\ PushesSingle /\ \A y \in Rows : version[y] \in Nat
  BY DEF PushInv, TypeOK, Numbers
<1>2. faults \in Nat
  BY <1>1 DEF TypeOK
<1>3. job[c] # Idle /\ job[c].message.task = "mail" /\ UNCHANGED <<version, notices, faults>>
  BY DEF LoadExpense, LoadShare, LoadPayment, SendMail, Doing, rows
<1>4. job[c] \in Job /\ job[c].message \in Message
  BY <1>1, <1>3, JobType
<1>5. \A d \in Celery \ {c} : job'[d] = job[d]
  BY <1>1 DEF LoadExpense, LoadShare, LoadPayment, SendMail, Retry, Ended, TypeOK
<1>6. job'[c] = Idle \/ job'[c].message.task = "mail"
  <2>1. CASE LoadExpense(c) \/ SendMail(c)
    BY <1>1, <1>3, <1>4, <2>1 DEF LoadExpense, SendMail, Retry, Ended, TypeOK, Job
  <2>2. CASE LoadShare(c) \/ LoadPayment(c)
    BY <1>1, <1>3, <1>4, <2>2 DEF LoadShare, LoadPayment, TypeOK, Job
  <2>3. QED
    BY <2>1, <2>2
<1>7. \A m \in queue' \ queue : m.task = "mail"
  <2>1. \A m \in Requeued(job[c].message) : m.task = "mail"
    BY <1>3, <1>4, RequeuedOne
  <2>2. QED
    BY <2>1 DEF LoadExpense, LoadShare, LoadPayment, SendMail, Retry
<1>8. PushesSingle' /\ AuthorSpared'
  BY <1>1, <1>3, <1>5, <1>6, <1>7 DEF PushInv, PushesSingle, AuthorSpared, Recipient
<1>9. ASSUME NEW x \in Rows, NEW u \in Users
      PROVE  Accounted(x, u)'
  <2>1. Waiting(x, u)' \subseteq Waiting(x, u) /\ Underway(x, u)' \subseteq Underway(x, u)
    BY <1>5, <1>6, <1>7 DEF Waiting, Underway, Push
  <2>2. QED
    BY <1>1, <1>2, <1>3, <2>1, AccountsKept
<1>10. QED
  BY <1>8, <1>9 DEF PushInv

LEMMA PushCounts ==
    ASSUME PushInv, TypeOK', NEW c \in Celery, LoadPush(c) \/ CreateNotice(c) \/ SendPush(c)
    PROVE  PushInv'
<1>1. TypeOK /\ PushesSingle /\ \A y \in Rows : version[y] \in Nat
  BY DEF PushInv, TypeOK, Numbers
<1>2. faults \in Nat
  BY <1>1 DEF TypeOK
<1>3. job[c] # Idle /\ job[c].message.task = "push" /\ UNCHANGED <<version, queue, faults>>
  BY DEF LoadPush, CreateNotice, SendPush, Doing, rows
<1>4. job[c] \in Job /\ job[c].message \in Message /\ Subject(c) \in Rows
  BY <1>1, <1>3, JobType
<1>5. \A d \in Celery \ {c} : job'[d] = job[d]
  BY <1>1 DEF LoadPush, CreateNotice, SendPush, Ended, TypeOK
<1>6. PICK r \in Users : job[c].message.to = <<r>> /\ Recipient(c) = r
  BY <1>1, <1>3 DEF PushesSingle, Recipient
<1>7. CASE Ended(c) /\ UNCHANGED notices
  BY <1>3, <1>7, EndCounts
<1>8. CASE LoadPush(c) /\ ~Ended(c)
  <2>1. /\ job'[c] = [job[c] EXCEPT !.step = "loaded"] /\ UNCHANGED notices
        /\ Recipient(c) # Author /\ job[c].step = "start"
    BY <1>1, <1>8 DEF LoadPush, TypeOK, Doing
  <2>2. /\ job'[c].message = job[c].message /\ job'[c].next = job[c].next
        /\ job'[c].step = "loaded"
    BY <1>4, <2>1 DEF Job
  <2>3. PushesSingle' /\ AuthorSpared'
    <3>1. Recipient(c)' = Recipient(c) /\ \A d \in Celery \ {c} : Recipient(d)' = Recipient(d)
      BY <1>5, <2>2 DEF Recipient
    <3>2. /\ job'[c].next = 1 /\ Recipient(c)' # Author
          /\ \E u \in Users : job'[c].message.to = <<u>>
      BY <1>1, <1>3, <1>6, <2>1, <2>2, <3>1 DEF PushesSingle
    <3>3. PushesSingle'
      BY <1>1, <1>3, <1>5, <3>1, <3>2 DEF PushesSingle
    <3>4. QED
      BY <2>1, <3>3 DEF PushInv, AuthorSpared
  <2>4. ASSUME NEW x \in Rows, NEW u \in Users
        PROVE  Accounted(x, u)'
    <3>1. Waiting(x, u)' \subseteq Waiting(x, u)
      BY <1>3 DEF Waiting
    <3>2. ASSUME NEW d \in Underway(x, u)'
          PROVE  d \in Underway(x, u)
      <4>1. CASE d = c
        BY <1>3, <2>1, <2>2, <3>2, <4>1 DEF Underway, Push
      <4>2. CASE d # c
        BY <1>5, <3>2, <4>2 DEF Underway, Push
      <4>3. QED
        BY <4>1, <4>2
    <3>3. QED
      BY <1>1, <1>2, <1>3, <2>1, <3>1, <3>2, AccountsKept
  <2>5. QED
    BY <2>3, <2>4 DEF PushInv
<1>9. CASE CreateNotice(c)
  <2>1. /\ job'[c] = [job[c] EXCEPT !.step = "ready"] /\ job[c].step = "loaded"
        /\ notices' = [notices EXCEPT ![Subject(c)] =
                          [u \in Users |-> IF u = r THEN @[u] + 1 ELSE @[u]]]
    BY <1>1, <1>6, <1>9 DEF CreateNotice, Doing, TypeOK, Noticed
  <2>2. /\ job'[c].message = job[c].message /\ job'[c].next = job[c].next
        /\ job'[c].step = "ready"
    BY <1>4, <2>1 DEF Job
  <2>3. r # Author
    BY <1>1, <1>3, <1>6, <2>1 DEF PushesSingle
  <2>4. \A x \in Rows, u \in Users :
           notices'[x][u] = IF x = Subject(c) /\ u = r THEN notices[x][u] + 1
                            ELSE notices[x][u]
    BY <1>1, <2>1 DEF TypeOK
  <2>5. AuthorSpared'
    BY <2>3, <2>4 DEF PushInv, AuthorSpared
  <2>6. PushesSingle'
    BY <1>1, <1>3, <1>5, <2>2 DEF PushesSingle, Recipient
  <2>7. ASSUME NEW x \in Rows, NEW u \in Users
        PROVE  Accounted(x, u)'
    <3>1. Waiting(x, u)' = Waiting(x, u) /\ Underway(x, u)' \subseteq Underway(x, u) \ {c}
      BY <1>3, <1>5, <2>2 DEF Waiting, Underway, Push
    <3>2. CASE x = Subject(c) /\ u = r
      <4>1. c \in Underway(x, u)
        BY <1>3, <1>6, <2>1, <3>2 DEF Underway, Push, Subject
      <4>2. QED
        BY <1>3, <2>4, <3>1, <3>2, <4>1, AccountsSpent
    <3>3. CASE ~(x = Subject(c) /\ u = r)
      BY <1>1, <1>2, <1>3, <2>4, <3>1, <3>3, AccountsKept
    <3>4. QED
      BY <3>2, <3>3
  <2>8. QED
    BY <2>5, <2>6, <2>7 DEF PushInv
<1>10. QED
  BY <1>7, <1>8, <1>9 DEF LoadPush, SendPush

LEMMA TakeCounts ==
    ASSUME PushInv, TypeOK', NEW c \in Celery, NEW m \in queue, Take(c, m)
    PROVE  PushInv'
<1>1. TypeOK /\ PushesSingle /\ \A y \in Rows : version[y] \in Nat
  BY DEF PushInv, TypeOK, Numbers
<1>2. faults \in Nat
  BY <1>1 DEF TypeOK
<1>3. /\ UNCHANGED <<version, notices, faults>> /\ queue' = queue \ {m}
      /\ job'[c].message = m /\ job'[c].next = 1 /\ job'[c].step = "start"
      /\ \A d \in Celery \ {c} : job'[d] = job[d]
  BY <1>1 DEF Take, TypeOK, rows
<1>4. PushesSingle' /\ AuthorSpared'
  BY <1>1, <1>3 DEF PushInv, PushesSingle, AuthorSpared, Recipient
<1>5. ASSUME NEW x \in Rows, NEW u \in Users
      PROVE  Accounted(x, u)'
  <2>1. Waiting(x, u)' \subseteq Waiting(x, u) \ {m}
    BY <1>3 DEF Waiting
  <2>2. CASE Push(m, x, u)
    <3>1. m \in Waiting(x, u) /\ Underway(x, u)' \subseteq Underway(x, u) \cup {c}
      BY <1>3, <2>2 DEF Waiting, Underway
    <3>2. QED
      BY <1>3, <2>1, <3>1, AccountsMove
  <2>3. CASE ~Push(m, x, u)
    <3>1. Underway(x, u)' \subseteq Underway(x, u)
      BY <1>3, <2>3 DEF Underway
    <3>2. QED
      BY <1>1, <1>2, <1>3, <2>1, <3>1, AccountsKept
  <2>4. QED
    BY <2>2, <2>3
<1>6. QED
  BY <1>4, <1>5 DEF PushInv

LEMMA PushStep == PushInv /\ [Next]_vars => PushInv'
<1> SUFFICES ASSUME PushInv, [Next]_vars
             PROVE  PushInv'
  OBVIOUS
<1>1. TypeOK /\ TypeOK'
  BY TypeStep DEF PushInv
<1>2. ASSUME NEW c \in Celery, SendingFails(c)
      PROVE  PushInv'
  <2>1. job[c].message \in Message /\ job[c] # Idle
    BY <1>1, <1>2, JobType DEF SendingFails
  <2>2. faults' = faults + 1 /\ UNCHANGED <<notices, version>> /\ Ended(c)
        /\ queue' = queue \cup Requeued(job[c].message)
    BY <1>2 DEF SendingFails, Fault, Retry, rows
  <2>3. QED
    BY <1>1, <2>1, <2>2, RequeuedOne, EndCounts
<1>3. ASSUME NEW c \in Celery, WorkerLost(c)
      PROVE  PushInv'
  <2>1. /\ faults' = faults + 1 /\ UNCHANGED <<notices, version>> /\ Ended(c)
        /\ job[c] # Idle /\ queue' = queue \cup {job[c].message}
    BY <1>3 DEF WorkerLost, Fault, rows
  <2>2. QED
    BY <1>1, <2>1, EndCounts
<1>4. ASSUME UNCHANGED vars
      PROVE  PushInv'
  BY <1>1, <1>4 DEF PushInv, PushesSingle, AuthorSpared, Accounted, Waiting, Underway,
     Recipient, vars, rows
<1>5. QED
  BY <1>1, <1>2, <1>3, <1>4, RequestCounts, MailCounts, PushCounts, TakeCounts
     DEF Next, TakeAny, Run

LEMMA PushesBound == PushInv => NoticesBounded
<1> SUFFICES ASSUME PushInv, NEW x \in Rows, NEW u \in Users
             PROVE  notices[x][u] <= IF u = Author THEN 0 ELSE version[x] + faults
  BY DEF NoticesBounded
<1>1. TypeOK /\ Accounted(x, u) /\ (u = Author => notices[x][u] = 0)
  BY DEF PushInv, AuthorSpared
<1>2. Cardinality(Waiting(x, u)) \in Nat /\ Cardinality(Underway(x, u)) \in Nat
  BY <1>1, AccountTypes, Kept DEF Accounted
<1>3. QED
  BY <1>1, <1>2, AccountTypes DEF Accounted

\* However many processes run and whatever fails, nobody finds more notifications
\* of a row than it has versions and deliveries failed (_deliver_push_to_user).
THEOREM NoticesAccounted == Spec => []NoticesBounded
BY InitPushes, PushStep, PushesBound, PTL DEF Spec
===============================================================================
