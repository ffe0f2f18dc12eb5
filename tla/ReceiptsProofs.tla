----------------------------- MODULE ReceiptsProofs -----------------------------
(***************************************************************************)
(* Type correctness of Receipts, and, of requests and tasks that come in   *)
(* turn: no key is lost or revived, and the cleaner keeps what is          *)
(* referenced, for any number of rows, keys, workers, retries and faults.  *)
(***************************************************************************)
EXTENDS MCReceipts, FiniteSetTheorems, TLAPS

\* What is read of a row are keys of that row.
KeysBelong ==
    /\ \A r \in Rows : \A k \in urls[r] : Owner[k] = r
    /\ \A w \in Workers : req[w] # Idle =>
          /\ \A k \in req[w].copy : Owner[k] = req[w].row
          /\ req[w].op = "confirm" => Owner[req[w].key] = req[w].row
          /\ req[w].op = "remove" => req[w].row \in Expenses
    /\ \A c \in Celery : job[c] # Idle =>
          \A k \in job[c].copy : Owner[k] = Owner[Key(c)]

Base == TypeOK /\ KeysBelong

LEMMA RecordsAreNotIdle ==
    /\ Idle \notin Request /\ Idle \notin Job /\ Idle \notin Cleaning
BY DEF Idle, Request, Job, Cleaning

LEMMA FaultType == TypeOK /\ Fault => faults' \in 0 .. MaxFaults
BY ParametersAssumption DEF Fault, TypeOK

LEMMA FirstTry ==
    ASSUME NEW t \in {"s3_confirm_upload", "delete_s3_object"}, NEW k \in Keys
    PROVE  [task |-> t, key |-> k, tries |-> 0] \in Message
BY ParametersAssumption DEF Message

LEMMA InitBase == Init => Base
<1>1. 0 \in 0 .. MaxFaults
  BY ParametersAssumption
<1>2. Init => TypeOK
  BY <1>1 DEF Init, TypeOK
<1>3. Init => KeysBelong
  BY DEF Init, KeysBelong
<1>4. QED
  BY <1>2, <1>3 DEF Base

-------------------------------------------------------------------------------
LEMMA RequestBase ==
    ASSUME Base,
           \E w \in Workers :
              \/ \E op \in {"confirm", "remove"}, r \in Rows, k \in Keys : Begin(w, op, r, k)
              \/ ConfirmUpload(w) \/ RemoveReceipt(w)
    PROVE  Base'
<1> USE DEF Base
<1>1. ASSUME NEW w \in Workers, NEW op \in {"confirm", "remove"}, NEW r \in Rows, NEW k \in Keys,
             Begin(w, op, r, k)
      PROVE  Base'
  <2> DEFINE c == [op |-> op, row |-> r, key |-> k, copy |-> urls[r]]
  <2>1. /\ req' = [req EXCEPT ![w] = c]
        /\ UNCHANGED <<urls, deleted, link, s3, queue, job, cleaner, faults>>
        /\ op = "confirm" => Owner[k] = r
        /\ op = "remove" => r \in Expenses
    BY <1>1 DEF Begin, BelongsHere
  <2>2. c \in Request /\ c.copy = urls[r] /\ c.row = r /\ c.key = k /\ c.op = op
    BY DEF TypeOK, Request
  <2> HIDE DEF c
  <2>3. TypeOK'
    BY <2>1, <2>2 DEF TypeOK
  <2>4. KeysBelong'
    BY <2>1, <2>2 DEF KeysBelong, TypeOK, Key
  <2>5. QED
    BY <2>3, <2>4
<1>2. ASSUME NEW w \in Workers, req[w] # Idle, NEW new \in SUBSET Keys,
             \A k \in new : Owner[k] = req[w].row,
             urls' = [urls EXCEPT ![req[w].row] = new], req' = [req EXCEPT ![w] = Idle],
             NEW t \in {"s3_confirm_upload", "delete_s3_object"}, Publish(t, req[w].key),
             UNCHANGED <<deleted, link, s3, job, cleaner>>
      PROVE  Base'
  <2>1. req[w] \in Request /\ req[w].row \in Rows /\ req[w].key \in Keys
    BY <1>2 DEF TypeOK, Request
  <2>2. queue' \subseteq Message /\ faults' \in 0 .. MaxFaults
    BY <1>2, <2>1, FirstTry, FaultType DEF Publish, TypeOK
  <2>3. urls' \in [Rows -> SUBSET Keys] /\ \A r \in Rows : \A k \in urls'[r] : Owner[k] = r
    BY <1>2, <2>1 DEF TypeOK
  <2>4. TypeOK'
    BY <1>2, <2>2, <2>3 DEF TypeOK
  <2>5. KeysBelong'
    BY <1>2, <2>3 DEF KeysBelong, TypeOK, Key
  <2>6. QED
    BY <2>4, <2>5
<1>3. ASSUME NEW w \in Workers, ConfirmUpload(w)
      PROVE  Base'
  <2>1. req[w] \in Request /\ req[w] # Idle /\ req[w].op = "confirm"
    BY <1>3 DEF ConfirmUpload, TypeOK
  <2>2. Added(req[w]) \in SUBSET Keys /\ \A k \in Added(req[w]) : Owner[k] = req[w].row
    BY <2>1 DEF Added, Request, KeysBelong
  <2>3. QED
    BY <1>2, <1>3, <2>1, <2>2 DEF ConfirmUpload
<1>4. ASSUME NEW w \in Workers, RemoveReceipt(w)
      PROVE  Base'
  <2> DEFINE new == req[w].copy \ {req[w].key}
  <2>1. req[w] \in Request /\ req[w] # Idle
    BY <1>4 DEF RemoveReceipt, TypeOK
  <2>2. new \in SUBSET Keys /\ \A k \in new : Owner[k] = req[w].row
    BY <2>1 DEF Request, KeysBelong
  <2>3. QED
    BY <1>2, <1>4, <2>1, <2>2 DEF RemoveReceipt
<1>5. QED
  BY <1>1, <1>3, <1>4

LEMMA TaskBase ==
    ASSUME Base,
           \E c \in Celery :
              \/ \E m \in queue : Take(c, m)
              \/ Run(c) \/ Retry(c) \/ WorkerLost(c)
    PROVE  Base'
<1> USE DEF Base
\* The row, and what the process goes on with.
<1>1. ASSUME NEW c \in Celery, NEW j \in Job \cup {Idle}, job' = [job EXCEPT ![c] = j],
             j # Idle => \A k \in j.copy : Owner[k] = Owner[j.message.key],
             urls' \in [Rows -> SUBSET Keys], \A r \in Rows : \A k \in urls'[r] : Owner[k] = r,
             s3' \subseteq Keys, queue' \subseteq Message, faults' \in 0 .. MaxFaults,
             UNCHANGED <<deleted, link, req, cleaner>>
      PROVE  Base'
  <2>1. TypeOK'
    BY <1>1 DEF TypeOK
  <2>2. ASSUME NEW d \in Celery, job'[d] # Idle
        PROVE  \A k \in job'[d].copy : Owner[k] = Owner[job'[d].message.key]
    <3>1. CASE d = c
      BY <1>1, <2>2, <3>1 DEF TypeOK
    <3>2. CASE d # c
      BY <1>1, <2>2, <3>2 DEF TypeOK, KeysBelong, Key
    <3>3. QED
      BY <3>1, <3>2
  <2>3. KeysBelong'
    BY <1>1, <2>2 DEF KeysBelong, Key
  <2>4. QED
    BY <2>1, <2>3
<1>2. /\ urls \in [Rows -> SUBSET Keys] /\ \A r \in Rows : \A k \in urls[r] : Owner[k] = r
      /\ s3 \subseteq Keys /\ queue \subseteq Message /\ faults \in 0 .. MaxFaults
  BY DEF TypeOK
<1>3. ASSUME NEW c \in Celery, job[c] # Idle
      PROVE  /\ job[c] \in Job /\ job[c].message \in Message /\ Key(c) \in Keys
             /\ job[c].copy \subseteq Keys /\ Owner[Key(c)] \in Rows
             /\ \A k \in job[c].copy : Owner[k] = Owner[Key(c)]
  BY <1>3, ParametersAssumption DEF TypeOK, Job, Message, Key, KeysBelong
<1>4. ASSUME NEW c \in Celery, NEW m \in queue, Take(c, m)
      PROVE  Base'
  <2> DEFINE j == [message |-> m, step |-> "start", copy |-> {}]
  <2>1. j \in Job /\ j.copy = {}
    BY <1>2 DEF Job
  <2>2. job' = [job EXCEPT ![c] = j] /\ queue' = queue \ {m}
        /\ UNCHANGED <<urls, deleted, link, s3, req, cleaner, faults>>
    BY <1>4 DEF Take
  <2> HIDE DEF j
  <2>3. QED
    BY <1>1, <1>2, <2>1, <2>2
<1>5. ASSUME NEW c \in Celery, DeleteObject(c)
      PROVE  Base'
  BY <1>1, <1>2, <1>5 DEF DeleteObject, Done
<1>6. ASSUME NEW c \in Celery, HeadObject(c)
      PROVE  Base'
  <2>1. job[c] # Idle /\ UNCHANGED <<urls, deleted, link, s3, req, queue, cleaner, faults>>
    BY <1>6 DEF HeadObject, Doing
  <2>2. CASE job' = [job EXCEPT ![c].step = "missing"]
    <3> DEFINE j == [job[c] EXCEPT !.step = "missing"]
    <3>1. j \in Job /\ j.copy = job[c].copy /\ j.message = job[c].message
          /\ job' = [job EXCEPT ![c] = j]
      BY <1>3, <2>1, <2>2 DEF Job
    <3> HIDE DEF j
    <3>2. QED
      BY <1>1, <1>2, <1>3, <2>1, <3>1 DEF Key
  <2>3. CASE Done(c)
    BY <1>1, <1>2, <2>1, <2>3 DEF Done
  <2>4. QED
    BY <1>6, <2>2, <2>3 DEF HeadObject
<1>7. ASSUME NEW c \in Celery, SelectRows(c)
      PROVE  Base'
  <2>1. job[c] # Idle /\ UNCHANGED <<urls, deleted, link, s3, req, queue, cleaner, faults>>
    BY <1>7 DEF SelectRows, Doing
  <2>2. CASE job' = [job EXCEPT ![c].step = "loaded", ![c].copy = urls[Owner[Key(c)]]]
    <3> DEFINE j == [job[c] EXCEPT !.step = "loaded", !.copy = urls[Owner[Key(c)]]]
    <3>1. j \in Job /\ j.copy = urls[Owner[Key(c)]] /\ j.message = job[c].message
          /\ job' = [job EXCEPT ![c] = j]
      BY <1>2, <1>3, <2>1, <2>2 DEF Job
    <3> HIDE DEF j
    <3>2. \A k \in j.copy : Owner[k] = Owner[j.message.key]
      BY <1>2, <1>3, <2>1, <3>1 DEF Key
    <3>3. QED
      BY <1>1, <1>2, <2>1, <3>1, <3>2
  <2>3. CASE Done(c)
    BY <1>1, <1>2, <2>1, <2>3 DEF Done
  <2>4. QED
    BY <1>7, <2>2, <2>3 DEF SelectRows
<1>8. ASSUME NEW c \in Celery, SaveRows(c)
      PROVE  Base'
  <2>1. job[c] # Idle /\ UNCHANGED <<deleted, link, s3, req, queue, cleaner, faults>>
        /\ urls' = [urls EXCEPT ![Owner[Key(c)]] = Kept(c)] /\ job' = [job EXCEPT ![c] = Idle]
    BY <1>8 DEF SaveRows, Doing, Done
  <2>2. Kept(c) \in SUBSET Keys /\ \A k \in Kept(c) : Owner[k] = Owner[Key(c)]
    BY <1>3, <2>1 DEF Kept
  <2>3. urls' \in [Rows -> SUBSET Keys] /\ \A r \in Rows : \A k \in urls'[r] : Owner[k] = r
    BY <1>2, <1>3, <2>1, <2>2
  <2>4. QED
    BY <1>1, <1>2, <2>1, <2>3
<1>9. ASSUME NEW c \in Celery, Retry(c)
      PROVE  Base'
  <2>1. /\ job[c] # Idle /\ UNCHANGED <<urls, deleted, link, s3, req, cleaner>>
        /\ job' = [job EXCEPT ![c] = Idle] /\ faults' \in 0 .. MaxFaults
    BY <1>9, FaultType DEF Retry, Done
  <2>2. queue' \subseteq Message
    <3>1. job[c].message.tries < MaxRetries
             => [job[c].message EXCEPT !.tries = @ + 1] \in Message
      BY <1>3, <2>1, ParametersAssumption DEF Message
    <3>2. QED
      BY <1>2, <1>9, <3>1 DEF Retry
  <2>3. QED
    BY <1>1, <1>2, <2>1, <2>2
<1>10. ASSUME NEW c \in Celery, WorkerLost(c)
      PROVE  Base'
  <2>1. /\ job[c] # Idle /\ UNCHANGED <<urls, deleted, link, s3, req, cleaner>>
        /\ job' = [job EXCEPT ![c] = Idle] /\ faults' \in 0 .. MaxFaults
    BY <1>10, FaultType DEF WorkerLost, Done
  <2>2. queue' \subseteq Message
    BY <1>2, <1>3, <1>10, <2>1 DEF WorkerLost
  <2>3. QED
    BY <1>1, <1>2, <2>1, <2>2
<1>11. QED
  BY <1>4, <1>5, <1>6, <1>7, <1>8, <1>9, <1>10 DEF Run

LEMMA CleanerBase ==
    ASSUME Base, Clean \/ CleanerStops
    PROVE  Base'
<1> USE DEF Base
<1>1. UNCHANGED <<urls, deleted, link, s3, req, job>>
  BY DEF Clean, CleanerStops, ListObjects, ReadExpenses, DispatchDeletes
<1>2. KeysBelong'
  BY <1>1 DEF KeysBelong, Key
<1>3. \A rows \in SUBSET Rows : UrlsOf(rows) \subseteq Keys
  BY DEF UrlsOf, TypeOK
<1>4. CASE ListObjects
  BY <1>1, <1>2, <1>4 DEF ListObjects, TypeOK, Cleaning
<1>5. CASE ReadExpenses
  <2>1. UrlsOf(Expenses \ deleted) \subseteq Keys /\ cleaner \in Cleaning
    BY <1>3, <1>5 DEF ReadExpenses, TypeOK, Rows
  <2>2. cleaner' \in Cleaning /\ UNCHANGED <<queue, faults>>
    BY <1>5, <2>1 DEF ReadExpenses, Cleaning
  <2>3. QED
    BY <1>1, <1>2, <2>2 DEF TypeOK
<1>6. CASE DispatchDeletes
  <2>1. cleaner \in Cleaning
    BY <1>6 DEF DispatchDeletes, TypeOK
  <2>2. Orphans \subseteq Keys
    BY <2>1 DEF Orphans, Cleaning
  <2>3. queue' \subseteq Message /\ cleaner' = Idle /\ UNCHANGED faults
    BY <1>6, <2>2, FirstTry DEF DispatchDeletes, DeletionsOf, TypeOK
  <2>4. QED
    BY <1>1, <1>2, <2>3 DEF TypeOK
<1>7. CASE CleanerStops
  <2>1. cleaner' = Idle /\ faults' \in 0 .. MaxFaults
    BY <1>7, FaultType DEF CleanerStops
  <2>2. Orphans \subseteq Keys
    BY <1>7 DEF CleanerStops, TypeOK, Orphans, Cleaning
  <2>3. queue' \subseteq Message
    BY <1>7, <2>2, FirstTry DEF CleanerStops, DeletionsOf, TypeOK
  <2>4. QED
    BY <1>1, <1>2, <2>1, <2>3 DEF TypeOK
<1>8. QED
  BY <1>4, <1>5, <1>6, <1>7 DEF Clean

LEMMA BaseStep == Base /\ [Next]_vars => Base'
<1> SUFFICES ASSUME Base, [Next]_vars
             PROVE  Base'
  OBVIOUS
<1>1. ASSUME UNCHANGED <<urls, req, queue, job, cleaner, faults>>,
             link' \in [Keys -> {"none", "open", "expired"}], s3' \subseteq Keys,
             deleted' \subseteq Expenses
      PROVE  Base'
  BY <1>1 DEF Base, TypeOK, KeysBelong, Key
<1>2. ASSUME NEW k \in Keys, GenerateUploadUrl(k) \/ Upload(k) \/ Expire(k)
      PROVE  Base'
  BY <1>1, <1>2 DEF GenerateUploadUrl, Upload, Expire, Base, TypeOK
<1>3. ASSUME NEW r \in Expenses, DeleteOrRestore(r)
      PROVE  Base'
  BY <1>1, <1>3 DEF DeleteOrRestore, Base, TypeOK
<1>4. CASE UNCHANGED vars
  BY <1>1, <1>4 DEF vars, Base, TypeOK
<1>5. CASE Next
  BY <1>2, <1>3, <1>5, RequestBase, TaskBase, CleanerBase DEF Next
<1>6. QED
  BY <1>4, <1>5

\* A row holds no key of another one, and every message, copy and listing is of
\* known keys (_validate_receipt_key, _validate_proof_key).
THEOREM TypeCorrect == Spec => []TypeOK
<1>1. Base => TypeOK
  BY DEF Base
<1>2. QED
  BY <1>1, InitBase, BaseStep, PTL DEF Spec

-------------------------------------------------------------------------------
(***************************************************************************)
(* In turn, at most one request, task or cleaning is under way; so what it *)
(* has read of the rows is still so when it saves or dispatches.           *)
(***************************************************************************)
LEMMA OneElement ==
    ASSUME NEW S, IsFiniteSet(S), NEW s \in S
    PROVE  Cardinality(S) \in Nat /\ Cardinality(S) >= 1
<1>1. IsFiniteSet({s}) /\ Cardinality({s}) = 1 /\ {s} \subseteq S
  BY FS_Singleton
<1>2. Cardinality({s}) <= Cardinality(S) /\ Cardinality(S) \in Nat
  BY <1>1, FS_Subset, FS_CardinalityType
<1>3. QED
  BY <1>1, <1>2

LEMMA TwoElements ==
    ASSUME NEW S, IsFiniteSet(S), NEW s \in S, NEW t \in S, s # t
    PROVE  Cardinality(S) >= 2
<1>1. IsFiniteSet(S \ {s}) /\ Cardinality(S \ {s}) = Cardinality(S) - 1
  BY FS_RemoveElement
<1>2. Cardinality(S \ {s}) >= 1 /\ Cardinality(S) \in Nat
  BY <1>1, OneElement, FS_CardinalityType
<1>3. QED
  BY <1>1, <1>2

Requesting == {w \in Workers : req[w] # Idle}
Running == {c \in Celery : job[c] # Idle}

LEMMA Alone ==
    ASSUME Active <= 1
    PROVE  /\ \A v, w \in Workers : req[v] # Idle /\ req[w] # Idle => v = w
           /\ \A c, d \in Celery : job[c] # Idle /\ job[d] # Idle => c = d
           /\ \A w \in Workers, c \in Celery :
                 /\ req[w] # Idle => job[c] = Idle
                 /\ cleaner # Idle => req[w] = Idle /\ job[c] = Idle
           /\ \A w \in Workers : cleaner # Idle => req[w] = Idle
           /\ \A c \in Celery : cleaner # Idle => job[c] = Idle
           /\ Active = 0 => cleaner = Idle
<1> DEFINE cleaning == IF cleaner = Idle THEN 0 ELSE 1
<1>1. IsFiniteSet(Requesting) /\ IsFiniteSet(Running)
  BY ParametersAssumption, FS_Subset DEF Requesting, Running
<1>2. Cardinality(Requesting) \in Nat /\ Cardinality(Running) \in Nat
  BY <1>1, FS_CardinalityType
<1>3. Active = Cardinality(Requesting) + Cardinality(Running) + cleaning
  BY DEF Active, Requesting, Running
<1>4. ASSUME NEW v \in Workers, NEW w \in Workers, req[v] # Idle, req[w] # Idle, v # w
      PROVE  FALSE
  <2>1. Cardinality(Requesting) >= 2
    BY <1>1, <1>4, TwoElements DEF Requesting
  <2>2. QED
    BY <1>2, <1>3, <2>1
<1>5. ASSUME NEW c \in Celery, NEW d \in Celery, job[c] # Idle, job[d] # Idle, c # d
      PROVE  FALSE
  <2>1. Cardinality(Running) >= 2
    BY <1>1, <1>5, TwoElements DEF Running
  <2>2. QED
    BY <1>2, <1>3, <2>1
<1>6. ASSUME NEW w \in Workers, req[w] # Idle
      PROVE  Cardinality(Requesting) >= 1
  BY <1>1, <1>6, OneElement DEF Requesting
<1>7. ASSUME NEW c \in Celery, job[c] # Idle
      PROVE  Cardinality(Running) >= 1
  BY <1>1, <1>7, OneElement DEF Running
<1>8. \A w \in Workers, c \in Celery : req[w] # Idle => job[c] = Idle
  BY <1>2, <1>3, <1>6, <1>7
<1>9. \A w \in Workers : cleaner # Idle => req[w] = Idle
  BY <1>2, <1>3, <1>6
<1>10. \A c \in Celery : cleaner # Idle => job[c] = Idle
  BY <1>2, <1>3, <1>7
<1>11. Active = 0 => cleaner = Idle
  BY <1>2, <1>3
<1>12. QED
  BY <1>4, <1>5, <1>8, <1>9, <1>10, <1>11

CopiesCurrent ==
    /\ \A w \in Workers : req[w] # Idle => req[w].copy = urls[req[w].row]
    /\ \A c \in Celery :
          Doing(c, "s3_confirm_upload", "loaded") => job[c].copy = urls[Owner[Key(c)]]
    /\ cleaner # Idle /\ cleaner.step = "read"
          => cleaner.referenced = UrlsOf(Expenses \ deleted)

TurnInv == Base /\ (inTurn => Active <= 1 /\ CopiesCurrent)

LEMMA CopiesStep ==
    ASSUME Base, Active <= 1, CopiesCurrent, Next, deleted' # deleted => Active = 0
    PROVE  CopiesCurrent'
<1>1. ASSUME UNCHANGED <<urls, req, job, cleaner>>, deleted' = deleted \/ cleaner = Idle
      PROVE  CopiesCurrent'
  BY <1>1 DEF CopiesCurrent, Doing, Key, UrlsOf
<1>2. ASSUME NEW k \in Keys, GenerateUploadUrl(k) \/ Upload(k) \/ Expire(k)
      PROVE  CopiesCurrent'
  BY <1>1, <1>2 DEF GenerateUploadUrl, Upload, Expire
<1>3. ASSUME NEW r \in Expenses, DeleteOrRestore(r)
      PROVE  CopiesCurrent'
  BY <1>1, <1>3, Alone DEF DeleteOrRestore
<1>4. ASSUME NEW w \in Workers, NEW op \in {"confirm", "remove"}, NEW r \in Rows, NEW k \in Keys,
             Begin(w, op, r, k)
      PROVE  CopiesCurrent'
  <2> DEFINE c == [op |-> op, row |-> r, key |-> k, copy |-> urls[r]]
  <2>1. req' = [req EXCEPT ![w] = c] /\ UNCHANGED <<urls, deleted, job, cleaner>>
    BY <1>4 DEF Begin
  <2>2. c.copy = urls[r] /\ c.row = r
    OBVIOUS
  <2> HIDE DEF c
  <2>3. QED
    BY <2>1, <2>2 DEF CopiesCurrent, Base, TypeOK, Doing, Key, UrlsOf
\* Who saves is alone.
<1>5. ASSUME NEW w \in Workers, ConfirmUpload(w) \/ RemoveReceipt(w)
      PROVE  CopiesCurrent'
  <2>1. req[w] # Idle /\ req' = [req EXCEPT ![w] = Idle] /\ UNCHANGED <<job, cleaner>>
    BY <1>5 DEF ConfirmUpload, RemoveReceipt
  <2>2. \A v \in Workers : req'[v] = Idle
    BY <2>1, Alone DEF Base, TypeOK
  <2>3. (\A c \in Celery : job[c] = Idle) /\ cleaner = Idle
    BY <2>1, Alone
  <2>4. QED
    BY <2>1, <2>2, <2>3 DEF CopiesCurrent, Doing
<1>6. ASSUME NEW c \in Celery, NEW m \in queue, Take(c, m)
      PROVE  CopiesCurrent'
  <2>1. job'[c].step = "start" /\ \A d \in Celery : d # c => job'[d] = job[d]
    BY <1>6 DEF Take, Base, TypeOK
  <2>2. UNCHANGED <<urls, deleted, req, cleaner>>
    BY <1>6 DEF Take
  <2>3. QED
    BY <2>1, <2>2 DEF CopiesCurrent, Doing, Key, UrlsOf
<1>7. ASSUME NEW c \in Celery, Run(c) \/ Retry(c) \/ WorkerLost(c)
      PROVE  CopiesCurrent'
  <2>1. job[c] # Idle /\ job[c] \in Job /\ UNCHANGED <<deleted, req, cleaner>>
    BY <1>7 DEF Run, DeleteObject, HeadObject, SelectRows, SaveRows, Retry, WorkerLost, Doing,
       Base, TypeOK
  <2>2. /\ \A w \in Workers : req[w] = Idle
        /\ \A d \in Celery \ {c} : job[d] = Idle /\ job'[d] = Idle
        /\ cleaner = Idle
    BY <1>7, <2>1, Alone DEF Run, DeleteObject, HeadObject, SelectRows, SaveRows, Retry,
       WorkerLost, Done, Base, TypeOK
  <2>3. CASE Done(c)
    <3>1. job'[c] = Idle
      BY <2>3 DEF Done, Base, TypeOK
    <3>2. QED
      BY <2>1, <2>2, <3>1 DEF CopiesCurrent, Doing
  <2>4. CASE HeadObject(c) /\ job' = [job EXCEPT ![c].step = "missing"]
    <3>1. job'[c].step = "missing"
      BY <2>1, <2>4 DEF Base, TypeOK, Job
    <3>2. QED
      BY <2>1, <2>2, <3>1 DEF CopiesCurrent, Doing
  <2>5. CASE /\ SelectRows(c)
             /\ job' = [job EXCEPT ![c].step = "loaded", ![c].copy = urls[Owner[Key(c)]]]
    <3>1. job'[c].copy = urls[Owner[Key(c)]] /\ job'[c].message = job[c].message
          /\ UNCHANGED urls
      BY <2>1, <2>5 DEF SelectRows, Base, TypeOK, Job
    <3>2. QED
      BY <2>1, <2>2, <3>1 DEF CopiesCurrent, Doing, Key
  <2>6. QED
    BY <1>7, <2>3, <2>4, <2>5 DEF Run, DeleteObject, HeadObject, SelectRows, SaveRows, Retry,
       WorkerLost
<1>8. CASE Clean \/ CleanerStops
  <2>1. UNCHANGED <<urls, deleted, req, job>>
    BY <1>8 DEF Clean, CleanerStops, ListObjects, ReadExpenses, DispatchDeletes
  <2>2. CASE ReadExpenses
    <3>1. cleaner \in Cleaning /\ cleaner' = [cleaner EXCEPT !.step = "read",
                                     !.referenced = UrlsOf(Expenses \ deleted)]
      BY <2>2 DEF ReadExpenses, Base, TypeOK
    <3>2. cleaner'.referenced = UrlsOf(Expenses \ deleted)
      BY <3>1 DEF Cleaning
    <3>3. QED
      BY <2>1, <3>2 DEF CopiesCurrent, Doing, Key, UrlsOf
  <2>3. CASE cleaner' = Idle \/ cleaner'.step = "listed"
    BY <2>1, <2>3 DEF CopiesCurrent, Doing, Key
  <2>4. QED
    BY <1>8, <2>2, <2>3 DEF Clean, CleanerStops, ListObjects, DispatchDeletes
<1>9. QED
  BY <1>2, <1>3, <1>4, <1>5, <1>6, <1>7, <1>8 DEF Next

LEMMA TurnInvariant == TurnSpec => []TurnInv
<1>1. TurnInit => TurnInv
  <2>1. Init => CopiesCurrent
    BY DEF Init, CopiesCurrent, Doing
  <2>2. Init => Active <= 1
    <3>1. ASSUME Init
          PROVE  /\ {w \in Workers : req[w] # Idle} = {}
                 /\ {c \in Celery : job[c] # Idle} = {} /\ cleaner = Idle
      BY <3>1 DEF Init
    <3>2. QED
      BY <3>1, FS_EmptySet DEF Active
  <2>3. QED
    BY <2>1, <2>2, InitBase DEF TurnInit, TurnInv
<1>2. TurnInv /\ [TurnNext]_<<vars, inTurn>> => TurnInv'
  <2>1. CASE UNCHANGED <<vars, inTurn>>
    BY <2>1, BaseStep DEF TurnInv, vars, CopiesCurrent, Doing, Key, UrlsOf, Active
  <2>2. CASE TurnNext
    BY <2>2, BaseStep, CopiesStep DEF TurnInv, TurnNext
  <2>3. QED
    BY <2>1, <2>2
<1>3. QED
  BY <1>1, <1>2, PTL DEF TurnSpec

\* In turn, the check of a missing object removes its key and no other
\* (s3_confirm_upload, test_s3_confirm_upload_only_removes_matching_key).
THEOREM CheckRemovesItsKey == TurnSpec => OnlyMatchingKeyRemovedInTurn
<1>1. ASSUME Base, CopiesCurrent, Next, NEW c \in Celery, NEW r \in Rows,
             Doing(c, "s3_confirm_upload", "loaded"), job'[c] = Idle
      PROVE  urls[r] \ urls'[r] \subseteq {Key(c)}
  <2>1. job[c] # Idle /\ job[c] \in Job /\ job[c].copy = urls[Owner[Key(c)]]
    BY <1>1 DEF Doing, CopiesCurrent, Base, TypeOK
  <2>2. SaveRows(c) \/ Retry(c) \/ WorkerLost(c)
    <3>1. CASE \E d \in Celery : \/ \E m \in queue : Take(d, m)
                                \/ Run(d) \/ Retry(d) \/ WorkerLost(d)
      BY <1>1, <2>1, <3>1 DEF Take, Run, DeleteObject, HeadObject, SelectRows, SaveRows, Retry,
         WorkerLost, Done, Doing, Base, TypeOK
    <3>2. CASE UNCHANGED job
      BY <1>1, <2>1, <3>2
    <3>3. QED
      BY <1>1, <3>1, <3>2 DEF Next, GenerateUploadUrl, Upload, Expire, Begin, ConfirmUpload,
         RemoveReceipt, DeleteOrRestore, Clean, CleanerStops, ListObjects, ReadExpenses,
         DispatchDeletes
  <2>3. CASE SaveRows(c)
    <3>1. urls' = [urls EXCEPT ![Owner[Key(c)]] = urls[Owner[Key(c)]] \ {Key(c)}]
      BY <2>1, <2>3 DEF SaveRows, Kept
    <3>2. QED
      BY <3>1 DEF Base, TypeOK
  <2>4. CASE Retry(c) \/ WorkerLost(c)
    BY <2>4 DEF Retry, WorkerLost
  <2>5. QED
    BY <2>2, <2>3, <2>4
<1>2. TurnInv /\ [TurnNext]_<<vars, inTurn>> => [inTurn => OnlyKeyRemoved]_<<vars, inTurn>>
  BY <1>1 DEF TurnInv, TurnNext, OnlyKeyRemoved
<1>3. QED
  BY <1>2, TurnInvariant, PTL DEF TurnSpec, OnlyMatchingKeyRemovedInTurn

\* In turn, whoever confirms or removes a key adds no other one to the row
\* (ReceiptService.confirm_upload and remove_receipt).
THEOREM NoKeyIsRevived == TurnSpec => RemovedKeysStayAwayInTurn
<1>1. ASSUME Base, CopiesCurrent, Next, NEW w \in Workers, req[w] # Idle, req'[w] = Idle
      PROVE  urls'[req[w].row] \subseteq urls[req[w].row] \cup {req[w].key}
  <2>1. req[w] \in Request /\ req[w].copy = urls[req[w].row] /\ req[w].row \in Rows
    BY <1>1 DEF CopiesCurrent, Base, TypeOK, Request
  <2>2. ConfirmUpload(w) \/ RemoveReceipt(w)
    <3>1. CASE \E v \in Workers :
                  \/ \E op \in {"confirm", "remove"}, r \in Rows, k \in Keys : Begin(v, op, r, k)
                  \/ ConfirmUpload(v) \/ RemoveReceipt(v)
      BY <1>1, <3>1 DEF Begin, ConfirmUpload, RemoveReceipt, Base, TypeOK
    <3>2. CASE UNCHANGED req
      BY <1>1, <3>2
    <3>3. QED
      BY <1>1, <3>1, <3>2 DEF Next, GenerateUploadUrl, Upload, Expire, DeleteOrRestore, Take,
         Run, DeleteObject, HeadObject, SelectRows, SaveRows, Retry, WorkerLost, Clean,
         CleanerStops, ListObjects, ReadExpenses, DispatchDeletes
  <2>3. CASE ConfirmUpload(w)
    BY <2>1, <2>3 DEF ConfirmUpload, Added, Base, TypeOK
  <2>4. CASE RemoveReceipt(w)
    BY <2>1, <2>4 DEF RemoveReceipt, Base, TypeOK
  <2>5. QED
    BY <2>2, <2>3, <2>4
<1>2. TurnInv /\ [TurnNext]_<<vars, inTurn>> => [inTurn => NothingRevived]_<<vars, inTurn>>
  BY <1>1 DEF TurnInv, TurnNext, NothingRevived
<1>3. QED
  BY <1>2, TurnInvariant, PTL DEF TurnSpec, RemovedKeysStayAwayInTurn

\* In turn, the cleaner deletes nothing that an expense or a payment refers to
\* (cleanup_orphan_s3_files).
THEOREM ReferencedKept == TurnSpec => KnownKeysKeptInTurn
<1>1. ASSUME Base, CopiesCurrent, Next, cleaner # Idle, cleaner' = Idle,
             NEW m \in queue' \ queue, m.task = "delete_s3_object"
      PROVE  ~Referenced(m.key)
  <2>1. DispatchDeletes \/ CleanerStops
    BY <1>1 DEF Next, GenerateUploadUrl, Upload, Expire, DeleteOrRestore, Begin, ConfirmUpload,
       RemoveReceipt, Take, Run, DeleteObject, HeadObject, SelectRows, SaveRows, Retry,
       WorkerLost, Clean, ListObjects, ReadExpenses, Idle
  <2>2. cleaner.step = "read" /\ \E some \in SUBSET Orphans : m \in DeletionsOf(some)
    BY <1>1, <2>1 DEF DispatchDeletes, CleanerStops
  <2>3. m.key \in Orphans /\ cleaner.referenced = UrlsOf(Expenses \ deleted)
    BY <1>1, <2>2 DEF DeletionsOf, CopiesCurrent
  <2>4. cleaner \in Cleaning /\ m.key \in Keys
    BY <1>1, <2>3 DEF Base, TypeOK, Orphans, Cleaning
  <2>5. ASSUME Referenced(m.key)
        PROVE  FALSE
    <3>1. Owner[m.key] \in Rows /\ m.key \in urls[Owner[m.key]] /\ Owner[m.key] \notin deleted
      BY <2>4, <2>5, ParametersAssumption DEF Referenced
    <3>2. m.key \notin UrlsOf(Expenses \ deleted) /\ m.key \notin UrlsOf(Payments)
      BY <2>3 DEF Orphans
    <3>3. Owner[m.key] \in Expenses \ deleted \/ Owner[m.key] \in Payments
      BY <3>1 DEF Rows
    <3>4. QED
      BY <3>1, <3>2, <3>3 DEF UrlsOf
  <2>6. QED
    BY <2>5
<1>2. TurnInv /\ [TurnNext]_<<vars, inTurn>> => [inTurn => OrphansOnly]_<<vars, inTurn>>
  BY <1>1 DEF TurnInv, TurnNext, OrphansOnly
<1>3. QED
  BY <1>2, TurnInvariant, PTL DEF TurnSpec, KnownKeysKeptInTurn
===============================================================================
