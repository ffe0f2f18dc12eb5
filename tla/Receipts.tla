------------------------------- MODULE Receipts --------------------------------
(***************************************************************************)
(* Files attached to expenses (receipts) and to payments (proofs): the     *)
(* list of keys in the row, the objects in S3, and the Celery tasks that   *)
(* keep the two together.  The list is one column: whoever saves it        *)
(* writes all of it, from a copy loaded earlier.  Queued messages that are *)
(* equal count as one.                                                     *)
(***************************************************************************)
EXTENDS Integers, FiniteSets

CONSTANTS
    Expenses, Payments,     \* rows files are attached to
    Keys,
    Owner,                  \* Owner[k]: the row k names in its prefix
    Workers,                \* web workers
    Celery,                 \* processes running tasks
    MaxRetries,             \* of a task
    MaxActive,              \* bound: requests and tasks under way at once
    MaxFaults               \* bound: crashes, outages of S3 or the broker

Rows == Expenses \cup Payments

ASSUME ParametersAssumption ==
    /\ Expenses \cap Payments = {} /\ Owner \in [Keys -> Rows]
    /\ IsFiniteSet(Workers) /\ IsFiniteSet(Celery)
    /\ MaxRetries \in Nat /\ MaxActive \in Nat /\ MaxFaults \in Nat

VARIABLES
    urls,       \* urls[r]: receipt_urls or proof_urls
    deleted,    \* soft-deleted expenses
    link,       \* link[k]: the presigned upload URL of k
    s3,         \* keys of the objects in the bucket
    req,        \* what each web worker is doing
    queue,      \* messages waiting at the broker
    job,        \* what each Celery process is doing
    cleaner,    \* the weekly task
    faults      \* so far

vars == <<urls, deleted, link, s3, req, queue, job, cleaner, faults>>

Idle == [step |-> "idle"]
Message == [task : {"s3_confirm_upload", "delete_s3_object"}, key : Keys,
            tries : 0 .. MaxRetries]
Request == [op : {"confirm", "remove"}, row : Rows, key : Keys, copy : SUBSET Keys]
Job == [message : Message, step : {"start", "missing", "loaded"}, copy : SUBSET Keys]
Cleaning == [step : {"listed", "read"}, listed : SUBSET Keys, referenced : SUBSET Keys]

TypeOK ==
    /\ urls \in [Rows -> SUBSET Keys] /\ deleted \subseteq Expenses
    /\ \A r \in Rows : \A k \in urls[r] : Owner[k] = r
    /\ link \in [Keys -> {"none", "open", "expired"}]
    /\ s3 \subseteq Keys
    /\ req \in [Workers -> Request \cup {Idle}]
    /\ queue \subseteq Message
    /\ job \in [Celery -> Job \cup {Idle}]
    /\ cleaner \in Cleaning \cup {Idle}
    /\ faults \in 0 .. MaxFaults

Init ==
    /\ urls = [r \in Rows |-> {}] /\ deleted = {}
    /\ link = [k \in Keys |-> "none"] /\ s3 = {}
    /\ req = [w \in Workers |-> Idle] /\ queue = {}
    /\ job = [c \in Celery |-> Idle] /\ cleaner = Idle
    /\ faults = 0

Active ==
    Cardinality({w \in Workers : req[w] # Idle})
        + Cardinality({c \in Celery : job[c] # Idle})
        + (IF cleaner = Idle THEN 0 ELSE 1)
MayStart == Active < MaxActive

Fault == faults < MaxFaults /\ faults' = faults + 1

-------------------------------------------------------------------------------
(* The client and the web workers.                                           *)

\* generate_upload_url: a fresh key, a URL to put the object with.
GenerateUploadUrl(k) ==
    /\ link[k] = "none" /\ Owner[k] \notin deleted
    /\ link' = [link EXCEPT ![k] = "open"]
    /\ UNCHANGED <<urls, deleted, s3, req, queue, job, cleaner, faults>>

Upload(k) ==
    /\ link[k] = "open"
    /\ s3' = s3 \cup {k}
    /\ UNCHANGED <<urls, deleted, link, req, queue, job, cleaner, faults>>

Expire(k) ==
    /\ link[k] = "open"
    /\ link' = [link EXCEPT ![k] = "expired"]
    /\ UNCHANGED <<urls, deleted, s3, req, queue, job, cleaner, faults>>

\* _validate_receipt_key, _validate_proof_key.
BelongsHere(r, k) == Owner[k] = r

\* The view loads the row; the service looks the key up in the loaded list.
Begin(w, op, r, k) ==
    LET c == [op |-> op, row |-> r, key |-> k, copy |-> urls[r]] IN
    /\ req[w] = Idle /\ MayStart
    /\ link[k] # "none" /\ r \notin deleted
    /\ op = "confirm" => BelongsHere(r, k) /\ k \notin urls[r]
    /\ op = "remove" => r \in Expenses /\ k \in urls[r]
    /\ req' = [req EXCEPT ![w] = c]
    /\ UNCHANGED <<urls, deleted, link, s3, queue, job, cleaner, faults>>

\* After the commit; a broker that is down is logged or answered with a 500.
Publish(t, k) ==
    \/ /\ queue' = queue \cup {[task |-> t, key |-> k, tries |-> 0]}
       /\ UNCHANGED faults
    \/ Fault /\ UNCHANGED queue

\* Mutant of Added: whatever has been uploaded for the row is added.
AddedFromBucket(c) == c.copy \cup {c.key} \cup {k \in s3 : Owner[k] = c.row}

Added(c) == c.copy \cup {c.key}

\* confirm_upload, of receipts and of proofs.
ConfirmUpload(w) ==
    LET c == req[w] IN
    /\ c # Idle /\ c.op = "confirm"
    /\ urls' = [urls EXCEPT ![c.row] = Added(c)]
    /\ Publish("s3_confirm_upload", c.key)
    /\ req' = [req EXCEPT ![w] = Idle]
    /\ UNCHANGED <<deleted, link, s3, job, cleaner>>

RemoveReceipt(w) ==
    LET c == req[w] IN
    /\ c # Idle /\ c.op = "remove"
    /\ urls' = [urls EXCEPT ![c.row] = c.copy \ {c.key}]
    /\ Publish("delete_s3_object", c.key)
    /\ req' = [req EXCEPT ![w] = Idle]
    /\ UNCHANGED <<deleted, link, s3, job, cleaner>>

\* soft_delete and restore of an expense, see Expenses: the list stays.
DeleteOrRestore(r) ==
    /\ MayStart
    /\ deleted' = IF r \in deleted THEN deleted \ {r} ELSE deleted \cup {r}
    /\ UNCHANGED <<urls, link, s3, req, queue, job, cleaner, faults>>

-------------------------------------------------------------------------------
(* The tasks.  A message is acknowledged when its task has ended.            *)

Doing(c, t, step) ==
    job[c] # Idle /\ job[c].message.task = t /\ job[c].step = step
Key(c) == job[c].message.key

Take(c, m) ==
    /\ job[c] = Idle /\ m \in queue /\ MayStart
    /\ job' = [job EXCEPT ![c] = [message |-> m, step |-> "start", copy |-> {}]]
    /\ queue' = queue \ {m}
    /\ UNCHANGED <<urls, deleted, link, s3, req, cleaner, faults>>

Done(c) == job' = [job EXCEPT ![c] = Idle]

DeleteObject(c) ==
    /\ Doing(c, "delete_s3_object", "start")
    /\ s3' = s3 \ {Key(c)}
    /\ Done(c)
    /\ UNCHANGED <<urls, deleted, link, req, queue, cleaner, faults>>

HeadObject(c) ==
    /\ Doing(c, "s3_confirm_upload", "start")
    /\ IF Key(c) \in s3 THEN Done(c) ELSE job' = [job EXCEPT ![c].step = "missing"]
    /\ UNCHANGED <<urls, deleted, link, s3, req, queue, cleaner, faults>>

\* The rows that hold the key; deleted expenses are not looked at.
SelectRows(c) ==
    LET r == Owner[Key(c)] IN
    /\ Doing(c, "s3_confirm_upload", "missing")
    /\ IF r \notin deleted /\ Key(c) \in urls[r]
       THEN job' = [job EXCEPT ![c].step = "loaded", ![c].copy = urls[r]]
       ELSE Done(c)
    /\ UNCHANGED <<urls, deleted, link, s3, req, queue, cleaner, faults>>

\* Mutant of Kept: the whole list goes.
KeptNone(c) == {}

Kept(c) == job[c].copy \ {Key(c)}

SaveRows(c) ==
    /\ Doing(c, "s3_confirm_upload", "loaded")
    /\ urls' = [urls EXCEPT ![Owner[Key(c)]] = Kept(c)]
    /\ Done(c)
    /\ UNCHANGED <<deleted, link, s3, req, queue, cleaner, faults>>

\* self.retry: the message comes back until its tries are used up.
Retry(c) ==
    LET m == job[c].message IN
    /\ job[c] # Idle /\ Fault
    /\ queue' = IF m.tries < MaxRetries THEN queue \cup {[m EXCEPT !.tries = @ + 1]}
                ELSE queue
    /\ Done(c)
    /\ UNCHANGED <<urls, deleted, link, s3, req, cleaner>>

\* task_reject_on_worker_lost: the same message comes back.
WorkerLost(c) ==
    /\ job[c] # Idle /\ Fault
    /\ queue' = queue \cup {job[c].message}
    /\ Done(c)
    /\ UNCHANGED <<urls, deleted, link, s3, req, cleaner>>

-------------------------------------------------------------------------------
(* cleanup_orphan_s3_files: the bucket, the expenses, the payments, in that  *)
(* order.                                                                    *)

ListObjects ==
    /\ cleaner = Idle /\ s3 # {} /\ MayStart
    /\ cleaner' = [step |-> "listed", listed |-> s3, referenced |-> {}]
    /\ UNCHANGED <<urls, deleted, link, s3, req, queue, job, faults>>

UrlsOf(rows) == UNION {urls[r] : r \in rows}

ReadExpenses ==
    /\ cleaner # Idle /\ cleaner.step = "listed"
    /\ cleaner' = [cleaner EXCEPT !.step = "read",
                                  !.referenced = UrlsOf(Expenses \ deleted)]
    /\ UNCHANGED <<urls, deleted, link, s3, req, queue, job, faults>>

\* Mutants of Orphans: the expenses are forgotten, or nothing is an orphan.
OrphansOfPayments == cleaner.listed \ UrlsOf(Payments)
OrphansNever == {}

Orphans == cleaner.listed \ (cleaner.referenced \cup UrlsOf(Payments))

DeletionsOf(keys) == {[task |-> "delete_s3_object", key |-> k, tries |-> 0] : k \in keys}

DispatchDeletes ==
    /\ cleaner # Idle /\ cleaner.step = "read"
    /\ queue' = queue \cup DeletionsOf(Orphans)
    /\ cleaner' = Idle
    /\ UNCHANGED <<urls, deleted, link, s3, req, job, faults>>

\* The task failed or its process was lost, perhaps after some deletions were
\* published; it starts over or waits a week.
CleanerStops ==
    /\ cleaner # Idle /\ Fault
    /\ \/ UNCHANGED queue
       \/ /\ cleaner.step = "read"
          /\ \E some \in SUBSET Orphans : queue' = queue \cup DeletionsOf(some)
    /\ cleaner' = Idle
    /\ UNCHANGED <<urls, deleted, link, s3, req, job>>

-------------------------------------------------------------------------------
Run(c) == DeleteObject(c) \/ HeadObject(c) \/ SelectRows(c) \/ SaveRows(c)
Clean == ListObjects \/ ReadExpenses \/ DispatchDeletes

Next ==
    \/ \E k \in Keys : GenerateUploadUrl(k) \/ Upload(k) \/ Expire(k)
    \/ \E w \in Workers :
          \/ \E op \in {"confirm", "remove"}, r \in Rows, k \in Keys : Begin(w, op, r, k)
          \/ ConfirmUpload(w) \/ RemoveReceipt(w)
    \/ \E r \in Expenses : DeleteOrRestore(r)
    \/ \E c \in Celery :
          \/ \E m \in queue : Take(c, m)
          \/ Run(c) \/ Retry(c) \/ WorkerLost(c)
    \/ Clean \/ CleanerStops

Spec == Init /\ [][Next]_vars

Deletions == {m \in Message : m.task = "delete_s3_object"}

\* Requests end, processes work, the schedule starts the cleaner and the broker
\* hands every deletion out.
Fairness ==
    /\ \A w \in Workers : WF_vars(ConfirmUpload(w) \/ RemoveReceipt(w))
    /\ \A c \in Celery : /\ WF_vars(Run(c))
                         /\ \A m \in Deletions : SF_vars(Take(c, m))
    /\ SF_vars(ListObjects) /\ WF_vars(ReadExpenses) /\ WF_vars(DispatchDeletes)

FairSpec == Spec /\ Fairness

-------------------------------------------------------------------------------
(* Properties.                                                               *)

Referenced(k) == Owner[k] \notin deleted /\ k \in urls[Owner[k]]

\* The check of a missing object removes its key and no other
\* (test_s3_confirm_upload_only_removes_matching_key).
OnlyKeyRemoved ==
    \A c \in Celery, r \in Rows :
        Doing(c, "s3_confirm_upload", "loaded") /\ job'[c] = Idle
           => urls[r] \ urls'[r] \subseteq {Key(c)}
OnlyMatchingKeyRemoved == [][OnlyKeyRemoved]_vars

\* A key the check removed stays away until it is confirmed again
\* (test_s3_confirm_upload_removes_stale_key_when_object_missing).
NothingRevived ==
    \A w \in Workers :
        req[w] # Idle /\ req'[w] = Idle
           => urls'[req[w].row] \subseteq urls[req[w].row] \cup {req[w].key}
RemovedKeysStayAway == [][NothingRevived]_vars

\* The cleaner dispatches no deletion of a file that is referenced
\* (test_cleanup_orphan_dispatches_delete_for_unreferenced_keys).
OrphansOnly ==
    cleaner # Idle /\ cleaner' = Idle
       => \A m \in queue' \ queue :
             m.task = "delete_s3_object" => ~Referenced(m.key)
KnownKeysKept == [][OrphansOnly]_vars

\* An object nobody refers to does not stay for ever, whatever failed on the way
\* (cleanup_orphan_s3_files).
OrphansGo ==
    \A k \in Keys :
        <>[](~Referenced(k) /\ link[k] # "open") => <>[](k \notin s3)
===============================================================================
