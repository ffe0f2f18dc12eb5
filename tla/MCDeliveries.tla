----------------------------- MODULE MCDeliveries ------------------------------
(***************************************************************************)
(* Deliveries of one expense or one payment, by one Celery process or two: *)
(* which is chosen at the start.                                           *)
(***************************************************************************)
EXTENDS Deliveries, TLC

CONSTANTS
    u1, u2, x1, p1, c1,
    MaxVersionsOverlapping, \* bound: versions with two processes
    MaxQueued               \* bound: messages that wait when a row is written

VARIABLES inTurn, subject

PartiesOfOne == p1 :> <<u2, u1>>

allVars == <<vars, inTurn, subject>>

TurnInit == Init /\ inTurn \in BOOLEAN /\ subject \in Rows

TurnNext ==
    /\ Next
    /\ IF inTurn THEN \A c \in Celery \ {c1} : job'[c] = Idle
       ELSE version'[subject] <= MaxVersionsOverlapping
    /\ \A x \in Rows \ {subject} : version'[x] = 0
    /\ version' # version => Cardinality(queue') <= MaxQueued
    /\ UNCHANGED <<inTurn, subject>>

\* One process or two, a message that waits can be taken by one that is idle.
TurnSpec == TurnInit /\ [][TurnNext]_allVars /\ Fairness

-------------------------------------------------------------------------------
(* Properties.                                                               *)

\* With one process, a later mail never has older news than an earlier one (the
\* task reads what it sends when it runs).
NewsInOrderInTurn == [][inTurn => NewerOnly]_allVars

\* With one process everybody has a mail with what a row says last, unless it was
\* deleted or more failed than is retried; with one or two, and whatever fails, a
\* notification (the retries of email_tasks.py and notification_tasks.py).
NewsArrivesInTurn ==
    \A x \in Rows, u \in Users :
        <>[]((inTurn => Informed(x, u)) /\ Notified(x, u))
===============================================================================
