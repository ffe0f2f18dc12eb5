--------------------------- MODULE PaymentLifecycle ---------------------------
(***************************************************************************)
(* What apps/transactions promises of a recorded payment: it is recorded   *)
(* once (with the other rows of the same call), stays pending until its    *)
(* receiver answers, and is answered once, by a confirmation or by a       *)
(* dispute.  Nothing is ever removed.                                      *)
(***************************************************************************)
VARIABLES
    pending,                \* recorded, not answered yet
    confirmed,
    disputed

vars == <<pending, confirmed, disputed>>

Init == pending = {} /\ confirmed = {} /\ disputed = {}

Recorded == pending \cup confirmed \cup disputed

\* One call records all its rows together.
Record(new) ==
    /\ new \cap Recorded = {}
    /\ pending' = pending \cup new
    /\ UNCHANGED <<confirmed, disputed>>

Confirm(r) ==
    /\ r \in pending
    /\ pending' = pending \ {r}
    /\ confirmed' = confirmed \cup {r}
    /\ UNCHANGED disputed

Dispute(r) ==
    /\ r \in pending
    /\ pending' = pending \ {r}
    /\ disputed' = disputed \cup {r}
    /\ UNCHANGED confirmed

Next ==
    \/ Record(pending' \ pending)
    \/ \E r \in pending : Confirm(r) \/ Dispute(r)

Spec == Init /\ [][Next]_vars
===============================================================================
