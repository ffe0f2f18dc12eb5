----------------------------- MODULE Entitlements ------------------------------
(***************************************************************************)
(* The ad-free entitlement of one user (apps/ads), who may subscribe on    *)
(* the web (Stripe) and in an app store (RevenueCat).  Both tell the       *)
(* backend what happened by webhooks, which are handled in the request     *)
(* itself, and sent again when the answer is not a 200.  A handler loads   *)
(* the user, and saves the four entitlement columns later, with no lock.   *)
(***************************************************************************)
EXTENDS Integers, Sequences, SequencesExt, FiniteSets

CONSTANTS
    Subs,                   \* checkout sessions, and the subscriptions they lead to
    Customers,              \* of Stripe
    NoCustomer,
    Workers,                \* web workers serving requests
    MaxChanges,             \* bound: changes of paid subscriptions and of purchases
    MaxFaults               \* bound: failed requests and lost answers

ASSUME EntitlementsAssumption ==
    /\ NoCustomer \notin Customers
    /\ IsFiniteSet(Subs)
    /\ MaxChanges \in Nat /\ MaxFaults \in Nat

VARIABLES
    user,       \* the columns of the user
    sub,        \* sub[s], at Stripe
    sent,       \* Stripe events that are not delivered yet
    store,      \* the entitlement at RevenueCat
    told,       \* RevenueCat events that are not delivered yet
    req,        \* what each worker is doing
    late,       \* an event was delivered after a younger one
    unsynced,   \* a subscription could not be retrieved
    changes, faults

world == <<sub, sent, store, told, changes>>
vars == <<user, sub, sent, store, told, req, late, unsynced, changes, faults>>

Active == {"active", "canceling"}           \* canceling: cancel_at_period_end
Paid == Active \cup {"past_due"}
Statuses == Paid \cup {"none", "open", "canceled"}
StoreStatuses == {"none", "active", "canceled", "expired"}
Event == [type : {"created", "updated", "deleted", "completed"}, sub : Subs,
          status : Statuses]
StoreEvent == {"INITIAL_PURCHASE", "CANCELLATION", "EXPIRATION"}
Idle == [step |-> "idle"]
StripeRequest == [step : {"received", "bound", "retrieved", "loaded"},
                  from : {"stripe"}, event : Event, status : Statuses]
StoreRequest == [step : {"received", "loaded"}, from : {"store"}, event : StoreEvent,
                 customer : Customers \cup {NoCustomer}]
SyncRequest == [step : {"asking", "answered"}, from : {"app"}, answer : StoreStatuses,
                customer : Customers \cup {NoCustomer}]

TypeOK ==
    /\ user \in [customer : Customers \cup {NoCustomer}, adFree : BOOLEAN,
                 status : {"unset", "active", "past_due", "canceled", "expired"}]
    /\ sub \in [Subs -> [status : Statuses, customer : Customers \cup {NoCustomer}]]
    /\ sent \in Seq(Event) /\ told \in Seq(StoreEvent)
    /\ store \in StoreStatuses
    /\ req \in [Workers -> {Idle} \cup StripeRequest \cup StoreRequest \cup SyncRequest]
    /\ late \in BOOLEAN /\ unsynced \in BOOLEAN
    /\ changes \in Nat /\ faults \in 0 .. MaxFaults

Init ==
    /\ user = [customer |-> NoCustomer, adFree |-> FALSE, status |-> "unset"]
    /\ sub = [s \in Subs |-> [status |-> "none", customer |-> NoCustomer]]
    /\ sent = <<>> /\ told = <<>> /\ store = "none"
    /\ req = [w \in Workers |-> Idle]
    /\ late = FALSE /\ unsynced = FALSE /\ changes = 0 /\ faults = 0

Fault == faults < MaxFaults /\ faults' = faults + 1
Change == changes < MaxChanges /\ changes' = changes + 1

-------------------------------------------------------------------------------
(* Stripe and the stores.                                                    *)

Mark(type, s, status) == [type |-> type, sub |-> s, status |-> status]

\* create_checkout_session: the session keeps the customer the user has now.
OpenCheckout(w, s) ==
    /\ req[w] = Idle /\ sub[s].status = "none"
    /\ ~(user.adFree /\ user.status = "active")
    /\ sub' = [sub EXCEPT ![s] = [status |-> "open", customer |-> user.customer]]
    /\ UNCHANGED <<user, sent, store, told, req, late, unsynced, changes, faults>>

\* The user pays.  A session without a customer makes a new one.
Subscribe(s) ==
    LET created == Mark("created", s, "active")
        completed == Mark("completed", s, "active") IN
    /\ sub[s].status = "open"
    /\ \E c \in Customers :
           /\ IF sub[s].customer = NoCustomer
              THEN \A other \in Subs : sub[other].customer # c
              ELSE c = sub[s].customer
           /\ sub' = [sub EXCEPT ![s] = [status |-> "active", customer |-> c]]
    /\ sent' \in {sent \o <<created, completed>>, sent \o <<completed, created>>}
    /\ UNCHANGED <<user, store, told, req, late, unsynced, changes, faults>>

\* A payment fails or is made, the user cancels or resumes in the portal.
Vary(s, to) ==
    /\ Change
    /\ <<sub[s].status, to>> \in {<<"active", "past_due">>, <<"past_due", "active">>,
                                  <<"active", "canceling">>, <<"canceling", "active">>}
    /\ sub' = [sub EXCEPT ![s].status = to]
    /\ sent' = Append(sent, Mark("updated", s, to))
    /\ UNCHANGED <<user, store, told, req, late, unsynced, faults>>

End(s) ==
    /\ Change /\ sub[s].status \in Paid
    /\ sub' = [sub EXCEPT ![s].status = "canceled"]
    /\ sent' = Append(sent, Mark("deleted", s, "canceled"))
    /\ UNCHANGED <<user, store, told, req, late, unsynced, faults>>

StoreChange(event) ==
    /\ Change
    /\ \/ event = "INITIAL_PURCHASE" /\ store \in {"none", "expired"} /\ store' = "active"
       \/ event = "CANCELLATION" /\ store = "active" /\ store' = "canceled"
       \/ event = "EXPIRATION" /\ store \in {"active", "canceled"} /\ store' = "expired"
    /\ told' = Append(told, event)
    /\ UNCHANGED <<user, sub, sent, req, late, unsynced, faults>>

-------------------------------------------------------------------------------
(* Webhooks.                                                                 *)

ReceiveStripe(w, i) ==
    /\ req[w] = Idle /\ i \in DOMAIN sent
    /\ req' = [req EXCEPT ![w] = [step |-> "received", from |-> "stripe",
                                  event |-> sent[i], status |-> sent[i].status]]
    /\ sent' = RemoveAt(sent, i)
    /\ late' = (late \/ i # 1)
    /\ UNCHANGED <<user, sub, store, told, unsynced, changes, faults>>

ReceiveStore(w, i) ==
    /\ req[w] = Idle /\ i \in DOMAIN told
    /\ req' = [req EXCEPT ![w] = [step |-> "received", from |-> "store",
                                  event |-> told[i], customer |-> NoCustomer]]
    /\ told' = RemoveAt(told, i)
    /\ late' = (late \/ i # 1)
    /\ UNCHANGED <<user, sub, sent, store, unsynced, changes, faults>>

At(w, from, step) == req[w] # Idle /\ req[w].from = from /\ req[w].step = step

\* The event comes again: the request failed, or its answer was lost.
SentAgain(w) ==
    /\ Fault
    /\ sent' = IF req[w].from = "stripe" THEN <<req[w].event>> \o sent ELSE sent
    /\ told' = IF req[w].from = "store" THEN <<req[w].event>> \o told ELSE told

Finish(w) ==
    /\ req' = [req EXCEPT ![w] = Idle]
    /\ SentAgain(w) \/ UNCHANGED <<sent, told, faults>>

Fail(w) ==
    /\ req[w] # Idle /\ SentAgain(w)
    /\ req' = [req EXCEPT ![w] = Idle]
    /\ UNCHANGED <<user, sub, store, late, unsynced, changes>>

\* Mutant of Bind: the subscription is not retrieved.
BindOnly(w) ==
    LET e == req[w].event IN
    /\ At(w, "stripe", "received") /\ e.type = "completed"
    /\ user' = [user EXCEPT !.customer = sub[e.sub].customer]
    /\ req' = [req EXCEPT ![w] = Idle]
    /\ UNCHANGED <<sub, sent, store, told, late, unsynced, changes, faults>>

\* checkout.session.completed binds the customer, by an UPDATE.
Bind(w) ==
    LET e == req[w].event IN
    /\ At(w, "stripe", "received") /\ e.type = "completed"
    /\ user' = [user EXCEPT !.customer = sub[e.sub].customer]
    /\ req' = [req EXCEPT ![w].step = "bound"]
    /\ UNCHANGED <<sub, sent, store, told, late, unsynced, changes, faults>>

\* Subscription.retrieve; an error is logged, and the answer is a 200.
Retrieve(w) ==
    /\ At(w, "stripe", "bound")
    /\ \/ /\ req' = [req EXCEPT ![w].step = "retrieved",
                                ![w].status = sub[req[w].event.sub].status]
          /\ UNCHANGED <<unsynced, faults>>
       \/ Fault /\ unsynced' = TRUE /\ req' = [req EXCEPT ![w] = Idle]
    /\ UNCHANGED <<user, sub, sent, store, told, late, changes>>

\* apply_subscription_event: the user of that customer, or nobody.
LoadSubscriber(w) ==
    LET e == req[w].event IN
    /\ \/ At(w, "stripe", "retrieved")
       \/ At(w, "stripe", "received") /\ e.type # "completed"
    /\ IF user.customer = sub[e.sub].customer
       THEN req' = [req EXCEPT ![w].step = "loaded"] /\ UNCHANGED <<sent, told, faults>>
       ELSE Finish(w)
    /\ UNCHANGED <<user, sub, store, late, unsynced, changes>>

\* Mutant of Granted: only the end of a subscription takes the grant away.
GrantedUntilDeleted(type, status) == type # "deleted"

Granted(type, status) ==
    LET grant == CASE type \in {"created", "completed"} -> TRUE
                   [] type = "updated" -> status \in Active
                   [] type = "deleted" -> FALSE
    IN  grant /\ status \in Active

Displayed(status) == IF status = "canceling" THEN "canceled" ELSE status

SaveSubscription(w) ==
    LET c == req[w] IN
    /\ At(w, "stripe", "loaded")
    /\ user' = [user EXCEPT !.adFree = Granted(c.event.type, c.status),
                            !.status = Displayed(c.status)]
    /\ Finish(w)
    /\ UNCHANGED <<sub, store, late, unsynced, changes>>

-------------------------------------------------------------------------------
(* RevenueCat.                                                               *)

LoadUser(w) ==
    /\ At(w, "store", "received")
    /\ req' = [req EXCEPT ![w].step = "loaded", ![w].customer = user.customer]
    /\ UNCHANGED <<user, late, unsynced, faults, world>>

\* apply_revenuecat_entitlement.
Entitled(grant, status) == [user EXCEPT !.adFree = grant, !.status = status]

\* Mutant of StripeDecides: the cross-provider guard is missing.
StripeDecidesNever(c) == FALSE

\* A cancellation or expiration of a user with a Stripe customer is ignored.
StripeDecides(c) == c.customer # NoCustomer

\* Mutant of AfterEvent: a cancellation ends the access at once.
AfterEventAtOnce(c) ==
    CASE c.event = "INITIAL_PURCHASE" -> Entitled(TRUE, "active")
      [] c.event # "INITIAL_PURCHASE" ->
             IF StripeDecides(c) THEN user ELSE Entitled(FALSE, "expired")

\* process_rc_event.
AfterEvent(c) ==
    CASE c.event = "INITIAL_PURCHASE" -> Entitled(TRUE, "active")
      [] c.event = "CANCELLATION"     ->
             IF StripeDecides(c) THEN user ELSE Entitled(TRUE, "canceled")
      [] c.event = "EXPIRATION"       ->
             IF StripeDecides(c) THEN user ELSE Entitled(FALSE, "expired")

SaveEvent(w) ==
    /\ At(w, "store", "loaded")
    /\ user' = AfterEvent(req[w])
    /\ Finish(w)
    /\ UNCHANGED <<sub, store, late, unsynced, changes>>

\* sync_revenuecat_status: the user was loaded with the request.
BeginSync(w) ==
    /\ req[w] = Idle
    /\ req' = [req EXCEPT ![w] = [step |-> "asking", from |-> "app", answer |-> "none",
                                  customer |-> user.customer]]
    /\ UNCHANGED <<user, late, unsynced, faults, world>>

AskRevenueCat(w) ==
    /\ At(w, "app", "asking")
    /\ req' = [req EXCEPT ![w].step = "answered", ![w].answer = store]
    /\ UNCHANGED <<user, late, unsynced, faults, world>>

AfterSync(c) ==
    CASE c.answer = "none"                -> user
      [] c.answer \in {"active", "canceled"} -> Entitled(TRUE, c.answer)
      [] c.answer = "expired"             ->
             IF StripeDecides(c) THEN user ELSE Entitled(FALSE, "expired")

SaveSync(w) ==
    /\ At(w, "app", "answered")
    /\ user' = AfterSync(req[w])
    /\ req' = [req EXCEPT ![w] = Idle]
    /\ UNCHANGED <<late, unsynced, faults, world>>

Next ==
    \/ \E s \in Subs :
          \/ Subscribe(s) \/ End(s)
          \/ \E to \in Paid : Vary(s, to)
    \/ \E event \in StoreEvent : StoreChange(event)
    \/ \E w \in Workers :
          \/ \E s \in Subs : OpenCheckout(w, s)
          \/ \E i \in DOMAIN sent : ReceiveStripe(w, i)
          \/ \E i \in DOMAIN told : ReceiveStore(w, i)
          \/ Bind(w) \/ Retrieve(w) \/ LoadSubscriber(w) \/ SaveSubscription(w)
          \/ LoadUser(w) \/ SaveEvent(w) \/ Fail(w)
          \/ BeginSync(w) \/ AskRevenueCat(w) \/ SaveSync(w)

Spec == Init /\ [][Next]_vars

-------------------------------------------------------------------------------
(* Properties.                                                               *)

\* Everything was delivered, in order, and handled.
Settled ==
    /\ sent = <<>> /\ told = <<>> /\ \A w \in Workers : req[w] = Idle
    /\ ~late /\ ~unsynced

\* What the customer of the user was ever charged for.
Billed ==
    {s \in Subs : sub[s].customer = user.customer /\ sub[s].customer # NoCustomer
                      /\ sub[s].status # "open"}
Subscribed == \E s \in Billed : sub[s].status \in Active

\* Once everything is delivered, a user who pays Stripe sees no ads, whatever
\* happened at RevenueCat and whichever requests failed and came again
\* (docs/phase23_ads_smoke_checklist.md: "After subscribing ... still ad-free").
SubscribersSeeNoAds == Settled /\ Subscribed => user.adFree

\* The same of a customer with one subscription.
FirstSubscriptionSeesNoAds == Cardinality(Billed) <= 1 => SubscribersSeeNoAds

\* Once everything is delivered, a user without any purchase in a store sees ads
\* again after the subscription has ended ("webhook ... ads return").
AdsReturn ==
    Settled /\ store = "none" /\ Cardinality(Billed) <= 1 /\ user.adFree => Subscribed

\* Once everything is delivered, a user who never subscribed on the web is ad-free
\* exactly while the purchase in the store lasts, also after it is canceled
\* ("Keep ad-free until the expiry date").
StoreMirrored ==
    Settled /\ user.customer = NoCustomer
        => (user.adFree <=> store \in {"active", "canceled"})

\* RevenueCat does not take away what a Stripe customer has, in whatever order
\* events arrive ("Stripe webhooks are the authority once a Stripe customer exists").
StripeIsTheAuthority ==
    [][user.adFree /\ ~user'.adFree /\ user.customer # NoCustomer
          => \E w \in Workers : At(w, "stripe", "loaded")]_vars
===============================================================================
