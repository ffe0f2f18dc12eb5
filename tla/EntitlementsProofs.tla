--------------------------- MODULE EntitlementsProofs ---------------------------
(***************************************************************************)
(* Type correctness of Entitlements for any number of workers.  Of         *)
(* requests that are served one at a time: Stripe is the authority, the    *)
(* stores are mirrored, and whoever has one subscription sees ads exactly  *)
(* when it has ended.                                                      *)
(***************************************************************************)
EXTENDS Entitlements, FiniteSetTheorems, TLAPS

LEMMA RemoveAtProperties ==
    ASSUME NEW S, NEW s \in Seq(S), NEW i \in DOMAIN s
    PROVE  /\ RemoveAt(s, i) \in Seq(S) /\ Len(RemoveAt(s, i)) = Len(s) - 1
           /\ \A j \in 1 .. Len(s) - 1 :
                 RemoveAt(s, i)[j] = IF j < i THEN s[j] ELSE s[j + 1]
<1> DEFINE front == SubSeq(s, 1, i - 1)
           back == SubSeq(s, i + 1, Len(s))
<1>1. i \in 1 .. Len(s) /\ Len(s) \in Nat
  OBVIOUS
<1>2. front \in Seq(S) /\ Len(front) = i - 1 /\ \A j \in 1 .. i - 1 : front[j] = s[j]
  BY <1>1
<1>3. /\ back \in Seq(S) /\ Len(back) = Len(s) - i
      /\ \A j \in 1 .. Len(s) - i : back[j] = s[i + j]
  BY <1>1
<1> HIDE DEF front, back
<1>4. /\ front \o back \in Seq(S) /\ Len(front \o back) = Len(s) - 1
      /\ \A j \in 1 .. Len(s) - 1 : (front \o back)[j] = IF j < i THEN s[j] ELSE s[j + 1]
  <2>1. front \o back \in Seq(S) /\ Len(front \o back) = Len(s) - 1
    BY <1>1, <1>2, <1>3
  <2>2. ASSUME NEW j \in 1 .. Len(s) - 1, j < i
        PROVE  (front \o back)[j] = s[j]
    BY <1>1, <1>2, <1>3, <2>2
  <2>3. ASSUME NEW j \in 1 .. Len(s) - 1, ~(j < i)
        PROVE  (front \o back)[j] = s[j + 1]
    <3>1. j - (i - 1) \in 1 .. Len(s) - i /\ i + (j - (i - 1)) = j + 1
      BY <1>1, <2>3
    <3>2. (front \o back)[j] = back[j - (i - 1)]
      BY <1>1, <1>2, <1>3, <2>3, SMTT(40)
    <3>3. QED
      BY <1>3, <3>1, <3>2
  <2>4. QED
    BY <2>1, <2>2, <2>3
<1>5. QED
  BY <1>4 DEF RemoveAt, front, back

LEMMA PrependProperties ==
    ASSUME NEW S, NEW s \in Seq(S), NEW e \in S
    PROVE  /\ <<e>> \o s \in Seq(S) /\ Len(<<e>> \o s) = Len(s) + 1
           /\ (<<e>> \o s)[1] = e
           /\ \A j \in 1 .. Len(s) : (<<e>> \o s)[j + 1] = s[j]
OBVIOUS

LEMMA AppendProperties ==
    ASSUME NEW S, NEW s \in Seq(S), NEW e \in S
    PROVE  /\ Append(s, e) \in Seq(S) /\ Len(Append(s, e)) = Len(s) + 1
           /\ Append(s, e)[Len(s) + 1] = e
           /\ \A j \in 1 .. Len(s) : Append(s, e)[j] = s[j]
OBVIOUS

LEMMA AppendTwoProperties ==
    ASSUME NEW S, NEW s \in Seq(S), NEW d \in S, NEW e \in S
    PROVE  /\ s \o <<d, e>> \in Seq(S) /\ Len(s \o <<d, e>>) = Len(s) + 2
           /\ (s \o <<d, e>>)[Len(s) + 1] = d /\ (s \o <<d, e>>)[Len(s) + 2] = e
           /\ \A j \in 1 .. Len(s) : (s \o <<d, e>>)[j] = s[j]
OBVIOUS

-------------------------------------------------------------------------------
(***************************************************************************)
(* Events are about subscriptions that were paid for, by a customer; which *)
(* is why no request saves a status the column has no value for.           *)
(***************************************************************************)
Reached == Paid \cup {"canceled"}
MadeIn(subscription, e) ==
    /\ subscription[e.sub].status \in Reached /\ subscription[e.sub].customer \in Customers
    /\ e.status \in Reached
Made(e) == MadeIn(sub, e)

FromStripe(w) == req[w] # Idle /\ req[w].from = "stripe"

EventsMade ==
    /\ \A s \in Subs : sub[s].status \in Reached => sub[s].customer \in Customers
    /\ \A i \in DOMAIN sent : Made(sent[i])
    /\ \A w \in Workers : FromStripe(w) => Made(req[w].event) /\ req[w].status \in Reached

Base == TypeOK /\ EventsMade

LEMMA RequestType ==
    ASSUME TypeOK, NEW w \in Workers, req[w] # Idle
    PROVE  /\ req[w].from \in {"stripe", "store", "app"}
           /\ req[w].from = "stripe" => req[w] \in StripeRequest
           /\ req[w].from = "store" => req[w] \in StoreRequest
           /\ req[w].from = "app" => req[w] \in SyncRequest
<1>1. req[w] \in StripeRequest \cup StoreRequest \cup SyncRequest
  BY DEF TypeOK
<1>2. QED
  BY <1>1 DEF StripeRequest, StoreRequest, SyncRequest

LEMMA RequestsAreNotIdle ==
    ASSUME NEW c \in StripeRequest \cup StoreRequest \cup SyncRequest
    PROVE  c # Idle
BY DEF StripeRequest, StoreRequest, SyncRequest, Idle

LEMMA ChangeType == TypeOK /\ Change => changes' \in Nat
BY DEF Change, TypeOK

LEMMA FaultType == TypeOK /\ Fault => faults' \in 0 .. MaxFaults
BY EntitlementsAssumption DEF Fault, TypeOK

\* What comes again is the event of the request.
LEMMA ResendType ==
    ASSUME Base, NEW w \in Workers, req[w] # Idle, SentAgain(w) \/ UNCHANGED <<sent, told, faults>>
    PROVE  /\ sent' \in Seq(Event) /\ told' \in Seq(StoreEvent) /\ faults' \in 0 .. MaxFaults
           /\ \A i \in DOMAIN sent' : MadeIn(sub, sent'[i])
<1>1. sent \in Seq(Event) /\ told \in Seq(StoreEvent) /\ faults \in 0 .. MaxFaults
      /\ \A i \in DOMAIN sent : MadeIn(sub, sent[i])
  BY DEF Base, TypeOK, EventsMade, Made
<1>2. CASE UNCHANGED <<sent, told, faults>>
  BY <1>1, <1>2
<1>3. CASE SentAgain(w)
  <2>1. faults' \in 0 .. MaxFaults
    BY <1>3, FaultType DEF SentAgain, Base
  <2>2. told' \in Seq(StoreEvent)
    <3>1. CASE req[w].from = "store"
      BY <1>1, <1>3, <3>1, RequestType, PrependProperties DEF SentAgain, Base, StoreRequest
    <3>2. CASE req[w].from # "store"
      BY <1>1, <1>3, <3>2 DEF SentAgain
    <3>3. QED
      BY <3>1, <3>2
  <2>3. sent' \in Seq(Event) /\ \A i \in DOMAIN sent' : MadeIn(sub, sent'[i])
    <3>1. CASE req[w].from = "stripe"
      <4>1. req[w].event \in Event /\ MadeIn(sub, req[w].event)
        BY <3>1, RequestType DEF Base, StripeRequest, EventsMade, FromStripe, Made
      <4>2. sent' = <<req[w].event>> \o sent
        BY <1>3, <3>1 DEF SentAgain
      <4>3. /\ sent' \in Seq(Event) /\ Len(sent') = Len(sent) + 1 /\ sent'[1] = req[w].event
            /\ \A j \in 1 .. Len(sent) : sent'[j + 1] = sent[j]
        BY <1>1, <4>1, <4>2, PrependProperties
      <4>4. ASSUME NEW i \in DOMAIN sent', i # 1
            PROVE  MadeIn(sub, sent'[i])
        <5>1. i - 1 \in 1 .. Len(sent) /\ (i - 1) + 1 = i
          BY <1>1, <4>3, <4>4
        <5>2. sent'[i] = sent[i - 1]
          BY <4>3, <5>1
        <5>3. QED
          BY <1>1, <5>1, <5>2
      <4>5. QED
        BY <4>1, <4>3, <4>4
    <3>2. CASE req[w].from # "stripe"
      BY <1>1, <1>3, <3>2 DEF SentAgain
    <3>3. QED
      BY <3>1, <3>2
  <2>4. QED
    BY <2>1, <2>2, <2>3
<1>4. QED
  BY <1>2, <1>3

LEMMA InitBase == Init => Base
<1>1. 0 \in 0 .. MaxFaults
  BY EntitlementsAssumption
<1>2. <<>> \in Seq(Event) /\ <<>> \in Seq(StoreEvent) /\ DOMAIN <<>> = {}
  OBVIOUS
<1>3. Init => TypeOK
  <2> SUFFICES ASSUME Init
               PROVE  TypeOK
    OBVIOUS
  <2>1. user \in [customer : Customers \cup {NoCustomer}, adFree : BOOLEAN,
                 status : {"unset", "active", "past_due", "canceled", "expired"}]
    BY DEF Init
  <2>2. sub \in [Subs -> [status : Statuses, customer : Customers \cup {NoCustomer}]]
    BY DEF Init, Statuses
  <2>3. late \in BOOLEAN /\ unsynced \in BOOLEAN
    BY DEF Init
  <2>4. req \in [Workers -> {Idle} \cup StripeRequest \cup StoreRequest \cup SyncRequest]
    BY DEF Init
  <2>5. sent \in Seq(Event) /\ told \in Seq(StoreEvent) /\ store \in StoreStatuses
        /\ changes \in Nat /\ faults \in 0 .. MaxFaults
    BY <1>1, <1>2 DEF Init, StoreStatuses
  <2>6. QED
    BY <2>1, <2>2, <2>3, <2>4, <2>5 DEF TypeOK
<1>4. Init => EventsMade
  BY <1>2 DEF Init, EventsMade, FromStripe, Reached, Paid, Active
<1>5. QED
  BY <1>3, <1>4 DEF Base

\* An event of a subscription is added.
LEMMA MarkedBase ==
    ASSUME Base, NEW s \in Subs, NEW type \in {"created", "updated", "deleted"},
           NEW to \in Reached, sub[s].status \in Paid,
           sub' = [sub EXCEPT ![s].status = to], sent' = Append(sent, Mark(type, s, to)),
           UNCHANGED <<user, store, told, req, late, unsynced, faults>>, changes' \in Nat
    PROVE  Base'
<1>0. sub[s].customer \in Customers
  BY DEF Base, EventsMade, Reached
<1>1. sent \in Seq(Event) /\ Mark(type, s, to) \in Event
  BY DEF Base, TypeOK, Event, Mark, Reached, Paid, Statuses
<1>2. /\ sent' \in Seq(Event) /\ Len(sent') = Len(sent) + 1
      /\ sent'[Len(sent) + 1] = Mark(type, s, to)
      /\ \A j \in 1 .. Len(sent) : sent'[j] = sent[j]
  BY <1>1, AppendProperties
<1>3. sub' \in [Subs -> [status : Statuses, customer : Customers \cup {NoCustomer}]]
  BY ZenonT(60) DEF Base, TypeOK, Reached, Statuses
<1>4. ASSUME NEW e \in Event, Made(e)
      PROVE  MadeIn(sub', e)
  BY <1>4 DEF Base, TypeOK, Made, MadeIn, Event
<1>5. MadeIn(sub', Mark(type, s, to))
  BY <1>0, <1>3 DEF MadeIn, Mark, Base, TypeOK
<1>6. \A i \in DOMAIN sent' : MadeIn(sub', sent'[i])
  <2>1. \A j \in 1 .. Len(sent) : sent[j] \in Event /\ Made(sent[j])
    BY <1>1 DEF Base, EventsMade
  <2>2. ASSUME NEW i \in DOMAIN sent'
        PROVE  MadeIn(sub', sent'[i])
    <3>1. i \in 1 .. Len(sent) \/ i = Len(sent) + 1
      BY <1>1, <1>2
    <3>2. CASE i \in 1 .. Len(sent)
      <4>1. sent'[i] = sent[i] /\ MadeIn(sub', sent[i])
        BY <1>2, <1>4, <2>1, <3>2
      <4>2. QED
        BY <4>1
    <3>3. CASE i = Len(sent) + 1
      <4>1. sent'[i] = Mark(type, s, to)
        BY <1>2, <3>3
      <4>2. QED
        BY <1>5, <4>1
    <3>4. QED
      BY <3>1, <3>2, <3>3
  <2>3. QED
    BY <2>2
<1>7. \A w \in Workers : FromStripe(w)' => MadeIn(sub', req'[w].event) /\ req'[w].status \in Reached
  BY <1>4, RequestType DEF Base, EventsMade, FromStripe, StripeRequest
<1>8. TypeOK'
  BY <1>2, <1>3 DEF Base, TypeOK
<1>9. \A t \in Subs : sub'[t].status \in Reached => sub'[t].customer \in Customers
  BY <1>0 DEF Base, TypeOK, EventsMade
<1>10. QED
  BY <1>6, <1>7, <1>8, <1>9 DEF Base, EventsMade, Made

UserType ==
    [customer : Customers \cup {NoCustomer}, adFree : BOOLEAN,
     status : {"unset", "active", "past_due", "canceled", "expired"}]

\* A step of a request, which leaves the subscriptions alone.
LEMMA ServeBase ==
    ASSUME Base, NEW w \in Workers, UNCHANGED <<sub, store, changes>>,
           user' \in UserType, late' \in BOOLEAN, unsynced' \in BOOLEAN,
           sent' \in Seq(Event), told' \in Seq(StoreEvent), faults' \in 0 .. MaxFaults,
           \A i \in DOMAIN sent' : MadeIn(sub, sent'[i]),
           NEW c \in {Idle} \cup StripeRequest \cup StoreRequest \cup SyncRequest,
           c # Idle /\ c.from = "stripe" => MadeIn(sub, c.event) /\ c.status \in Reached,
           req' = [req EXCEPT ![w] = c]
    PROVE  Base'
<1>1. TypeOK'
  BY DEF Base, TypeOK, UserType
<1>2. \A v \in Workers :
         FromStripe(v)' => MadeIn(sub', req'[v].event) /\ req'[v].status \in Reached
  BY DEF Base, TypeOK, EventsMade, FromStripe, Made
<1>3. QED
  BY <1>1, <1>2 DEF Base, EventsMade, Made

LEMMA StripeBase ==
    ASSUME Base, NEW s \in Subs,
           \/ Subscribe(s) \/ End(s) \/ \E to \in Paid : Vary(s, to)
           \/ \E w \in Workers : OpenCheckout(w, s)
    PROVE  Base'
<1>1. ASSUME NEW w \in Workers, OpenCheckout(w, s)
      PROVE  Base'
  <2>1. /\ sub[s].status = "none"
        /\ sub' = [sub EXCEPT ![s] = [status |-> "open", customer |-> user.customer]]
        /\ UNCHANGED <<user, sent, store, told, req, late, unsynced, changes, faults>>
    BY <1>1 DEF OpenCheckout
  <2>2. sub' \in [Subs -> [status : Statuses, customer : Customers \cup {NoCustomer}]]
    BY <2>1 DEF Base, TypeOK, Statuses
  <2>3. ASSUME NEW e \in Event, MadeIn(sub, e)
        PROVE  MadeIn(sub', e)
    BY <2>1, <2>3 DEF Base, TypeOK, MadeIn, Event, Reached, Paid, Active
  <2>4. TypeOK'
    BY <2>1, <2>2 DEF Base, TypeOK
  <2>5. ASSUME NEW i \in DOMAIN sent'
        PROVE  MadeIn(sub', sent'[i])
    <3>1. sent'[i] \in Event
      BY <2>1 DEF Base, TypeOK
    <3>2. MadeIn(sub, sent'[i])
      BY <2>1 DEF Base, EventsMade, Made
    <3>3. QED
      BY <2>3, <3>1, <3>2
  <2>6. \A v \in Workers :
           FromStripe(v)' => MadeIn(sub', req'[v].event) /\ req'[v].status \in Reached
    BY <2>1, <2>3, RequestType DEF Base, EventsMade, FromStripe, StripeRequest, Made
  <2>7. \A t \in Subs : sub'[t].status \in Reached => sub'[t].customer \in Customers
    BY <2>1 DEF Base, TypeOK, EventsMade, Reached, Paid, Active
  <2>8. QED
    BY <2>4, <2>5, <2>6, <2>7 DEF Base, EventsMade, Made
<1>2. ASSUME Subscribe(s)
      PROVE  Base'
  <2> DEFINE created == Mark("created", s, "active")
             completed == Mark("completed", s, "active")
  <2>1. /\ sub[s].status = "open"
        /\ sent' \in {sent \o <<created, completed>>, sent \o <<completed, created>>}
        /\ UNCHANGED <<user, store, told, req, late, unsynced, changes, faults>>
    BY <1>2 DEF Subscribe
  <2>2. PICK c \in Customers :
           sub' = [sub EXCEPT ![s] = [status |-> "active", customer |-> c]]
    BY <1>2 DEF Subscribe
  <2>3. sub' \in [Subs -> [status : Statuses, customer : Customers \cup {NoCustomer}]]
    BY <2>2 DEF Base, TypeOK, Statuses, Paid, Active
  <2>4. ASSUME NEW e \in Event, MadeIn(sub, e)
        PROVE  MadeIn(sub', e)
    BY <2>1, <2>2, <2>4 DEF Base, TypeOK, MadeIn, Event, Reached, Paid, Active
  <2>5. /\ created \in Event /\ completed \in Event
        /\ MadeIn(sub', created) /\ MadeIn(sub', completed)
    BY <2>2 DEF Base, TypeOK, MadeIn, Event, Mark, Statuses, Reached, Paid, Active
  <2> HIDE DEF created, completed
  <2>6. PICK d \in {created, completed}, e \in {created, completed} : sent' = sent \o <<d, e>>
    BY <2>1
  <2>7. /\ sent' \in Seq(Event) /\ Len(sent') = Len(sent) + 2
        /\ sent'[Len(sent) + 1] = d /\ sent'[Len(sent) + 2] = e
        /\ \A j \in 1 .. Len(sent) : sent'[j] = sent[j]
    BY <2>5, <2>6, AppendTwoProperties DEF Base, TypeOK
  <2>8. TypeOK'
    BY <2>1, <2>3, <2>7 DEF Base, TypeOK
  <2>9. ASSUME NEW i \in DOMAIN sent'
        PROVE  MadeIn(sub', sent'[i])
    <3>1. sent \in Seq(Event) /\ \A j \in 1 .. Len(sent) : sent[j] \in Event /\ MadeIn(sub, sent[j])
      BY DEF Base, TypeOK, EventsMade, Made
    <3>2. i \in 1 .. Len(sent) \/ i = Len(sent) + 1 \/ i = Len(sent) + 2
      BY <2>7, <3>1
    <3>3. QED
      BY <2>4, <2>5, <2>7, <3>1, <3>2
  <2>10. \A v \in Workers :
           FromStripe(v)' => MadeIn(sub', req'[v].event) /\ req'[v].status \in Reached
    BY <2>1, <2>4, RequestType DEF Base, EventsMade, FromStripe, StripeRequest, Made
  <2>11. \A t \in Subs : sub'[t].status \in Reached => sub'[t].customer \in Customers
    BY <2>2 DEF Base, TypeOK, EventsMade
  <2>12. QED
    BY <2>8, <2>9, <2>10, <2>11 DEF Base, EventsMade, Made
<1>3. ASSUME NEW to \in Paid, Vary(s, to)
      PROVE  Base'
  <2>1. changes' \in Nat
    BY <1>3, ChangeType DEF Vary, Base
  <2>2. to \in Reached /\ sub[s].status \in Paid
    BY <1>3 DEF Vary, Reached, Paid, Active
  <2>3. QED
    BY <1>3, <2>1, <2>2, MarkedBase DEF Vary
<1>4. ASSUME End(s)
      PROVE  Base'
  <2>1. changes' \in Nat
    BY <1>4, ChangeType DEF End, Base
  <2>2. "canceled" \in Reached /\ sub[s].status \in Paid
    BY <1>4 DEF End, Reached
  <2>3. QED
    BY <1>4, <2>1, <2>2, MarkedBase DEF End
<1>5. QED
  BY <1>1, <1>2, <1>3, <1>4

\* Webhooks arrive, and the events of the stores happen.
LEMMA ReceiveBase ==
    ASSUME Base,
           \/ \E event \in StoreEvent : StoreChange(event)
           \/ \E w \in Workers : \/ \E i \in DOMAIN sent : ReceiveStripe(w, i)
                                \/ \E i \in DOMAIN told : ReceiveStore(w, i)
    PROVE  Base'
<1> USE DEF Base
<1>1. ASSUME NEW event \in StoreEvent, StoreChange(event)
      PROVE  Base'
  <2>1. changes' \in Nat
    BY <1>1, ChangeType DEF StoreChange
  <2>2. told' \in Seq(StoreEvent)
    BY <1>1, AppendProperties DEF StoreChange, TypeOK
  <2>3. store' \in StoreStatuses
    BY <1>1 DEF StoreChange, StoreStatuses
  <2>4. UNCHANGED <<user, sub, sent, req, late, unsynced, faults>>
    BY <1>1 DEF StoreChange
  <2>5. TypeOK'
    BY <2>1, <2>2, <2>3, <2>4 DEF TypeOK
  <2>6. EventsMade'
    BY <2>4 DEF EventsMade, Made, FromStripe
  <2>7. QED
    BY <2>5, <2>6
<1>2. sent \in Seq(Event) /\ told \in Seq(StoreEvent) /\ user \in UserType
      /\ late \in BOOLEAN /\ unsynced \in BOOLEAN /\ faults \in 0 .. MaxFaults
      /\ \A i \in DOMAIN sent : MadeIn(sub, sent[i])
  BY DEF TypeOK, UserType, EventsMade, Made
<1>3. ASSUME NEW w \in Workers, NEW i \in DOMAIN sent, ReceiveStripe(w, i)
      PROVE  Base'
  <2> DEFINE c == [step |-> "received", from |-> "stripe", event |-> sent[i],
                   status |-> sent[i].status]
  <2>1. sent[i] \in Event /\ MadeIn(sub, sent[i])
    BY <1>2
  <2>2. c \in StripeRequest /\ c.event = sent[i] /\ c.status \in Reached
    BY <2>1 DEF StripeRequest, Event, MadeIn
  <2>3. /\ sent' = RemoveAt(sent, i) /\ req' = [req EXCEPT ![w] = c]
        /\ UNCHANGED <<user, sub, store, told, unsynced, changes, faults>>
        /\ late' = (late \/ i # 1)
    BY <1>3 DEF ReceiveStripe
  <2> HIDE DEF c
  <2>4. sent' \in Seq(Event) /\ Len(sent') = Len(sent) - 1
        /\ \A j \in 1 .. Len(sent) - 1 : sent'[j] = IF j < i THEN sent[j] ELSE sent[j + 1]
    BY <1>2, <2>3, RemoveAtProperties
  <2>5. ASSUME NEW j \in DOMAIN sent'
        PROVE  MadeIn(sub, sent'[j])
    <3>1. j \in 1 .. Len(sent) - 1 /\ j \in DOMAIN sent /\ j + 1 \in DOMAIN sent
      BY <1>2, <2>4
    <3>2. QED
      BY <1>2, <2>4, <3>1
  <2>6. late' \in BOOLEAN
    BY <2>3
  <2>7. QED
    BY <1>2, <2>1, <2>2, <2>3, <2>4, <2>5, <2>6, ServeBase
<1>4. ASSUME NEW w \in Workers, NEW i \in DOMAIN told, ReceiveStore(w, i)
      PROVE  Base'
  <2> DEFINE c == [step |-> "received", from |-> "store", event |-> told[i],
                   customer |-> NoCustomer]
  <2>1. c \in StoreRequest /\ c.from = "store"
    BY <1>2 DEF StoreRequest
  <2>2. /\ told' = RemoveAt(told, i) /\ req' = [req EXCEPT ![w] = c]
        /\ UNCHANGED <<user, sub, sent, store, unsynced, changes, faults>>
        /\ late' = (late \/ i # 1)
    BY <1>4 DEF ReceiveStore
  <2> HIDE DEF c
  <2>3. told' \in Seq(StoreEvent)
    BY <1>2, <2>2, RemoveAtProperties
  <2>4. late' \in BOOLEAN
    BY <2>2
  <2>5. QED
    BY <1>2, <2>1, <2>2, <2>3, <2>4, ServeBase
<1>5. QED
  BY <1>1, <1>3, <1>4

\* What requests save fits the columns.
LEMMA SavedType ==
    ASSUME Base, NEW w \in Workers
    PROVE  /\ FromStripe(w) =>
                 [user EXCEPT !.adFree = Granted(req[w].event.type, req[w].status),
                              !.status = Displayed(req[w].status)] \in UserType
           /\ At(w, "store", "loaded") => AfterEvent(req[w]) \in UserType
           /\ At(w, "app", "answered") => AfterSync(req[w]) \in UserType
<1>1. user \in UserType
  BY DEF Base, TypeOK, UserType
<1>2. ASSUME NEW grant \in BOOLEAN, NEW status \in {"active", "past_due", "canceled", "expired"}
      PROVE  [user EXCEPT !.adFree = grant, !.status = status] \in UserType
  BY <1>1 DEF UserType
<1>3. ASSUME FromStripe(w)
      PROVE  [user EXCEPT !.adFree = Granted(req[w].event.type, req[w].status),
                          !.status = Displayed(req[w].status)] \in UserType
  <2>1. Displayed(req[w].status) \in {"active", "past_due", "canceled"}
    BY <1>3 DEF Base, EventsMade, Displayed, Reached, Paid, Active
  <2>2. Granted(req[w].event.type, req[w].status) \in BOOLEAN
    BY DEF Granted
  <2>3. QED
    BY <1>2, <2>1, <2>2
<1>4. ASSUME At(w, "store", "loaded")
      PROVE  AfterEvent(req[w]) \in UserType
  <2>1. req[w].event \in StoreEvent
    BY <1>4, RequestType DEF At, Base, StoreRequest
  <2>2. QED
    BY <1>1, <1>2, <2>1 DEF AfterEvent, Entitled, StoreEvent
<1>5. ASSUME At(w, "app", "answered")
      PROVE  AfterSync(req[w]) \in UserType
  <2>1. req[w].answer \in StoreStatuses
    BY <1>5, RequestType DEF At, Base, SyncRequest
  <2>2. CASE req[w].answer \in {"active", "canceled"}
    BY <1>1, <1>2, <2>2 DEF AfterSync, Entitled
  <2>3. CASE req[w].answer = "none"
    BY <1>1, <2>3 DEF AfterSync
  <2>4. CASE req[w].answer = "expired"
    BY <1>1, <1>2, <2>4 DEF AfterSync, Entitled
  <2>5. QED
    BY <2>1, <2>2, <2>3, <2>4 DEF StoreStatuses
<1>6. QED
  BY <1>3, <1>4, <1>5

LEMMA ServedBase ==
    ASSUME Base, NEW w \in Workers,
           \/ Bind(w) \/ Retrieve(w) \/ LoadSubscriber(w) \/ SaveSubscription(w)
           \/ LoadUser(w) \/ SaveEvent(w) \/ Fail(w)
           \/ BeginSync(w) \/ AskRevenueCat(w) \/ SaveSync(w)
    PROVE  Base'
<1>1. /\ sent \in Seq(Event) /\ told \in Seq(StoreEvent) /\ user \in UserType
      /\ late \in BOOLEAN /\ unsynced \in BOOLEAN /\ faults \in 0 .. MaxFaults
      /\ store \in StoreStatuses /\ \A i \in DOMAIN sent : MadeIn(sub, sent[i])
  BY DEF Base, TypeOK, UserType, EventsMade, Made
<1>2. ASSUME FromStripe(w)
      PROVE  /\ req[w] \in StripeRequest /\ MadeIn(sub, req[w].event)
             /\ req[w].status \in Reached /\ req[w].event.sub \in Subs
  BY <1>2, RequestType DEF Base, EventsMade, FromStripe, Made, StripeRequest, Event
<1>3. ASSUME NEW step \in {"bound", "retrieved", "loaded"}, NEW status \in Reached, FromStripe(w)
      PROVE  /\ [req[w] EXCEPT !.step = step, !.status = status] \in StripeRequest
             /\ MadeIn(sub, [req[w] EXCEPT !.step = step, !.status = status].event)
             /\ [req[w] EXCEPT !.step = step, !.status = status].status \in Reached
             /\ [req[w] EXCEPT !.step = step] = [req[w] EXCEPT !.step = step, !.status = req[w].status]
  BY <1>2, <1>3 DEF StripeRequest, Reached, Paid, Active, Statuses
\* The request goes on.
<1>4. ASSUME NEW c \in StripeRequest, MadeIn(sub, c.event), c.status \in Reached,
             req' = [req EXCEPT ![w] = c], user' \in UserType,
             UNCHANGED <<sub, store, changes, late, unsynced, sent, told, faults>>
      PROVE  Base'
  BY <1>1, <1>4, ServeBase
<1>5. ASSUME NEW c \in StoreRequest \cup SyncRequest, req' = [req EXCEPT ![w] = c],
             UNCHANGED <<user, sub, store, changes, late, unsynced, sent, told, faults>>
      PROVE  Base'
  <2>1. c.from # "stripe"
    BY <1>5 DEF StoreRequest, SyncRequest
  <2>2. QED
    BY <1>1, <1>5, <2>1, ServeBase
\* The request ends.
<1>6. ASSUME req[w] # Idle, req' = [req EXCEPT ![w] = Idle],
             SentAgain(w) \/ UNCHANGED <<sent, told, faults>>,
             user' \in UserType, unsynced' \in BOOLEAN, UNCHANGED <<sub, store, changes, late>>
      PROVE  Base'
  BY <1>1, <1>6, ServeBase, ResendType
<1>7. CASE Bind(w)
  <2>1. FromStripe(w) /\ UNCHANGED <<sub, sent, store, told, late, unsynced, changes, faults>>
        /\ req' = [req EXCEPT ![w].step = "bound"]
        /\ user' = [user EXCEPT !.customer = sub[req[w].event.sub].customer]
    BY <1>7 DEF Bind, At, FromStripe
  <2>2. user' \in UserType
    BY <1>1, <1>2, <2>1 DEF UserType, MadeIn
  <2>3. req' = [req EXCEPT ![w] = [req[w] EXCEPT !.step = "bound"]]
    BY <2>1
  <2>4. QED
    BY <1>2, <1>3, <1>4, <2>1, <2>2, <2>3
<1>8. CASE Retrieve(w)
  <2>1. FromStripe(w) /\ req[w] # Idle /\ UNCHANGED <<user, sub, sent, store, told, late, changes>>
    BY <1>8 DEF Retrieve, At, FromStripe
  <2>2. CASE /\ req' = [req EXCEPT ![w].step = "retrieved",
                                   ![w].status = sub[req[w].event.sub].status]
             /\ UNCHANGED <<unsynced, faults>>
    <3>1. sub[req[w].event.sub].status \in Reached
      BY <1>2, <2>1 DEF MadeIn
    <3>2. req' = [req EXCEPT ![w] = [req[w] EXCEPT !.step = "retrieved",
                                       !.status = sub[req[w].event.sub].status]]
      BY <2>2
    <3>3. QED
      BY <1>1, <1>3, <1>4, <2>1, <2>2, <3>1, <3>2
  <2>3. CASE Fault /\ unsynced' = TRUE /\ req' = [req EXCEPT ![w] = Idle]
    <3>1. faults' \in 0 .. MaxFaults /\ unsynced' \in BOOLEAN
      BY <2>3, FaultType DEF Base
    <3>2. QED
      BY <1>1, <2>1, <2>3, <3>1, ServeBase
  <2>4. QED
    BY <1>8, <2>2, <2>3 DEF Retrieve
<1>9. CASE LoadSubscriber(w)
  <2>1. FromStripe(w) /\ req[w] # Idle /\ UNCHANGED <<user, sub, store, late, unsynced, changes>>
    BY <1>9 DEF LoadSubscriber, At, FromStripe
  <2>2. CASE req' = [req EXCEPT ![w].step = "loaded"] /\ UNCHANGED <<sent, told, faults>>
    <3>1. req' = [req EXCEPT ![w] = [req[w] EXCEPT !.step = "loaded"]]
      BY <2>2
    <3>2. QED
      BY <1>1, <1>2, <1>3, <1>4, <2>1, <2>2, <3>1
  <2>3. CASE Finish(w)
    BY <1>1, <1>6, <2>1, <2>3 DEF Finish
  <2>4. QED
    BY <1>9, <2>2, <2>3 DEF LoadSubscriber
<1>10. CASE SaveSubscription(w)
  <2>1. /\ FromStripe(w) /\ req[w] # Idle /\ UNCHANGED <<sub, store, late, unsynced, changes>>
        /\ Finish(w)
        /\ user' = [user EXCEPT !.adFree = Granted(req[w].event.type, req[w].status),
                                !.status = Displayed(req[w].status)]
    BY <1>10 DEF SaveSubscription, At, FromStripe
  <2>2. user' \in UserType
    BY <2>1, SavedType
  <2>3. QED
    BY <1>1, <1>6, <2>1, <2>2 DEF Finish
<1>11. CASE LoadUser(w)
  <2>1. req[w] \in StoreRequest
    BY <1>11, RequestType DEF LoadUser, At, Base
  <2>2. /\ req' = [req EXCEPT ![w] = [req[w] EXCEPT !.step = "loaded", !.customer = user.customer]]
        /\ UNCHANGED <<user, sub, store, changes, late, unsynced, sent, told, faults>>
    BY <1>11 DEF LoadUser, world
  <2>3. [req[w] EXCEPT !.step = "loaded", !.customer = user.customer] \in StoreRequest
    BY <1>1, <2>1 DEF StoreRequest, UserType
  <2>4. QED
    BY <1>5, <2>2, <2>3
<1>12. CASE SaveEvent(w)
  BY <1>1, <1>6, <1>12, SavedType DEF SaveEvent, Finish, At
<1>13. CASE Fail(w)
  BY <1>1, <1>6, <1>13 DEF Fail
<1>14. CASE BeginSync(w)
  <2>1. [step |-> "asking", from |-> "app", answer |-> "none", customer |-> user.customer]
           \in SyncRequest
    BY <1>1 DEF SyncRequest, StoreStatuses, UserType
  <2>2. QED
    BY <1>5, <1>14, <2>1 DEF BeginSync, world
<1>15. CASE AskRevenueCat(w)
  <2>1. req[w] \in SyncRequest
    BY <1>15, RequestType DEF AskRevenueCat, At, Base
  <2>2. /\ req' = [req EXCEPT ![w] = [req[w] EXCEPT !.step = "answered", !.answer = store]]
        /\ UNCHANGED <<user, sub, store, changes, late, unsynced, sent, told, faults>>
    BY <1>15 DEF AskRevenueCat, world
  <2>3. [req[w] EXCEPT !.step = "answered", !.answer = store] \in SyncRequest
    BY <1>1, <2>1 DEF SyncRequest
  <2>4. QED
    BY <1>5, <2>2, <2>3
<1>16. CASE SaveSync(w)
  <2>1. user' \in UserType /\ req[w] # Idle /\ req' = [req EXCEPT ![w] = Idle]
        /\ UNCHANGED <<late, unsynced, faults, world>>
    BY <1>16, SavedType DEF SaveSync, At
  <2>2. QED
    BY <1>1, <1>6, <2>1 DEF world
<1>17. QED
  BY <1>7, <1>8, <1>9, <1>10, <1>11, <1>12, <1>13, <1>14, <1>15, <1>16

LEMMA BaseStep == Base /\ [Next]_vars => Base'
<1>1. ASSUME Base, UNCHANGED vars
      PROVE  Base'
  BY <1>1 DEF Base, TypeOK, EventsMade, Made, FromStripe, vars
<1>2. ASSUME Base, Next
      PROVE  Base'
  BY <1>2, StripeBase, ReceiveBase, ServedBase DEF Next
<1>3. QED
  BY <1>1, <1>2

\* Every value of a state is one the model names: no request saves a status that
\* the column does not know (apply_subscription_event).
THEOREM TypeCorrect == Spec => []TypeOK
<1>1. Base => TypeOK
  BY DEF Base
<1>2. QED
  BY <1>1, InitBase, BaseStep, PTL DEF Spec

-------------------------------------------------------------------------------
(***************************************************************************)
(* With one worker, what a request knows of the customer is still so when  *)
(* it saves, as nobody else binds another one meanwhile.                   *)
(***************************************************************************)
FromApp(w) == req[w] # Idle /\ req[w].from = "app"

Copies ==
    \A w \in Workers :
        /\ At(w, "store", "loaded") \/ FromApp(w) => req[w].customer = user.customer
        /\ At(w, "stripe", "loaded") => user.customer = sub[req[w].event.sub].customer

LEMMA CopiesStep ==
    ASSUME \A v, w \in Workers : v = w, Base, Copies, [Next]_vars
    PROVE  Copies'
<1>1. ASSUME UNCHANGED <<user, req>>,
             \A s \in Subs : sub[s].status \in Reached => sub'[s].customer = sub[s].customer
      PROVE  Copies'
  <2>1. \A w \in Workers : At(w, "stripe", "loaded") =>
           sub'[req[w].event.sub].customer = sub[req[w].event.sub].customer
    BY <1>1, RequestType DEF Base, EventsMade, FromStripe, At, Made, MadeIn, StripeRequest, Event
  <2>2. QED
    BY <1>1, <2>1 DEF Copies, At, FromApp
<1>2. ASSUME NEW s \in Subs,
             \/ Subscribe(s) \/ End(s) \/ \E to \in Paid : Vary(s, to)
             \/ \E w \in Workers : OpenCheckout(w, s)
      PROVE  Copies'
  <2>1. UNCHANGED <<user, req>>
    BY <1>2 DEF Subscribe, End, Vary, OpenCheckout
  <2>2. \A t \in Subs : sub[t].status \in Reached => sub'[t].customer = sub[t].customer
    <3>1. CASE Subscribe(s)
      BY <3>1 DEF Base, TypeOK, Subscribe, Reached, Paid, Active
    <3>2. CASE End(s) \/ \E to \in Paid : Vary(s, to)
      <4>1. PICK to \in Paid \cup {"canceled"} : sub' = [sub EXCEPT ![s].status = to]
        BY <3>2 DEF End, Vary
      <4>2. QED
        BY <4>1 DEF Base, TypeOK
    <3>3. CASE \E w \in Workers : OpenCheckout(w, s)
      BY <3>3 DEF Base, TypeOK, OpenCheckout, Reached, Paid, Active
    <3>4. QED
      BY <1>2, <3>1, <3>2, <3>3
  <2>3. QED
    BY <1>1, <2>1, <2>2
<1>3. ASSUME NEW event \in StoreEvent, StoreChange(event)
      PROVE  Copies'
  BY <1>1, <1>3 DEF StoreChange
<1>4. ASSUME NEW w \in Workers, req'[w] = Idle
      PROVE  Copies'
  BY <1>4 DEF Copies, At, FromApp
<1>5. ASSUME NEW w \in Workers,
             \/ \E i \in DOMAIN sent : ReceiveStripe(w, i)
             \/ \E i \in DOMAIN told : ReceiveStore(w, i)
      PROVE  Copies'
  <2>1. req'[w].step = "received" /\ req'[w].from # "app"
    BY <1>5 DEF ReceiveStripe, ReceiveStore, Base, TypeOK
  <2>2. QED
    BY <2>1 DEF Copies, At, FromApp
<1>6. ASSUME NEW w \in Workers, SaveSubscription(w) \/ SaveEvent(w) \/ Fail(w) \/ SaveSync(w)
      PROVE  Copies'
  BY <1>4, <1>6 DEF SaveSubscription, SaveEvent, Fail, SaveSync, Finish, Base, TypeOK
<1>7. ASSUME NEW w \in Workers, Bind(w) \/ Retrieve(w)
      PROVE  Copies'
  <2>1. req[w] \in StripeRequest
    BY <1>7, RequestType DEF Bind, Retrieve, At, Base
  <2>2. req'[w] = Idle \/ (req'[w].step # "loaded" /\ req'[w].from = "stripe")
    BY <1>7, <2>1 DEF Bind, Retrieve, Base, TypeOK, StripeRequest
  <2>3. QED
    BY <2>2 DEF Copies, At, FromApp
<1>8. ASSUME NEW w \in Workers, LoadSubscriber(w)
      PROVE  Copies'
  <2>1. req[w] \in StripeRequest /\ UNCHANGED <<user, sub>>
    BY <1>8, RequestType DEF LoadSubscriber, At, Base
  <2>2. CASE Finish(w)
    BY <1>4, <2>2 DEF Finish, Base, TypeOK
  <2>3. CASE /\ user.customer = sub[req[w].event.sub].customer
             /\ req' = [req EXCEPT ![w].step = "loaded"]
    <3>1. req'[w].event = req[w].event /\ req'[w].from = "stripe"
      BY <2>1, <2>3 DEF Base, TypeOK, StripeRequest
    <3>2. QED
      BY <2>1, <2>3, <3>1 DEF Copies, At, FromApp
  <2>4. QED
    BY <1>8, <2>2, <2>3 DEF LoadSubscriber
<1>9. ASSUME NEW w \in Workers, LoadUser(w)
      PROVE  Copies'
  <2>1. req[w] \in StoreRequest /\ UNCHANGED user
    BY <1>9, RequestType DEF LoadUser, At, Base
  <2>2. req'[w].customer = user.customer /\ req'[w].from = "store"
    BY <1>9, <2>1 DEF LoadUser, Base, TypeOK, StoreRequest
  <2>3. QED
    BY <2>1, <2>2 DEF Copies, At, FromApp
<1>10. ASSUME NEW w \in Workers, BeginSync(w) \/ AskRevenueCat(w)
       PROVE  Copies'
  <2>1. UNCHANGED user /\ req'[w].from = "app" /\ req'[w].customer = user.customer
    <3>1. CASE BeginSync(w)
      BY <3>1 DEF BeginSync, Base, TypeOK
    <3>2. CASE AskRevenueCat(w)
      <4>1. req[w] \in SyncRequest /\ FromApp(w)
        BY <3>2, RequestType DEF AskRevenueCat, At, Base, FromApp
      <4>2. QED
        BY <3>2, <4>1 DEF AskRevenueCat, Base, TypeOK, SyncRequest, Copies
    <3>3. QED
      BY <1>10, <3>1, <3>2
  <2>2. QED
    BY <2>1 DEF Copies, At, FromApp
<1>11. CASE UNCHANGED vars
  BY <1>1, <1>11 DEF vars
<1>12. CASE Next
  BY <1>2, <1>3, <1>5, <1>6, <1>7, <1>8, <1>9, <1>10, <1>12 DEF Next
<1>13. QED
  BY <1>11, <1>12

\* Only a webhook of Stripe takes the grant from a customer of Stripe.
LEMMA AuthorityStep ==
    ASSUME Base, Copies, Next, user.adFree, ~user'.adFree, user.customer # NoCustomer
    PROVE  \E w \in Workers : At(w, "stripe", "loaded")
<1>1. \E w \in Workers : SaveSubscription(w) \/ SaveEvent(w) \/ SaveSync(w) \/ Bind(w)
  BY DEF Next, Subscribe, End, Vary, StoreChange, OpenCheckout, ReceiveStripe, ReceiveStore,
     Retrieve, LoadSubscriber, LoadUser, Fail, BeginSync, AskRevenueCat
<1>2. user \in UserType
  BY DEF Base, TypeOK, UserType
<1>3. ASSUME NEW grant \in BOOLEAN, NEW status
      PROVE  Entitled(grant, status).adFree = grant
  BY <1>2 DEF Entitled, UserType
<1>4. ASSUME NEW w \in Workers, SaveEvent(w)
      PROVE  FALSE
  <2>1. StripeDecides(req[w]) /\ req[w].event \in StoreEvent
    BY <1>4, RequestType DEF Copies, SaveEvent, StripeDecides, At, Base, StoreRequest
  <2>2. user' = user \/ user' = Entitled(TRUE, "active")
    BY <1>4, <2>1 DEF SaveEvent, AfterEvent, StoreEvent
  <2>3. QED
    BY <1>3, <2>2
<1>5. ASSUME NEW w \in Workers, SaveSync(w)
      PROVE  FALSE
  <2>1. StripeDecides(req[w]) /\ req[w].answer \in StoreStatuses
    BY <1>5, RequestType DEF Copies, SaveSync, StripeDecides, At, FromApp, Base, SyncRequest
  <2>2. user' = user \/ user' = Entitled(TRUE, req[w].answer)
    BY <1>5, <2>1 DEF SaveSync, AfterSync, StoreStatuses
  <2>3. QED
    BY <1>3, <2>2
<1>6. ASSUME NEW w \in Workers, Bind(w)
      PROVE  FALSE
  BY <1>2, <1>6 DEF Bind, UserType
<1>7. QED
  BY <1>1, <1>4, <1>5, <1>6 DEF SaveSubscription

\* Of requests served one at a time, RevenueCat's take nothing away from a
\* customer of Stripe ("Stripe webhooks are the authority", process_rc_event and
\* sync_revenuecat_status).
THEOREM AuthorityKept ==
    ASSUME \A v, w \in Workers : v = w
    PROVE  Spec => StripeIsTheAuthority
<1>1. Init => Base /\ Copies
  BY InitBase DEF Init, Copies, At, FromApp
<1>2. Base /\ Copies /\ [Next]_vars => Base' /\ Copies'
  BY BaseStep, CopiesStep
<1>3. Base /\ Copies /\ [Next]_vars =>
        [user.adFree /\ ~user'.adFree /\ user.customer # NoCustomer
            => \E w \in Workers : At(w, "stripe", "loaded")]_vars
  BY AuthorityStep
<1>4. QED
  BY <1>1, <1>2, <1>3, PTL DEF Spec, StripeIsTheAuthority

-------------------------------------------------------------------------------
(***************************************************************************)
(* The stores.  As long as events come in order, the last one that is not  *)
(* handled says what RevenueCat says; when none is left, the user of no    *)
(* Stripe customer has what RevenueCat says.                               *)
(***************************************************************************)
Outcome(event) ==
    CASE event = "INITIAL_PURCHASE" -> "active"
      [] event = "CANCELLATION"     -> "canceled"
      [] event = "EXPIRATION"       -> "expired"

InHand(w) == req[w] # Idle /\ req[w].from = "store"
Answered(w) == At(w, "app", "answered")

StoreNews ==
    /\ told # <<>> => Outcome(told[Len(told)]) = store
    /\ \A w \in Workers :
          /\ InHand(w) /\ told = <<>> => Outcome(req[w].event) = store
          /\ Answered(w) /\ told = <<>> => req[w].answer = store
          /\ Answered(w) /\ req[w].answer # "none" => store # "none"

StoreMirror ==
    told = <<>> /\ user.customer = NoCustomer /\ (\A w \in Workers : ~InHand(w))
        => (user.adFree <=> store \in {"active", "canceled"})

StoreInv == ~late => StoreNews /\ StoreMirror

\* Whoever handles an event has something at RevenueCat.
LEMMA NewsMeansPurchase ==
    ASSUME Base, StoreNews, NEW w \in Workers, InHand(w)
    PROVE  store # "none"
<1>1. told \in Seq(StoreEvent) /\ req[w].event \in StoreEvent
  BY RequestType DEF InHand, Base, TypeOK, StoreRequest
<1>2. CASE told = <<>>
  BY <1>1, <1>2 DEF StoreNews, Outcome, StoreEvent
<1>3. CASE told # <<>>
  <2>1. told[Len(told)] \in StoreEvent
    BY <1>1, <1>3
  <2>2. QED
    BY <1>3, <2>1 DEF StoreNews, Outcome, StoreEvent
<1>4. QED
  BY <1>2, <1>3

\* The steps that have nothing to do with the stores.
LEMMA StoreUntouched ==
    ASSUME StoreInv, UNCHANGED <<told, store>>, NEW w \in Workers, \A v \in Workers : v = w,
           late => late',
           \/ UNCHANGED <<user, req>>
           \/ /\ ~InHand(w) /\ ~InHand(w)' /\ ~Answered(w)'
              /\ user' = user \/ user'.customer # NoCustomer
    PROVE  StoreInv'
<1> SUFFICES ASSUME ~late, ~late'
             PROVE  StoreNews' /\ StoreMirror'
  BY DEF StoreInv
<1>1. StoreNews /\ StoreMirror
  BY DEF StoreInv
<1>2. CASE UNCHANGED <<user, req>>
  BY <1>1, <1>2 DEF StoreNews, StoreMirror, InHand, Answered, At
<1>3. CASE ~InHand(w) /\ ~InHand(w)' /\ ~Answered(w)'
           /\ (user' = user \/ user'.customer # NoCustomer)
  <2>1. StoreNews'
    BY <1>1, <1>3 DEF StoreNews
  <2>2. StoreMirror'
    BY <1>1, <1>3 DEF StoreMirror
  <2>3. QED
    BY <2>1, <2>2
<1>4. QED
  BY <1>2, <1>3

LEMMA StoreChanges ==
    ASSUME Base, StoreInv, NEW event \in StoreEvent, StoreChange(event)
    PROVE  StoreInv'
<1> SUFFICES ASSUME ~late, ~late'
             PROVE  StoreNews' /\ StoreMirror'
  BY DEF StoreInv, StoreChange
<1>1. /\ told' \in Seq(StoreEvent) /\ Len(told') = Len(told) + 1 /\ told' # <<>>
      /\ told'[Len(told')] = event
  BY AppendProperties DEF StoreChange, Base, TypeOK
<1>2. Outcome(event) = store' /\ store' # "none" /\ UNCHANGED <<req, late>>
  BY DEF StoreChange, Outcome
<1>3. \A w \in Workers : Answered(w)' => Answered(w) /\ req'[w] = req[w]
  BY <1>2 DEF Answered, At
<1>4. StoreNews'
  BY <1>1, <1>2, <1>3 DEF StoreInv, StoreNews
<1>5. QED
  BY <1>1, <1>4 DEF StoreMirror

\* An event is taken, or comes again.
LEMMA StoreTold ==
    ASSUME Base, StoreInv, NEW w \in Workers, \A v \in Workers : v = w,
           UNCHANGED <<store, user>>,
           \/ \E i \in DOMAIN told : ReceiveStore(w, i)
           \/ LoadUser(w)
           \/ Fail(w) /\ InHand(w)
    PROVE  StoreInv'
<1>0. late => late'
  BY DEF Base, TypeOK, Fail, ReceiveStore, LoadUser
<1> SUFFICES ASSUME ~late, ~late'
             PROVE  StoreNews' /\ StoreMirror'
  BY <1>0 DEF StoreInv
<1>1. told \in Seq(StoreEvent) /\ StoreNews
  BY DEF Base, TypeOK, StoreInv
<1>2. ASSUME NEW i \in DOMAIN told, ReceiveStore(w, i)
      PROVE  StoreNews' /\ StoreMirror'
  <2>1. i = 1 /\ told # <<>> /\ Len(told) \in Nat /\ Len(told) >= 1
    <3>1. Len(told) \in Nat /\ i \in 1 .. Len(told)
      BY <1>1
    <3>2. i = 1
      BY <1>2 DEF ReceiveStore
    <3>3. QED
      BY <1>1, <3>1, <3>2
  <2>2. /\ told' = RemoveAt(told, 1) /\ req'[w].event = told[1] /\ InHand(w)'
        /\ req'[w].from = "store" /\ 1 \in DOMAIN told
    <3>1. req'[w] = [step |-> "received", from |-> "store", event |-> told[1],
                     customer |-> NoCustomer]
      BY <1>2, <2>1 DEF ReceiveStore, Base, TypeOK
    <3>2. QED
      BY <1>2, <2>1, <3>1 DEF ReceiveStore, InHand, Idle
  <2>3. /\ told' \in Seq(StoreEvent) /\ Len(told') = Len(told) - 1
        /\ \A j \in 1 .. Len(told) - 1 : told'[j] = told[j + 1]
    BY <1>1, <2>1, <2>2, RemoveAtProperties
  <2>4. told' = <<>> => told[1] = told[Len(told)]
    <3>1. told' = <<>> => Len(told') = 0
      OBVIOUS
    <3>2. told' = <<>> => Len(told) = 1
      BY <2>1, <2>3, <3>1
    <3>3. QED
      BY <3>2
  <2>5. told' # <<>> => told'[Len(told')] = told[Len(told)]
    BY <2>1, <2>3
  <2>6. ~Answered(w)'
    BY <2>2 DEF Answered, At
  <2>7. StoreNews'
    BY <1>1, <2>1, <2>2, <2>4, <2>5, <2>6 DEF StoreNews
  <2>8. StoreMirror'
    BY <2>2 DEF StoreMirror
  <2>9. QED
    BY <2>7, <2>8
<1>3. CASE LoadUser(w)
  <2>1. req[w] \in StoreRequest /\ InHand(w)
    BY <1>3, RequestType DEF LoadUser, At, Base, InHand
  <2>2. req'[w].event = req[w].event /\ InHand(w)' /\ req'[w].from = "store" /\ UNCHANGED told
    <3>1. req'[w] = [req[w] EXCEPT !.step = "loaded", !.customer = user.customer]
      BY <1>3 DEF LoadUser, Base, TypeOK
    <3>2. QED
      BY <1>3, <2>1, <3>1, ZenonT(60) DEF StoreRequest, InHand, Idle, LoadUser, world
  <2>3. ~Answered(w)'
    BY <2>2 DEF Answered, At
  <2>4. StoreNews'
    BY <1>1, <2>1, <2>2, <2>3 DEF StoreNews
  <2>5. StoreMirror'
    BY <2>2 DEF StoreMirror
  <2>6. QED
    BY <2>4, <2>5
<1>4. CASE Fail(w) /\ InHand(w)
  <2>1. req[w].event \in StoreEvent
    BY <1>4, RequestType DEF InHand, Base, StoreRequest
  <2>2. told' = <<req[w].event>> \o told /\ req'[w] = Idle
    BY <1>4 DEF Fail, SentAgain, InHand, Base, TypeOK
  <2>3. /\ Len(told') = Len(told) + 1 /\ told'[1] = req[w].event /\ told' # <<>>
        /\ \A j \in 1 .. Len(told) : told'[j + 1] = told[j]
    BY <1>1, <2>1, <2>2, PrependProperties
  <2>4. CASE told = <<>>
    BY <1>1, <1>4, <2>2, <2>3, <2>4 DEF StoreNews, StoreMirror, InHand, Answered, At
  <2>5. CASE told # <<>>
    <3>1. told'[Len(told')] = told[Len(told)]
      BY <1>1, <2>3, <2>5
    <3>2. QED
      BY <1>1, <2>2, <2>3, <2>5, <3>1 DEF StoreNews, StoreMirror, InHand, Answered, At
  <2>6. QED
    BY <2>4, <2>5
<1>5. QED
  BY <1>2, <1>3, <1>4

\* What is saved for an event is what it says.
LEMMA StoreSaved ==
    ASSUME Base, Copies, StoreInv, NEW w \in Workers, \A v \in Workers : v = w,
           SaveEvent(w) \/ AskRevenueCat(w) \/ SaveSync(w)
    PROVE  StoreInv'
<1>0. UNCHANGED <<late, store, sub>>
  BY DEF SaveEvent, AskRevenueCat, SaveSync, world
<1> SUFFICES ASSUME ~late, ~late'
             PROVE  StoreNews' /\ StoreMirror'
  BY <1>0 DEF StoreInv
<1>1. told \in Seq(StoreEvent) /\ StoreNews /\ StoreMirror /\ user \in UserType
  BY DEF Base, TypeOK, StoreInv, UserType
<1>2. CASE SaveEvent(w)
  <2>1. req[w].event \in StoreEvent /\ InHand(w) /\ req[w].customer = user.customer
        /\ req[w].from = "store" /\ req[w] # Idle
    BY <1>2, RequestType DEF SaveEvent, At, Base, InHand, Copies, StoreRequest
  <2>2. user' = AfterEvent(req[w]) /\ req'[w] = Idle
        /\ (told' = told \/ told' = <<req[w].event>> \o told)
    BY <1>2, <2>1 DEF SaveEvent, Finish, SentAgain, Base, TypeOK
  <2>3. ~InHand(w)' /\ ~Answered(w)'
    BY <2>2 DEF InHand, Answered, At
  <2>4. CASE told # <<>>
    <3>1. told' # <<>> /\ told'[Len(told')] = told[Len(told)]
      <4>1. CASE told' = told
        BY <2>4, <4>1
      <4>2. CASE told' = <<req[w].event>> \o told
        <5>1. /\ Len(told') = Len(told) + 1 /\ \A j \in 1 .. Len(told) : told'[j + 1] = told[j]
          BY <1>1, <2>1, <4>2, PrependProperties
        <5>2. QED
          BY <1>1, <2>4, <5>1
      <4>3. QED
        BY <2>2, <4>1, <4>2
    <3>2. QED
      BY <1>0, <1>1, <2>3, <2>4, <3>1 DEF StoreNews, StoreMirror
  <2>5. CASE told = <<>>
    <3>1. Outcome(req[w].event) = store
      BY <1>1, <2>1, <2>5 DEF StoreNews
    <3>2. CASE told' = told
      <4>1. user'.customer = NoCustomer
              => (user'.adFree <=> store \in {"active", "canceled"})
        <5>1. user'.customer = user.customer
          BY <1>1, <2>2, <2>1 DEF AfterEvent, Entitled, UserType, StoreEvent
        <5>2. CASE user.customer = NoCustomer
          <6>1. ~StripeDecides(req[w])
            BY <2>1, <5>2 DEF StripeDecides
          <6>2. CASE req[w].event = "INITIAL_PURCHASE"
            BY <1>1, <2>2, <3>1, <6>2 DEF AfterEvent, Entitled, UserType, Outcome
          <6>3. CASE req[w].event = "CANCELLATION"
            BY <1>1, <2>2, <3>1, <6>1, <6>3 DEF AfterEvent, Entitled, UserType, Outcome
          <6>4. CASE req[w].event = "EXPIRATION"
            BY <1>1, <2>2, <3>1, <6>1, <6>4 DEF AfterEvent, Entitled, UserType, Outcome
          <6>5. QED
            BY <2>1, <6>2, <6>3, <6>4 DEF StoreEvent
        <5>3. QED
          BY <5>1, <5>2
      <4>2. StoreNews'
        BY <2>3, <2>5, <3>2 DEF StoreNews
      <4>3. QED
        BY <1>0, <4>1, <4>2 DEF StoreMirror
    <3>3. CASE told' = <<req[w].event>> \o told
      <4>1. told' # <<>> /\ Len(told') = 1 /\ told'[1] = req[w].event
        BY <1>1, <2>1, <2>5, <3>3, PrependProperties
      <4>2. QED
        BY <1>0, <2>3, <3>1, <4>1 DEF StoreNews, StoreMirror
    <3>4. QED
      BY <2>2, <3>2, <3>3
  <2>6. QED
    BY <2>4, <2>5
<1>3. CASE AskRevenueCat(w)
  <2>1. req[w] \in SyncRequest /\ UNCHANGED <<told, user>>
    BY <1>3, RequestType DEF AskRevenueCat, At, Base, world
  <2>2. req'[w] = [req[w] EXCEPT !.step = "answered", !.answer = store]
    BY <1>3 DEF AskRevenueCat, Base, TypeOK
  <2>3. req'[w].answer = store /\ req'[w].from = "app" /\ req[w].from = "app"
    BY <2>1, <2>2 DEF SyncRequest
  <2>4. ~InHand(w) /\ ~InHand(w)'
    BY <2>3 DEF InHand
  <2>5. StoreNews'
    BY <1>0, <1>1, <2>1, <2>3, <2>4 DEF StoreNews
  <2>6. StoreMirror'
    BY <1>0, <1>1, <2>1, <2>4 DEF StoreMirror
  <2>7. QED
    BY <2>5, <2>6
<1>4. CASE SaveSync(w)
  <2>1. /\ req[w].answer \in StoreStatuses /\ Answered(w) /\ ~InHand(w)
        /\ req[w].customer = user.customer /\ told' = told
    BY <1>4, RequestType DEF SaveSync, At, Base, InHand, Copies, SyncRequest, FromApp,
       Answered, world
  <2>2. user' = AfterSync(req[w]) /\ req'[w] = Idle
    BY <1>4 DEF SaveSync, Base, TypeOK
  <2>3. ~InHand(w)' /\ ~Answered(w)'
    BY <2>2 DEF InHand, Answered, At
  <2>4. StoreNews'
    BY <1>0, <1>1, <2>1, <2>3 DEF StoreNews
  <2>5. ASSUME told = <<>>, user'.customer = NoCustomer
        PROVE  user'.adFree <=> store \in {"active", "canceled"}
    <3>1. user'.customer = user.customer
      BY <1>1, <2>1, <2>2 DEF AfterSync, Entitled, UserType, StoreStatuses
    <3>2. req[w].answer = store /\ ~StripeDecides(req[w])
      BY <1>1, <2>1, <2>5, <3>1 DEF StoreNews, StripeDecides
    <3>3. user.adFree <=> store \in {"active", "canceled"}
      BY <1>1, <2>1, <2>5, <3>1 DEF StoreMirror
    <3>4. CASE store = "none"
      BY <2>2, <3>2, <3>3, <3>4 DEF AfterSync
    <3>5. CASE store \in {"active", "canceled"}
      BY <1>1, <2>2, <3>2, <3>5 DEF AfterSync, Entitled, UserType
    <3>6. CASE store = "expired"
      BY <1>1, <2>2, <3>2, <3>6 DEF AfterSync, Entitled, UserType
    <3>7. QED
      BY <2>1, <3>2, <3>4, <3>5, <3>6 DEF StoreStatuses
  <2>6. QED
    BY <1>0, <2>1, <2>4, <2>5 DEF StoreMirror
<1>5. QED
  BY <1>2, <1>3, <1>4

LEMMA StoreStep ==
    ASSUME \A v, w \in Workers : v = w, Base, Copies, StoreInv, [Next]_vars
    PROVE  StoreInv'
<1>1. ASSUME UNCHANGED <<told, store, user, req, late>>
      PROVE  StoreInv'
  BY <1>1 DEF StoreInv, StoreNews, StoreMirror, InHand, Answered, At
<1>2. ASSUME NEW s \in Subs,
             \/ Subscribe(s) \/ End(s) \/ \E to \in Paid : Vary(s, to)
             \/ \E w \in Workers : OpenCheckout(w, s)
      PROVE  StoreInv'
  BY <1>1, <1>2 DEF Subscribe, End, Vary, OpenCheckout
<1>3. ASSUME NEW w \in Workers, UNCHANGED <<told, store, user>>, late => late',
             ~InHand(w), ~InHand(w)', ~Answered(w)'
      PROVE  StoreInv'
  BY <1>3, StoreUntouched
<1>4. ASSUME NEW w \in Workers, NEW i \in DOMAIN sent, ReceiveStripe(w, i)
      PROVE  StoreInv'
  <2>1. req[w] = Idle /\ req'[w].from = "stripe" /\ UNCHANGED <<told, store, user>>
        /\ (late => late')
    BY <1>4 DEF ReceiveStripe, Base, TypeOK
  <2>2. QED
    BY <1>3, <2>1 DEF InHand, Answered, At
<1>5. ASSUME NEW w \in Workers, Retrieve(w) \/ LoadSubscriber(w)
      PROVE  StoreInv'
  <2>1. req[w] \in StripeRequest /\ req[w].from = "stripe" /\ UNCHANGED <<store, user, late>>
    BY <1>5, RequestType DEF Retrieve, LoadSubscriber, At, Base
  <2>2. UNCHANGED told
    BY <1>5, <2>1 DEF Retrieve, LoadSubscriber, Finish, SentAgain
  <2>3. req'[w] = Idle \/ req'[w].from = "stripe"
    BY <1>5, <2>1 DEF Retrieve, LoadSubscriber, Finish, Base, TypeOK, StripeRequest
  <2>4. QED
    BY <1>3, <2>1, <2>2, <2>3 DEF InHand, Answered, At
<1>6. ASSUME NEW w \in Workers, Bind(w) \/ SaveSubscription(w)
      PROVE  StoreInv'
  <2>1. /\ req[w] \in StripeRequest /\ req[w].from = "stripe" /\ UNCHANGED <<store, late>>
        /\ Made(req[w].event) /\ user \in UserType
    BY <1>6, RequestType
       DEF Bind, SaveSubscription, At, Base, EventsMade, FromStripe, TypeOK, UserType
  <2>2. UNCHANGED told
    BY <1>6, <2>1 DEF Bind, SaveSubscription, Finish, SentAgain
  <2>3. req'[w] = Idle \/ req'[w].from = "stripe"
    BY <1>6, <2>1 DEF Bind, SaveSubscription, Finish, Base, TypeOK, StripeRequest
  <2>4. user'.customer = sub[req[w].event.sub].customer
    BY <1>6, <2>1 DEF Bind, SaveSubscription, Copies, UserType
  <2>5. user'.customer # NoCustomer
    BY <2>1, <2>4, EntitlementsAssumption DEF Made, MadeIn
  <2>6. ~InHand(w) /\ ~InHand(w)' /\ ~Answered(w)'
    BY <2>1, <2>3 DEF InHand, Answered, At
  <2>7. QED
    BY <2>1, <2>2, <2>5, <2>6, StoreUntouched
<1>7. ASSUME NEW w \in Workers, Fail(w)
      PROVE  StoreInv'
  <2>1. CASE InHand(w)
    BY <1>7, <2>1, StoreTold DEF Fail
  <2>2. CASE ~InHand(w)
    <3>1. UNCHANGED <<told, store, user, late>> /\ req'[w] = Idle
      BY <1>7, <2>2 DEF Fail, SentAgain, InHand, Base, TypeOK
    <3>2. QED
      BY <1>3, <2>2, <3>1 DEF InHand, Answered, At
  <2>3. QED
    BY <2>1, <2>2
<1>8. ASSUME NEW w \in Workers, BeginSync(w)
      PROVE  StoreInv'
  <2>1. req[w] = Idle /\ req'[w].from = "app" /\ req'[w].step = "asking"
        /\ UNCHANGED <<told, store, user, late>>
    BY <1>8 DEF BeginSync, world, Base, TypeOK
  <2>2. QED
    BY <1>3, <2>1 DEF InHand, Answered, At
<1>9. ASSUME NEW w \in Workers, (\E i \in DOMAIN told : ReceiveStore(w, i)) \/ LoadUser(w)
      PROVE  StoreInv'
  BY <1>9, StoreTold DEF ReceiveStore, LoadUser, world
<1>10. CASE UNCHANGED vars
  BY <1>1, <1>10 DEF vars
<1>11. CASE Next
  BY <1>2, <1>4, <1>5, <1>6, <1>7, <1>8, <1>9, <1>11, StoreChanges, StoreSaved DEF Next
<1>12. QED
  BY <1>10, <1>11

\* Of requests served one at a time: once all events were delivered in order, a
\* user of no Stripe customer is ad-free exactly while the purchase lasts, whatever
\* failed and came again (process_rc_event, sync_revenuecat_status).
THEOREM StoresMirrored ==
    ASSUME \A v, w \in Workers : v = w
    PROVE  Spec => []StoreMirrored
<1>1. Init => Base /\ Copies /\ StoreInv
  <2>1. Init => Copies
    BY DEF Init, Copies, At, FromApp
  <2>2. Init => StoreInv
    BY DEF Init, StoreInv, StoreNews, StoreMirror, InHand, Answered, At
  <2>3. QED
    BY <2>1, <2>2, InitBase
<1>2. Base /\ Copies /\ StoreInv /\ [Next]_vars => Base' /\ Copies' /\ StoreInv'
  BY BaseStep, CopiesStep, StoreStep
<1>3. StoreInv => StoreMirrored
  BY DEF StoreInv, StoreMirror, StoreMirrored, Settled, InHand
<1>4. QED
  BY <1>1, <1>2, <1>3, PTL DEF Spec

-------------------------------------------------------------------------------
(***************************************************************************)
(* Stripe.  As long as events come in order, the last event of every       *)
(* subscription that is not handled says what Stripe says of it, or asks.  *)
(***************************************************************************)
FreshIn(subscription, e) ==
    e.type = "completed" \/ e.status = subscription[e.sub].status
NoneIn(q, s) == \A j \in DOMAIN q : q[j].sub # s
AllFresh(subscription, q) ==
    \A i \in DOMAIN q :
        (\A j \in DOMAIN q : j > i => q[j].sub # q[i].sub) => FreshIn(subscription, q[i])

LEMMA FreshTail ==
    ASSUME NEW f, NEW q \in Seq(Event), AllFresh(f, q), 1 \in DOMAIN q
    PROVE  /\ AllFresh(f, RemoveAt(q, 1))
           /\ NoneIn(RemoveAt(q, 1), q[1].sub) => FreshIn(f, q[1])
           /\ \A s : NoneIn(RemoveAt(q, 1), s) /\ q[1].sub # s => NoneIn(q, s)
<1> DEFINE r == RemoveAt(q, 1)
<1>1. /\ r \in Seq(Event) /\ Len(r) = Len(q) - 1 /\ Len(q) \in Nat
      /\ \A j \in 1 .. Len(q) - 1 : r[j] = q[j + 1]
  <2>1. r \in Seq(Event) /\ Len(r) = Len(q) - 1
    BY RemoveAtProperties
  <2>2. Len(q) \in Nat
    OBVIOUS
  <2>3. ASSUME NEW j \in 1 .. Len(q) - 1
        PROVE  r[j] = q[j + 1]
    <3>1. r[j] = IF j < 1 THEN q[j] ELSE q[j + 1]
      BY RemoveAtProperties
    <3>2. ~(j < 1)
      BY <2>2, <2>3
    <3>3. QED
      BY <3>1, <3>2
  <2>4. QED
    BY <2>1, <2>2, <2>3
<1> HIDE DEF r
<1>2. DOMAIN r = 1 .. Len(q) - 1 /\ DOMAIN q = 1 .. Len(q)
  BY <1>1
<1>3. ASSUME NEW j \in DOMAIN q, j # 1
      PROVE  j - 1 \in DOMAIN r /\ r[j - 1] = q[j]
  <2>1. j - 1 \in 1 .. Len(q) - 1 /\ (j - 1) + 1 = j
    BY <1>1, <1>2, <1>3
  <2>2. r[j - 1] = q[(j - 1) + 1]
    BY <1>1, <2>1
  <2>3. QED
    BY <1>2, <2>1, <2>2
<1>4. ASSUME NEW i \in DOMAIN r, \A j \in DOMAIN r : j > i => r[j].sub # r[i].sub
      PROVE  FreshIn(f, r[i])
  <2>1. i + 1 \in DOMAIN q /\ r[i] = q[i + 1] /\ i \in Int
    BY <1>1, <1>2
  <2>2. ASSUME NEW j \in DOMAIN q, j > i + 1
        PROVE  q[j].sub # q[i + 1].sub
    <3>1. j # 1 /\ j - 1 > i
      BY <1>2, <2>1, <2>2
    <3>2. QED
      BY <1>3, <1>4, <2>1, <3>1
  <2>3. QED
    BY <2>1, <2>2 DEF AllFresh
<1>5. ASSUME NEW s, NoneIn(r, s)
      PROVE  \A j \in DOMAIN q : j # 1 => q[j].sub # s
  BY <1>3, <1>5 DEF NoneIn
<1>6. AllFresh(f, r)
  BY <1>4 DEF AllFresh
<1>7. ASSUME NoneIn(r, q[1].sub)
      PROVE  FreshIn(f, q[1])
  <2>1. \A j \in DOMAIN q : j > 1 => q[j].sub # q[1].sub
    BY <1>5, <1>7
  <2>2. QED
    BY <2>1 DEF AllFresh
<1>8. \A s : NoneIn(r, s) /\ q[1].sub # s => NoneIn(q, s)
  BY <1>5 DEF NoneIn
<1>9. QED
  BY <1>6, <1>7, <1>8 DEF r

LEMMA FreshPrepend ==
    ASSUME NEW f, NEW q \in Seq(Event), NEW e \in Event, AllFresh(f, q),
           NoneIn(q, e.sub) => FreshIn(f, e)
    PROVE  /\ AllFresh(f, <<e>> \o q)
           /\ \A s : NoneIn(<<e>> \o q, s) => NoneIn(q, s) /\ e.sub # s
<1> DEFINE r == <<e>> \o q
<1>1. /\ r \in Seq(Event) /\ Len(r) = Len(q) + 1 /\ Len(q) \in Nat /\ r[1] = e
      /\ \A j \in 1 .. Len(q) : r[j + 1] = q[j]
  BY PrependProperties
<1> HIDE DEF r
<1>2. DOMAIN r = 1 .. Len(q) + 1 /\ DOMAIN q = 1 .. Len(q)
  BY <1>1
<1>3. ASSUME NEW s, NoneIn(r, s)
      PROVE  NoneIn(q, s) /\ e.sub # s
  <2>1. e.sub # s
    BY <1>1, <1>2, <1>3 DEF NoneIn
  <2>2. ASSUME NEW j \in DOMAIN q
        PROVE  q[j].sub # s
    <3>1. j + 1 \in DOMAIN r /\ r[j + 1] = q[j]
      BY <1>1, <1>2
    <3>2. QED
      BY <1>3, <3>1 DEF NoneIn
  <2>3. QED
    BY <2>1, <2>2 DEF NoneIn
<1>4. ASSUME NEW i \in DOMAIN r, \A j \in DOMAIN r : j > i => r[j].sub # r[i].sub
      PROVE  FreshIn(f, r[i])
  <2>1. ASSUME NEW j \in DOMAIN q, j + 1 > i
        PROVE  q[j].sub # r[i].sub
    <3>1. j + 1 \in DOMAIN r /\ r[j + 1] = q[j]
      BY <1>1, <1>2
    <3>2. QED
      BY <1>4, <2>1, <3>1
  <2>2. CASE i = 1
    <3>1. NoneIn(q, e.sub)
      BY <1>1, <1>2, <2>1, <2>2 DEF NoneIn
    <3>2. QED
      BY <1>1, <2>2, <3>1
  <2>3. CASE i # 1
    <3>1. i - 1 \in DOMAIN q /\ (i - 1) + 1 = i /\ i \in Int
      BY <1>1, <1>2, <2>3
    <3>2. r[i] = q[i - 1]
      BY <1>1, <1>2, <3>1
    <3>3. \A j \in DOMAIN q : j > i - 1 => q[j].sub # q[i - 1].sub
      BY <1>2, <2>1, <3>1, <3>2
    <3>4. QED
      BY <3>1, <3>2, <3>3 DEF AllFresh
  <2>4. QED
    BY <2>2, <2>3
<1>5. AllFresh(f, r)
  BY <1>4 DEF AllFresh
<1>6. QED
  BY <1>3, <1>5 DEF r

LEMMA FreshAppend ==
    ASSUME NEW f, NEW g, NEW q \in Seq(Event), NEW e \in Event, AllFresh(f, q), FreshIn(g, e),
           \A s \in Subs : s # e.sub => g[s] = f[s]
    PROVE  AllFresh(g, Append(q, e))
<1> DEFINE r == Append(q, e)
<1>1. /\ r \in Seq(Event) /\ Len(r) = Len(q) + 1 /\ Len(q) \in Nat /\ r[Len(q) + 1] = e
      /\ \A j \in 1 .. Len(q) : r[j] = q[j]
  BY AppendProperties
<1> HIDE DEF r
<1>2. DOMAIN r = 1 .. Len(q) + 1 /\ DOMAIN q = 1 .. Len(q)
  BY <1>1
<1>3. ASSUME NEW i \in DOMAIN r, \A j \in DOMAIN r : j > i => r[j].sub # r[i].sub
      PROVE  FreshIn(g, r[i])
  <2>1. CASE i = Len(q) + 1
    BY <1>1, <2>1
  <2>2. CASE i # Len(q) + 1
    <3>1. i \in DOMAIN q /\ r[i] = q[i] /\ i \in Int
      BY <1>1, <1>2, <2>2
    <3>2. q[i].sub # e.sub
      BY <1>1, <1>2, <1>3, <3>1
    <3>3. \A j \in DOMAIN q : j > i => q[j].sub # q[i].sub
      BY <1>1, <1>2, <1>3, <3>1
    <3>4. FreshIn(f, q[i]) /\ q[i] \in Event
      BY <3>1, <3>3 DEF AllFresh
    <3>5. QED
      BY <3>1, <3>2, <3>4 DEF FreshIn, Event
  <2>3. QED
    BY <2>1, <2>2
<1>4. QED
  BY <1>3 DEF AllFresh, r

Ended(e) == e.type = "deleted" => e.status = "canceled"
Charged(s) == sub[s].status \in Reached /\ sub[s].customer = user.customer
Only(s) == Charged(s) /\ \A t \in Subs : Charged(t) => t = s

\* Where customers and statuses come from.
Origins ==
    /\ \A s \in Subs : sub[s].status = "none" => sub[s].customer = NoCustomer
    /\ user.customer # NoCustomer => \E s \in Subs : Charged(s)
    /\ \A i \in DOMAIN sent : Ended(sent[i])
    /\ \A w \in Workers : FromStripe(w) =>
          /\ Ended(req[w].event)
          /\ req[w].event.type # "completed" => req[w].status = req[w].event.status
          /\ req[w].step \in {"bound", "retrieved"} => req[w].event.type = "completed"

\* A request whose event is the last of its subscription knows how it is.
Informed(w) ==
    /\ FreshIn(sub, req[w].event)
    /\ req[w].step \in {"retrieved", "loaded"} => req[w].status = sub[req[w].event.sub].status

StripeNews ==
    /\ AllFresh(sub, sent)
    /\ \A w \in Workers : FromStripe(w) /\ NoneIn(sent, req[w].event.sub) => Informed(w)

\* Nothing of the subscription is on its way.
Quiet(s) == NoneIn(sent, s) /\ \A w \in Workers : FromStripe(w) => req[w].event.sub # s

Mirrors(s) ==
    /\ sub[s].status \in Active => user.adFree
    /\ user.adFree /\ store = "none" => sub[s].status \in Active

StripeMirror == ~unsynced => \A s \in Subs : Only(s) /\ Quiet(s) => Mirrors(s)

StripeInv == ~late => StripeNews /\ StripeMirror

\* Whoever is charged is a customer.
LEMMA BilledAreCharged ==
    ASSUME Base, Origins
    PROVE  Billed = {s \in Subs : Charged(s)}
<1>1. ASSUME NEW s \in Subs
      PROVE  (sub[s].customer = user.customer /\ sub[s].customer # NoCustomer
                /\ sub[s].status # "open") <=> Charged(s)
  <2>1. sub[s].status \in Reached \cup {"none", "open"}
    BY DEF Base, TypeOK, Statuses, Reached
  <2>2. Charged(s) => sub[s].customer # NoCustomer /\ sub[s].status # "open"
    BY EntitlementsAssumption DEF Base, EventsMade, Charged, Reached, Paid, Active
  <2>3. QED
    BY <2>1, <2>2 DEF Charged, Origins
<1>2. QED
  BY <1>1 DEF Billed

\* A step of a request about Stripe's events, or about nothing of them.
LEMMA OriginsKept ==
    ASSUME Base, Origins, UNCHANGED sub,
           user'.customer = user.customer \/ \E s \in Subs : Charged(s)',
           \A i \in DOMAIN sent' : Ended(sent'[i]), NEW w \in Workers,
           \A v \in Workers : v # w => req'[v] = req[v],
           FromStripe(w)' =>
              /\ Ended(req'[w].event)
              /\ req'[w].event.type # "completed" => req'[w].status = req'[w].event.status
              /\ req'[w].step \in {"bound", "retrieved"} => req'[w].event.type = "completed"
    PROVE  Origins'
<1>1. \A v \in Workers : FromStripe(v)' =>
          /\ Ended(req'[v].event)
          /\ req'[v].event.type # "completed" => req'[v].status = req'[v].event.status
          /\ req'[v].step \in {"bound", "retrieved"} => req'[v].event.type = "completed"
  <2>1. SUFFICES ASSUME NEW v \in Workers, v # w, FromStripe(v)'
                 PROVE  FromStripe(v) /\ req'[v] = req[v]
    BY DEF Origins
  <2>2. QED
    BY <2>1 DEF FromStripe
<1>2. user'.customer # NoCustomer => \E s \in Subs : Charged(s)'
  BY DEF Origins, Charged
<1>3. QED
  BY <1>1, <1>2 DEF Origins

\* What happens at Stripe keeps the customers.
LEMMA OriginsAtStripe ==
    ASSUME Base, Origins, NEW s \in Subs,
           \/ Subscribe(s) \/ End(s) \/ \E to \in Paid : Vary(s, to)
           \/ \E w \in Workers : OpenCheckout(w, s)
    PROVE  Origins'
<1>1. UNCHANGED <<user, req>> /\ sent \in Seq(Event) /\ \A i \in DOMAIN sent : Ended(sent[i])
  BY DEF Subscribe, End, Vary, OpenCheckout, Base, TypeOK, Origins
<1>2. /\ \A t \in Subs : sub'[t].status = "none" => sub'[t].customer = NoCustomer
      /\ \A t \in Subs : Charged(t) => Charged(t)'
  <2>1. CASE Subscribe(s)
    <3>1. PICK c \in Customers : sub' = [sub EXCEPT ![s] = [status |-> "active", customer |-> c]]
      BY <2>1 DEF Subscribe
    <3>2. sub[s].status = "open"
      BY <2>1 DEF Subscribe
    <3>3. QED
      BY <1>1, <3>1, <3>2 DEF Base, TypeOK, Origins, Charged, Reached, Paid, Active
  <2>2. CASE End(s) \/ \E to \in Paid : Vary(s, to)
    <3>1. PICK to \in Paid \cup {"canceled"} : sub' = [sub EXCEPT ![s].status = to]
      BY <2>2 DEF End, Vary
    <3>2. QED
      BY <1>1, <3>1 DEF Base, TypeOK, Origins, Charged, Reached, Paid, Active
  <2>3. CASE \E w \in Workers : OpenCheckout(w, s)
    <3>1. /\ sub[s].status = "none"
          /\ sub' = [sub EXCEPT ![s] = [status |-> "open", customer |-> user.customer]]
      BY <2>3 DEF OpenCheckout
    <3>2. QED
      BY <1>1, <3>1 DEF Base, TypeOK, Origins, Charged, Reached, Paid, Active
  <2>4. QED
    BY <2>1, <2>2, <2>3
<1>3. \A i \in DOMAIN sent' : Ended(sent'[i])
  <2>1. ASSUME NEW e \in Event, sent' = Append(sent, e), Ended(e)
        PROVE  \A i \in DOMAIN sent' : Ended(sent'[i])
    BY <1>1, <2>1, AppendProperties
  <2>2. CASE Subscribe(s)
    <3> DEFINE created == Mark("created", s, "active")
               completed == Mark("completed", s, "active")
    <3>1. created \in Event /\ completed \in Event /\ Ended(created) /\ Ended(completed)
      BY DEF Mark, Event, Ended, Statuses, Paid, Active
    <3>2. sent' \in {sent \o <<created, completed>>, sent \o <<completed, created>>}
      BY <2>2 DEF Subscribe
    <3> HIDE DEF created, completed
    <3>3. PICK d \in {created, completed}, e \in {created, completed} : sent' = sent \o <<d, e>>
      BY <3>2
    <3>4. QED
      BY <1>1, <3>1, <3>3, AppendTwoProperties
  <2>3. CASE End(s)
    <3>1. Mark("deleted", s, "canceled") \in Event /\ Ended(Mark("deleted", s, "canceled"))
      BY DEF Mark, Event, Ended, Statuses
    <3>2. QED
      BY <2>1, <2>3, <3>1 DEF End
  <2>4. ASSUME NEW to \in Paid, Vary(s, to)
        PROVE  \A i \in DOMAIN sent' : Ended(sent'[i])
    <3>1. Mark("updated", s, to) \in Event /\ Ended(Mark("updated", s, to))
      BY DEF Mark, Event, Ended, Statuses
    <3>2. QED
      BY <2>1, <2>4, <3>1 DEF Vary
  <2>5. CASE \E w \in Workers : OpenCheckout(w, s)
    BY <1>1, <2>5 DEF OpenCheckout
  <2>6. QED
    BY <2>2, <2>3, <2>4, <2>5
<1>4. QED
  BY <1>1, <1>2, <1>3 DEF Origins, FromStripe

LEMMA OriginsStep == Base /\ Origins /\ [Next]_vars => Origins'
<1> SUFFICES ASSUME Base, Origins, [Next]_vars
             PROVE  Origins'
  OBVIOUS
<1>1. sent \in Seq(Event) /\ told \in Seq(StoreEvent) /\ user \in UserType
      /\ \A i \in DOMAIN sent : Ended(sent[i])
  BY DEF Base, TypeOK, UserType, Origins
<1>2. ASSUME NEW e \in Event, Ended(e), sent' = <<e>> \o sent \/ sent' = sent
      PROVE  \A i \in DOMAIN sent' : Ended(sent'[i])
  <2>1. CASE sent' = sent
    BY <1>1, <2>1
  <2>2. CASE sent' = <<e>> \o sent
    <3>1. /\ sent' \in Seq(Event) /\ Len(sent') = Len(sent) + 1 /\ sent'[1] = e
          /\ \A j \in 1 .. Len(sent) : sent'[j + 1] = sent[j]
      BY <1>1, <2>2, PrependProperties
    <3>2. ASSUME NEW i \in DOMAIN sent', i # 1
          PROVE  Ended(sent'[i])
      <4>1. i - 1 \in 1 .. Len(sent) /\ (i - 1) + 1 = i
        BY <1>1, <3>1, <3>2
      <4>2. sent'[i] = sent[i - 1]
        BY <3>1, <4>1
      <4>3. QED
        BY <1>1, <4>1, <4>2
    <3>3. QED
      BY <1>2, <3>1, <3>2
  <2>3. QED
    BY <1>2, <2>1, <2>2
<1>3. ASSUME NEW w \in Workers, UNCHANGED <<sub, sent>>, user'.customer = user.customer,
             \A v \in Workers : v # w => req'[v] = req[v], ~FromStripe(w)'
      PROVE  Origins'
  BY <1>1, <1>3, OriginsKept
<1>4. ASSUME NEW w \in Workers, Finish(w) \/ (Fail(w) /\ UNCHANGED user), req[w] # Idle,
             UNCHANGED sub, user'.customer = user.customer
      PROVE  Origins'
  <2>1. ~FromStripe(w)' /\ \A v \in Workers : v # w => req'[v] = req[v]
    BY <1>4 DEF Finish, Fail, FromStripe, Base, TypeOK
  <2>2. CASE UNCHANGED sent
    BY <1>3, <1>4, <2>1, <2>2
  <2>3. CASE ~UNCHANGED sent
    <3>1. FromStripe(w) /\ sent' = <<req[w].event>> \o sent
      BY <1>4, <2>3 DEF Finish, Fail, SentAgain, FromStripe
    <3>2. req[w].event \in Event /\ Ended(req[w].event)
      BY <3>1, RequestType DEF Base, FromStripe, StripeRequest, Origins
    <3>3. QED
      BY <1>2, <1>4, <2>1, <3>1, <3>2, OriginsKept
  <2>4. QED
    BY <2>2, <2>3
\* Only Stripe's requests are left.
<1>5. ASSUME NEW w \in Workers, NEW i \in DOMAIN sent, ReceiveStripe(w, i)
      PROVE  Origins'
  <2>1. /\ sent' = RemoveAt(sent, i) /\ UNCHANGED <<sub, user>>
        /\ \A v \in Workers : v # w => req'[v] = req[v]
        /\ req'[w] = [step |-> "received", from |-> "stripe", event |-> sent[i],
                      status |-> sent[i].status]
    BY <1>5 DEF ReceiveStripe, Base, TypeOK
  <2>2. /\ Len(sent') = Len(sent) - 1 /\ sent' \in Seq(Event) /\ Len(sent) \in Nat
        /\ \A j \in 1 .. Len(sent) - 1 : sent'[j] = IF j < i THEN sent[j] ELSE sent[j + 1]
    BY <1>1, <2>1, RemoveAtProperties
  <2>3. ASSUME NEW j \in DOMAIN sent'
        PROVE  Ended(sent'[j])
    <3>1. j \in 1 .. Len(sent) - 1 /\ j \in DOMAIN sent /\ j + 1 \in DOMAIN sent
      BY <1>1, <2>2
    <3>2. QED
      BY <1>1, <2>2, <3>1
  <2>4. QED
    BY <1>1, <2>1, <2>3, OriginsKept
<1>6. ASSUME NEW w \in Workers, Bind(w) \/ Retrieve(w) \/ LoadSubscriber(w)
      PROVE  Origins'
  <2>1. /\ req[w] \in StripeRequest /\ FromStripe(w) /\ req[w] # Idle /\ UNCHANGED sub
        /\ Made(req[w].event) /\ req[w].event.sub \in Subs
        /\ Ended(req[w].event)
        /\ req[w].event.type # "completed" => req[w].status = req[w].event.status
    BY <1>6, RequestType DEF Bind, Retrieve, LoadSubscriber, At, Base, EventsMade, FromStripe,
       StripeRequest, Event, Origins
  <2>2. ASSUME NEW step \in {"bound", "retrieved", "loaded"}, NEW status,
               req' = [req EXCEPT ![w].step = step, ![w].status = status], UNCHANGED sent,
               step # "loaded" => req[w].event.type = "completed",
               status = req[w].status \/ req[w].event.type = "completed",
               user'.customer = user.customer \/ \E s \in Subs : Charged(s)'
        PROVE  Origins'
    <3>1. /\ \A v \in Workers : v # w => req'[v] = req[v]
          /\ req'[w] = [req[w] EXCEPT !.step = step, !.status = status]
      BY <2>2 DEF Base, TypeOK
    <3>2. req'[w].step = step /\ req'[w].status = status /\ req'[w].event = req[w].event
      BY <2>1, <3>1 DEF StripeRequest
    <3>3. /\ req'[w].event.type # "completed" => req'[w].status = req'[w].event.status
          /\ req'[w].step \in {"bound", "retrieved"} => req'[w].event.type = "completed"
      BY <2>1, <2>2, <3>2
    <3>4. QED
      BY <1>1, <2>1, <2>2, <3>1, <3>2, <3>3, OriginsKept
  <2>3. req[w].status = req[w].status /\ [req EXCEPT ![w].step = "bound"]
           = [req EXCEPT ![w].step = "bound", ![w].status = req[w].status]
           /\ [req EXCEPT ![w].step = "loaded"]
           = [req EXCEPT ![w].step = "loaded", ![w].status = req[w].status]
    BY <2>1 DEF Base, TypeOK, StripeRequest
  <2>4. CASE Bind(w)
    <3>1. user'.customer = sub[req[w].event.sub].customer /\ req[w].event.type = "completed"
          /\ UNCHANGED sent /\ req' = [req EXCEPT ![w].step = "bound"]
      BY <1>1, <2>4 DEF Bind, UserType
    <3>2. ASSUME NEW t \in Subs, t = req[w].event.sub
          PROVE  Charged(t)'
      BY <2>1, <3>1, <3>2 DEF Charged, Made, MadeIn
    <3>3. \E s \in Subs : Charged(s)'
      BY <2>1, <3>2
    <3>4. req' = [req EXCEPT ![w].step = "bound", ![w].status = req[w].status]
      BY <2>3, <3>1
    <3>5. QED
      BY <2>2, <3>1, <3>3, <3>4
  <2>5. CASE Retrieve(w)
    <3>1. req[w].event.type = "completed" /\ UNCHANGED <<sent, user>>
      BY <2>1, <2>5 DEF Retrieve, At, Origins
    <3>2. CASE req' = [req EXCEPT ![w].step = "retrieved",
                                  ![w].status = sub[req[w].event.sub].status]
      BY <2>1, <2>2, <3>1, <3>2
    <3>3. CASE req' = [req EXCEPT ![w] = Idle]
      BY <1>3, <2>1, <3>1, <3>3 DEF FromStripe, Base, TypeOK
    <3>4. QED
      BY <2>5, <3>2, <3>3 DEF Retrieve
  <2>6. CASE LoadSubscriber(w)
    <3>1. UNCHANGED user
      BY <2>6 DEF LoadSubscriber
    <3>2. CASE req' = [req EXCEPT ![w].step = "loaded"] /\ UNCHANGED sent
      BY <2>1, <2>2, <2>3, <3>1, <3>2
    <3>3. CASE Finish(w)
      BY <1>4, <2>1, <3>1, <3>3
    <3>4. QED
      BY <2>6, <3>2, <3>3 DEF LoadSubscriber
  <2>7. QED
    BY <1>6, <2>4, <2>5, <2>6
<1>7. ASSUME NEW w \in Workers, SaveSubscription(w) \/ SaveEvent(w) \/ Fail(w)
      PROVE  Origins'
  <2>1. req[w] # Idle /\ UNCHANGED sub /\ (Finish(w) \/ (Fail(w) /\ UNCHANGED user))
    BY <1>7 DEF SaveSubscription, SaveEvent, Fail, At
  <2>2. user'.customer = user.customer
    <3>1. CASE SaveSubscription(w)
      BY <1>1, <3>1 DEF SaveSubscription, UserType
    <3>2. CASE SaveEvent(w)
      <4>1. req[w].event \in StoreEvent
        BY <3>2, RequestType DEF SaveEvent, At, Base, StoreRequest
      <4>2. QED
        BY <1>1, <3>2, <4>1 DEF SaveEvent, AfterEvent, Entitled, UserType, StoreEvent
    <3>3. CASE Fail(w)
      BY <3>3 DEF Fail
    <3>4. QED
      BY <1>7, <3>1, <3>2, <3>3
  <2>3. QED
    BY <1>4, <2>1, <2>2
<1>8. ASSUME NEW w \in Workers,
             \/ \E i \in DOMAIN told : ReceiveStore(w, i)
             \/ LoadUser(w) \/ BeginSync(w) \/ AskRevenueCat(w) \/ SaveSync(w)
      PROVE  Origins'
  <2>1. UNCHANGED <<sub, sent>> /\ \A v \in Workers : v # w => req'[v] = req[v]
    BY <1>8 DEF ReceiveStore, LoadUser, BeginSync, AskRevenueCat, SaveSync, world, Base, TypeOK
  <2>2. user'.customer = user.customer
    <3>1. CASE SaveSync(w)
      <4>1. req[w].answer \in StoreStatuses
        BY <3>1, RequestType DEF SaveSync, At, Base, SyncRequest
      <4>2. QED
        BY <1>1, <3>1, <4>1 DEF SaveSync, AfterSync, Entitled, UserType, StoreStatuses
    <3>2. CASE UNCHANGED user
      BY <3>2
    <3>3. QED
      BY <1>8, <3>1, <3>2 DEF ReceiveStore, LoadUser, BeginSync, AskRevenueCat
  <2>3. ~FromStripe(w)'
    <3>1. CASE LoadUser(w)
      BY <3>1, RequestType DEF LoadUser, At, FromStripe, Base, TypeOK, StoreRequest
    <3>2. CASE AskRevenueCat(w)
      BY <3>2, RequestType DEF AskRevenueCat, At, FromStripe, Base, TypeOK, SyncRequest
    <3>3. CASE (\E i \in DOMAIN told : ReceiveStore(w, i)) \/ BeginSync(w) \/ SaveSync(w)
      BY <3>3 DEF ReceiveStore, BeginSync, SaveSync, FromStripe, Base, TypeOK
    <3>4. QED
      BY <1>8, <3>1, <3>2, <3>3
  <2>4. QED
    BY <1>3, <2>1, <2>2, <2>3
<1>9. ASSUME UNCHANGED <<user, sub, sent, req>>
      PROVE  Origins'
  BY <1>9 DEF Origins, Charged, FromStripe
<1>10. ASSUME NEW event \in StoreEvent, StoreChange(event)
       PROVE  Origins'
  BY <1>9, <1>10 DEF StoreChange
<1>11. CASE UNCHANGED vars
  BY <1>9, <1>11 DEF vars
<1>12. CASE Next
  BY <1>5, <1>6, <1>7, <1>8, <1>10, <1>12, OriginsAtStripe DEF Next
<1>13. QED
  BY <1>11, <1>12

-------------------------------------------------------------------------------
\* A subscription changes, and says so.
LEMMA StripeTells ==
    ASSUME Base, StripeInv, NEW s \in Subs, UNCHANGED <<user, store, req, late, unsynced>>,
           \A t \in Subs : t # s => sub'[t] = sub[t], Charged(s) => Charged(s)',
           AllFresh(sub, sent) => AllFresh(sub', sent'), ~NoneIn(sent', s),
           \A t \in Subs : NoneIn(sent', t) => NoneIn(sent, t)
    PROVE  StripeInv'
<1> SUFFICES ASSUME ~late, ~late'
             PROVE  StripeNews' /\ StripeMirror'
  BY DEF StripeInv
<1>1. StripeNews /\ StripeMirror
  BY DEF StripeInv
<1>2. ASSUME NEW w \in Workers, FromStripe(w)', NoneIn(sent', req[w].event.sub)
      PROVE  Informed(w)'
  <2>1. FromStripe(w) /\ req[w].event.sub \in Subs
    BY <1>2, RequestType DEF FromStripe, Base, StripeRequest, Event
  <2>2. req[w].event.sub # s /\ NoneIn(sent, req[w].event.sub)
    BY <1>2, <2>1
  <2>3. sub'[req[w].event.sub] = sub[req[w].event.sub] /\ Informed(w)
    BY <1>1, <2>1, <2>2 DEF StripeNews
  <2>4. QED
    BY <2>3 DEF Informed, FreshIn
<1>3. StripeNews'
  BY <1>1, <1>2 DEF StripeNews
<1>4. ASSUME ~unsynced, NEW t \in Subs, Only(t)', Quiet(t)'
      PROVE  Mirrors(t)'
  <2>1. t # s /\ NoneIn(sent, t) /\ Quiet(t)
    BY <1>4 DEF Quiet, FromStripe
  <2>2. \A u \in Subs : Charged(u) => Charged(u)'
    BY DEF Charged
  <2>3. Only(t)
    BY <1>4, <2>1, <2>2 DEF Only, Charged
  <2>4. Mirrors(t)
    BY <1>1, <1>4, <2>1, <2>3 DEF StripeMirror
  <2>5. QED
    BY <2>1, <2>4 DEF Mirrors
<1>5. QED
  BY <1>3, <1>4 DEF StripeMirror

LEMMA StripeAtStripe ==
    ASSUME Base, StripeInv, NEW s \in Subs,
           \/ Subscribe(s) \/ End(s) \/ \E to \in Paid : Vary(s, to)
           \/ \E w \in Workers : OpenCheckout(w, s)
    PROVE  StripeInv'
<1>1. UNCHANGED <<user, store, req, late, unsynced>> /\ sent \in Seq(Event)
  BY DEF Subscribe, End, Vary, OpenCheckout, Base, TypeOK
<1>2. ASSUME NEW w \in Workers, OpenCheckout(w, s)
      PROVE  StripeInv'
  <2>1. /\ sub[s].status = "none" /\ UNCHANGED sent
        /\ sub' = [sub EXCEPT ![s] = [status |-> "open", customer |-> user.customer]]
    BY <1>2 DEF OpenCheckout
  <2>2. ASSUME NEW e \in Event, Made(e)
        PROVE  e.sub # s /\ sub'[e.sub] = sub[e.sub]
    BY <2>1, <2>2 DEF Made, MadeIn, Reached, Paid, Active, Base, TypeOK, Event
  <2>3. ASSUME AllFresh(sub, sent)
        PROVE  AllFresh(sub', sent')
    <3>1. ASSUME NEW i \in DOMAIN sent,
                 \A j \in DOMAIN sent : j > i => sent[j].sub # sent[i].sub
          PROVE  FreshIn(sub', sent[i])
      <4>1. FreshIn(sub, sent[i]) /\ sub'[sent[i].sub] = sub[sent[i].sub]
        BY <1>1, <2>2, <2>3, <3>1 DEF AllFresh, Base, EventsMade
      <4>2. QED
        BY <4>1 DEF FreshIn
    <3>2. QED
      BY <2>1, <3>1 DEF AllFresh
  <2>4. ASSUME NEW v \in Workers, FromStripe(v), Informed(v)
        PROVE  Informed(v)'
    <3>1. sub'[req[v].event.sub] = sub[req[v].event.sub]
      BY <2>2, <2>4, RequestType DEF FromStripe, Base, StripeRequest, EventsMade
    <3>2. QED
      BY <1>1, <2>4, <3>1 DEF Informed, FreshIn
  <2>5. \A t \in Subs : Charged(t) <=> Charged(t)'
    BY <1>1, <2>1 DEF Charged, Reached, Paid, Active, Base, TypeOK
  <2>6. \A t \in Subs : Charged(t) => sub'[t] = sub[t]
    BY <2>1 DEF Charged, Reached, Paid, Active, Base, TypeOK
  <2>7. \A t \in Subs : /\ Only(t)' => Only(t) /\ sub'[t] = sub[t]
                        /\ Quiet(t)' => Quiet(t)
    BY <1>1, <2>1, <2>5, <2>6 DEF Only, Quiet, FromStripe
  <2>8. StripeNews => StripeNews'
    BY <1>1, <2>1, <2>3, <2>4 DEF StripeNews, FromStripe
  <2>9. StripeMirror => StripeMirror'
    BY <1>1, <2>7 DEF StripeMirror, Mirrors
  <2>10. QED
    BY <1>1, <2>8, <2>9 DEF StripeInv
<1>3. ASSUME NEW e \in Event, sent' = Append(sent, e), e.sub = s, FreshIn(sub', e),
             \A t \in Subs : t # s => sub'[t] = sub[t], Charged(s) => Charged(s)'
      PROVE  StripeInv'
  <2>1. /\ Len(sent') = Len(sent) + 1 /\ sent'[Len(sent) + 1] = e /\ Len(sent) \in Nat
        /\ sent' \in Seq(Event) /\ \A j \in 1 .. Len(sent) : sent'[j] = sent[j]
    BY <1>1, <1>3, AppendProperties
  <2>2. ~NoneIn(sent', s) /\ \A t \in Subs : NoneIn(sent', t) => NoneIn(sent, t)
    BY <1>1, <1>3, <2>1 DEF NoneIn
  <2>3. AllFresh(sub, sent) => AllFresh(sub', sent')
    BY <1>1, <1>3, FreshAppend
  <2>4. QED
    BY <1>1, <1>3, <2>2, <2>3, StripeTells
<1>4. ASSUME NEW to \in Reached, NEW type \in {"updated", "deleted"}, sub[s].status \in Paid,
             sub' = [sub EXCEPT ![s].status = to], sent' = Append(sent, Mark(type, s, to))
      PROVE  StripeInv'
  <2>1. Mark(type, s, to) \in Event /\ Mark(type, s, to).sub = s /\ FreshIn(sub', Mark(type, s, to))
    BY <1>4 DEF Mark, Event, FreshIn, Statuses, Reached, Paid, Active, Base, TypeOK
  <2>2. Charged(s) => Charged(s)'
    BY <1>1, <1>4 DEF Charged, Base, TypeOK
  <2>3. \A t \in Subs : t # s => sub'[t] = sub[t]
    BY <1>4 DEF Base, TypeOK
  <2>4. QED
    BY <1>3, <1>4, <2>1, <2>2, <2>3
<1>5. CASE End(s)
  BY <1>4, <1>5 DEF End, Reached
<1>6. ASSUME NEW to \in Paid, Vary(s, to)
      PROVE  StripeInv'
  BY <1>4, <1>6 DEF Vary, Reached, Paid, Active
<1>7. CASE Subscribe(s)
  <2> DEFINE created == Mark("created", s, "active")
             completed == Mark("completed", s, "active")
  <2>1. sub[s].status = "open"
        /\ sent' \in {sent \o <<created, completed>>, sent \o <<completed, created>>}
    BY <1>7 DEF Subscribe
  <2>2. PICK c \in Customers : sub' = [sub EXCEPT ![s] = [status |-> "active", customer |-> c]]
    BY <1>7 DEF Subscribe
  <2>3. \A e \in {created, completed} : e \in Event /\ e.sub = s /\ FreshIn(sub', e)
    BY <2>2 DEF Mark, Event, FreshIn, Statuses, Paid, Active, Base, TypeOK
  <2> HIDE DEF created, completed
  <2>4. PICK d \in {created, completed}, e \in {created, completed} : sent' = sent \o <<d, e>>
    BY <2>1
  <2>5. /\ d \in Event /\ d.sub = s /\ FreshIn(sub', d)
        /\ e \in Event /\ e.sub = s /\ FreshIn(sub', e)
    BY <2>3
  <2>6. /\ sent' \in Seq(Event) /\ Len(sent') = Len(sent) + 2 /\ Len(sent) \in Nat
        /\ sent'[Len(sent) + 1] = d /\ sent'[Len(sent) + 2] = e
        /\ \A j \in 1 .. Len(sent) : sent'[j] = sent[j]
    BY <1>1, <2>4, <2>5, AppendTwoProperties
  <2>7. ~NoneIn(sent', s) /\ \A t \in Subs : NoneIn(sent', t) => NoneIn(sent, t)
    BY <1>1, <2>5, <2>6 DEF NoneIn
  <2>8. \A t \in Subs : t # s => sub'[t] = sub[t]
    BY <2>2 DEF Base, TypeOK
  <2>9. ASSUME AllFresh(sub, sent)
        PROVE  AllFresh(sub', sent')
    <3>1. sent' = Append(Append(sent, d), e) /\ Append(sent, d) \in Seq(Event)
      BY <1>1, <2>4, <2>5
    <3>2. AllFresh(sub', Append(sent, d))
      BY <1>1, <2>5, <2>8, <2>9, FreshAppend
    <3>3. QED
      BY <2>5, <3>1, <3>2, FreshAppend
  <2>10. Charged(s) => Charged(s)'
    BY <2>1 DEF Charged, Reached, Paid, Active
  <2>11. QED
    BY <1>1, <2>7, <2>8, <2>9, <2>10, StripeTells
<1>8. QED
  BY <1>2, <1>5, <1>6, <1>7

\* The steps that have nothing to do with Stripe's events.
LEMMA StripeUntouched ==
    ASSUME StripeInv, UNCHANGED <<sub, sent, unsynced>>, user'.customer = user.customer,
           late => late', store' = "none" => store = "none",
           \A v \in Workers : FromStripe(v) \/ FromStripe(v)' => req'[v] = req[v],
           \/ user'.adFree = user.adFree
           \/ user'.adFree /\ store' # "none"
    PROVE  StripeInv'
<1> SUFFICES ASSUME ~late, ~late'
             PROVE  StripeNews' /\ StripeMirror'
  BY DEF StripeInv
<1>1. StripeNews /\ StripeMirror
  BY DEF StripeInv
<1>2. \A v \in Workers : FromStripe(v)' <=> FromStripe(v)
  BY DEF FromStripe
<1>3. StripeNews'
  BY <1>1, <1>2 DEF StripeNews, Informed
<1>4. \A s \in Subs : (Only(s)' <=> Only(s)) /\ (Quiet(s)' <=> Quiet(s))
  BY <1>2 DEF Only, Charged, Quiet
<1>5. \A s \in Subs : Mirrors(s) => Mirrors(s)'
  BY DEF Mirrors
<1>6. StripeMirror'
  BY <1>1, <1>4, <1>5 DEF StripeMirror
<1>7. QED
  BY <1>3, <1>6

\* A request about an event of Stripe ends; the event may come again.
LEMMA StripeReleased ==
    ASSUME Base, StripeNews, NEW w \in Workers, \A v \in Workers : v = w, FromStripe(w),
           UNCHANGED sub, req'[w] = Idle, sent' = sent \/ sent' = <<req[w].event>> \o sent
    PROVE  /\ StripeNews'
           /\ \A s \in Subs : Quiet(s)' =>
                 NoneIn(sent, s) /\ (sent' = sent \/ req[w].event.sub # s)
<1>1. sent \in Seq(Event) /\ req[w].event \in Event
  BY RequestType DEF Base, TypeOK, FromStripe, StripeRequest
<1>2. ~FromStripe(w)'
  BY DEF FromStripe
<1>3. CASE sent' = sent
  BY <1>2, <1>3 DEF StripeNews, Quiet
<1>4. CASE sent' = <<req[w].event>> \o sent
  <2>1. NoneIn(sent, req[w].event.sub) => FreshIn(sub, req[w].event)
    BY DEF StripeNews, Informed
  <2>2. /\ AllFresh(sub, sent')
        /\ \A s : NoneIn(sent', s) => NoneIn(sent, s) /\ req[w].event.sub # s
    BY <1>1, <1>4, <2>1, FreshPrepend DEF StripeNews
  <2>3. QED
    BY <1>2, <2>2 DEF StripeNews, Quiet
<1>5. QED
  BY <1>3, <1>4

LEMMA StripeReceived ==
    ASSUME Base, StripeInv, NEW w \in Workers, \A v \in Workers : v = w,
           NEW i \in DOMAIN sent, ReceiveStripe(w, i)
    PROVE  StripeInv'
<1>0. late => late'
  BY DEF Base, TypeOK, ReceiveStripe
<1> SUFFICES ASSUME ~late, ~late'
             PROVE  StripeNews' /\ StripeMirror'
  BY <1>0 DEF StripeInv
<1>1. StripeNews /\ StripeMirror /\ sent \in Seq(Event)
  BY DEF Base, TypeOK, StripeInv
<1>2. i = 1 /\ 1 \in DOMAIN sent
  BY DEF ReceiveStripe
<1>3. /\ sent' = RemoveAt(sent, 1) /\ UNCHANGED <<user, sub, store, unsynced>> /\ req[w] = Idle
      /\ req'[w] = [step |-> "received", from |-> "stripe", event |-> sent[1],
                    status |-> sent[1].status]
  BY <1>2 DEF ReceiveStripe, Base, TypeOK
<1>4. FromStripe(w)' /\ ~FromStripe(w) /\ req'[w].event = sent[1] /\ req'[w].step = "received"
  BY <1>3 DEF FromStripe, Idle
<1>5. /\ AllFresh(sub, sent')
      /\ NoneIn(sent', sent[1].sub) => FreshIn(sub, sent[1])
      /\ \A s : NoneIn(sent', s) /\ sent[1].sub # s => NoneIn(sent, s)
  BY <1>1, <1>2, <1>3, FreshTail DEF StripeNews
<1>6. StripeNews'
  BY <1>3, <1>4, <1>5 DEF StripeNews, Informed
<1>7. \A s \in Subs : Quiet(s)' => Quiet(s)
  BY <1>4, <1>5 DEF Quiet
<1>8. \A s \in Subs : (Only(s)' <=> Only(s)) /\ (Mirrors(s)' <=> Mirrors(s))
  BY <1>3 DEF Only, Charged, Mirrors
<1>9. QED
  BY <1>1, <1>3, <1>6, <1>7, <1>8 DEF StripeMirror

\* A request goes on to bind, ask, and look for the user; or it fails on the way.
LEMMA StripeServed ==
    ASSUME Base, Origins, StripeInv, NEW w \in Workers, \A v \in Workers : v = w,
           Bind(w) \/ Retrieve(w) \/ LoadSubscriber(w) \/ (Fail(w) /\ FromStripe(w))
    PROVE  StripeInv'
<1>0. UNCHANGED <<sub, store, late>> /\ FromStripe(w)
  BY DEF Bind, Retrieve, LoadSubscriber, Fail, At, FromStripe
<1> SUFFICES ASSUME ~late, ~late'
             PROVE  StripeNews' /\ StripeMirror'
  BY <1>0 DEF StripeInv
<1>1. /\ StripeNews /\ StripeMirror /\ user \in UserType /\ req[w] \in StripeRequest
      /\ req[w].event.sub \in Subs /\ Made(req[w].event)
  BY <1>0, RequestType DEF Base, TypeOK, StripeInv, UserType, FromStripe, StripeRequest, Event,
     EventsMade
\* The request goes on.
<1>2. ASSUME NEW step \in {"bound", "retrieved", "loaded"}, NEW status, UNCHANGED sent,
             req'[w] = [req[w] EXCEPT !.step = step, !.status = status],
             NoneIn(sent, req[w].event.sub) /\ step \in {"retrieved", "loaded"}
                => status = sub[req[w].event.sub].status,
             ~unsynced' => ~unsynced,
             UNCHANGED user \/ user'.customer = sub[req[w].event.sub].customer
      PROVE  StripeNews' /\ StripeMirror'
  <2>1. /\ req'[w].step = step /\ req'[w].status = status /\ req'[w].event = req[w].event
        /\ req'[w].from = "stripe"
    BY <1>0, <1>1, <1>2 DEF StripeRequest, FromStripe
  <2>2. FromStripe(w)'
    BY <2>1 DEF FromStripe, Idle
  <2>3. NoneIn(sent, req[w].event.sub) => Informed(w)'
    BY <1>0, <1>1, <1>2, <2>1 DEF Informed, StripeNews
  <2>4. StripeNews'
    BY <1>0, <1>1, <1>2, <2>1, <2>3 DEF StripeNews
  <2>5. \A s \in Subs : Quiet(s)' => Quiet(s) /\ s # req[w].event.sub
    BY <1>2, <2>1, <2>2, ZenonT(60) DEF Quiet
  <2>6. CASE UNCHANGED user
    <3>1. \A s \in Subs : (Only(s)' <=> Only(s)) /\ (Mirrors(s)' <=> Mirrors(s))
      BY <1>0, <2>6 DEF Only, Charged, Mirrors
    <3>2. QED
      BY <1>1, <1>2, <2>4, <2>5, <3>1 DEF StripeMirror
  <2>7. CASE user'.customer = sub[req[w].event.sub].customer
    <3>1. ASSUME NEW t \in Subs, t = req[w].event.sub
          PROVE  Charged(t)'
      BY <1>0, <1>1, <2>7, <3>1 DEF Charged, Made, MadeIn
    <3>2. \A s \in Subs : Only(s)' => s = req[w].event.sub
      BY <1>1, <3>1 DEF Only
    <3>3. QED
      BY <2>4, <2>5, <3>2 DEF StripeMirror
  <2>8. QED
    BY <1>2, <2>6, <2>7
\* The request ends, for a user it is not about.
<1>3. ASSUME req'[w] = Idle, sent' = sent \/ sent' = <<req[w].event>> \o sent, UNCHANGED user,
             \/ unsynced'
             \/ UNCHANGED unsynced /\ sent' = <<req[w].event>> \o sent
             \/ UNCHANGED unsynced /\ user.customer # sub[req[w].event.sub].customer
      PROVE  StripeNews' /\ StripeMirror'
  <2>1. /\ StripeNews'
        /\ \A s \in Subs : Quiet(s)' => NoneIn(sent, s) /\ (sent' = sent \/ req[w].event.sub # s)
    BY <1>0, <1>1, <1>3, StripeReleased
  <2>2. \A s \in Subs : (Only(s)' <=> Only(s)) /\ (Mirrors(s)' <=> Mirrors(s))
    BY <1>0, <1>3 DEF Only, Charged, Mirrors
  <2>3. CASE UNCHANGED unsynced /\ sent' = <<req[w].event>> \o sent
    <3>1. sent' # sent
      BY <1>1, <2>3, PrependProperties DEF Base, TypeOK, StripeRequest
    <3>2. \A s \in Subs : Quiet(s)' => Quiet(s)
      BY <2>1, <3>1 DEF Quiet
    <3>3. QED
      BY <1>1, <2>1, <2>2, <2>3, <3>2 DEF StripeMirror
  <2>4. CASE UNCHANGED unsynced /\ user.customer # sub[req[w].event.sub].customer
    <3>1. \A s \in Subs : Only(s) => req[w].event.sub # s
      BY <2>4 DEF Only, Charged
    <3>2. \A s \in Subs : Only(s) /\ Quiet(s)' => Quiet(s)
      BY <2>1, <3>1 DEF Quiet
    <3>3. QED
      BY <1>1, <2>1, <2>2, <2>4, <3>2 DEF StripeMirror
  <2>5. CASE unsynced'
    BY <2>1, <2>5 DEF StripeMirror
  <2>6. QED
    BY <1>3, <2>3, <2>4, <2>5
<1>4. CASE Bind(w)
  <2>1. /\ req'[w] = [req[w] EXCEPT !.step = "bound", !.status = req[w].status]
        /\ user'.customer = sub[req[w].event.sub].customer /\ UNCHANGED <<sent, unsynced>>
    BY <1>1, <1>4 DEF Bind, UserType, Base, TypeOK, StripeRequest
  <2>2. QED
    BY <1>2, <2>1
<1>5. CASE Retrieve(w)
  <2>1. UNCHANGED <<user, sent>>
    BY <1>5 DEF Retrieve
  <2>2. CASE unsynced' = TRUE /\ req' = [req EXCEPT ![w] = Idle]
    BY <1>3, <2>1, <2>2 DEF Base, TypeOK
  <2>3. CASE /\ req' = [req EXCEPT ![w].step = "retrieved",
                                   ![w].status = sub[req[w].event.sub].status]
             /\ UNCHANGED <<unsynced, faults>>
    <3>1. req'[w] = [req[w] EXCEPT !.step = "retrieved",
                                   !.status = sub[req[w].event.sub].status]
      BY <2>3 DEF Base, TypeOK
    <3>2. QED
      BY <1>2, <2>1, <2>3, <3>1
  <2>4. QED
    BY <1>5, <2>2, <2>3 DEF Retrieve
<1>6. CASE LoadSubscriber(w)
  <2>1. UNCHANGED <<user, unsynced>>
    BY <1>6 DEF LoadSubscriber
  <2>2. CASE user.customer = sub[req[w].event.sub].customer
    <3>1. req' = [req EXCEPT ![w].step = "loaded"] /\ UNCHANGED sent
      BY <1>6, <2>2 DEF LoadSubscriber
    <3>2. req'[w] = [req[w] EXCEPT !.step = "loaded", !.status = req[w].status]
      BY <1>1, <3>1 DEF Base, TypeOK, StripeRequest
    <3>3. ASSUME NoneIn(sent, req[w].event.sub)
          PROVE  req[w].status = sub[req[w].event.sub].status
      <4>1. Informed(w)
        BY <1>0, <1>1, <3>3 DEF StripeNews
      <4>2. CASE At(w, "stripe", "retrieved")
        BY <4>1, <4>2 DEF Informed, At
      <4>3. CASE req[w].event.type # "completed"
        <5>1. req[w].status = req[w].event.status
          BY <1>0, <4>3 DEF Origins
        <5>2. QED
          BY <4>1, <4>3, <5>1 DEF Informed, FreshIn
      <4>4. QED
        BY <1>6, <4>2, <4>3 DEF LoadSubscriber
    <3>4. QED
      BY <1>2, <2>1, <3>1, <3>2, <3>3
  <2>3. CASE user.customer # sub[req[w].event.sub].customer
    <3>1. Finish(w)
      BY <1>6, <2>3 DEF LoadSubscriber
    <3>2. req'[w] = Idle /\ (sent' = sent \/ sent' = <<req[w].event>> \o sent)
      BY <3>1 DEF Finish, SentAgain, Base, TypeOK
    <3>3. QED
      BY <1>3, <2>1, <2>3, <3>2
  <2>4. QED
    BY <2>2, <2>3
<1>7. CASE Fail(w) /\ FromStripe(w)
  <2>1. /\ req'[w] = Idle /\ sent' = <<req[w].event>> \o sent
        /\ UNCHANGED <<user, unsynced>>
    BY <1>7 DEF Fail, SentAgain, FromStripe, Base, TypeOK
  <2>2. QED
    BY <1>3, <2>1
<1>8. QED
  BY <1>4, <1>5, <1>6, <1>7

\* What is saved for the last event of the only subscription is how it is.
LEMMA StripeSaved ==
    ASSUME Base, Origins, Copies, StripeInv, NEW w \in Workers, \A v \in Workers : v = w,
           SaveSubscription(w)
    PROVE  StripeInv'
<1>0. UNCHANGED <<sub, store, late, unsynced>> /\ FromStripe(w) /\ req[w].step = "loaded"
  BY DEF SaveSubscription, At, FromStripe
<1> SUFFICES ASSUME ~late, ~late'
             PROVE  StripeNews' /\ StripeMirror'
  BY <1>0 DEF StripeInv
<1>1. /\ StripeNews /\ StripeMirror /\ user \in UserType /\ req[w] \in StripeRequest
      /\ req[w].event.sub \in Subs /\ Made(req[w].event) /\ req[w].event \in Event
      /\ Ended(req[w].event)
  BY <1>0, RequestType DEF Base, TypeOK, StripeInv, UserType, FromStripe, StripeRequest, Event,
     EventsMade, Origins
<1>2. /\ req'[w] = Idle /\ (sent' = sent \/ sent' = <<req[w].event>> \o sent)
      /\ user'.customer = user.customer
      /\ user'.adFree = Granted(req[w].event.type, req[w].status)
  BY <1>0, <1>1 DEF SaveSubscription, Finish, SentAgain, FromStripe, Base, TypeOK, UserType
<1>3. /\ StripeNews'
      /\ \A s \in Subs : Quiet(s)' => NoneIn(sent, s) /\ (sent' = sent \/ req[w].event.sub # s)
  BY <1>0, <1>1, <1>2, StripeReleased
<1>4. Charged(req[w].event.sub)
  BY <1>0, <1>1 DEF Copies, At, FromStripe, Charged, Made, MadeIn
<1>5. ASSUME NEW s \in Subs, Only(s)', Quiet(s)'
      PROVE  Mirrors(s)'
  <2>1. Only(s) /\ s = req[w].event.sub
    BY <1>0, <1>1, <1>2, <1>4, <1>5 DEF Only, Charged
  <2>2. Informed(w)
    BY <1>0, <1>1, <1>3, <1>5, <2>1 DEF StripeNews
  <2>3. req[w].status = sub[s].status
    BY <1>0, <2>1, <2>2 DEF Informed
  <2>4. req[w].event.type = "deleted" => sub[s].status = "canceled"
    BY <1>1, <2>1, <2>2 DEF Informed, FreshIn, Ended
  <2>5. user'.adFree <=> sub[s].status \in Active
    <3>1. req[w].event.type \in {"created", "updated", "deleted", "completed"}
      BY <1>1 DEF Event
    <3>2. CASE req[w].event.type = "deleted"
      BY <1>2, <2>4, <3>2 DEF Granted, Active
    <3>3. CASE req[w].event.type = "updated"
      BY <1>2, <2>3, <3>3 DEF Granted
    <3>4. CASE req[w].event.type \in {"created", "completed"}
      BY <1>2, <2>3, <3>4 DEF Granted
    <3>5. QED
      BY <3>1, <3>2, <3>3, <3>4
  <2>6. QED
    BY <1>0, <2>5 DEF Mirrors
<1>6. QED
  BY <1>3, <1>5 DEF StripeMirror

\* Who is no customer is charged nothing.
LEMMA StripeOfNobody ==
    ASSUME Base, Origins, StripeInv, UNCHANGED <<sub, sent, late>>, NEW w \in Workers,
           \A v \in Workers : v = w, ~FromStripe(w), ~FromStripe(w)',
           user.customer = NoCustomer, user'.customer = user.customer
    PROVE  StripeInv'
<1>1. \A s \in Subs : ~Charged(s)'
  BY EntitlementsAssumption DEF Base, EventsMade, Charged
<1>2. QED
  BY <1>1 DEF StripeInv, StripeNews, StripeMirror, Only

LEMMA StripeStep ==
    ASSUME \A v, w \in Workers : v = w, Base, Origins, Copies, StoreInv, StripeInv, [Next]_vars
    PROVE  StripeInv'
<1>1. user \in UserType
  BY DEF Base, TypeOK, UserType
<1>2. ASSUME NEW w \in Workers, \E i \in DOMAIN sent : ReceiveStripe(w, i)
      PROVE  StripeInv'
  BY <1>2, StripeReceived
<1>3. ASSUME NEW w \in Workers,
             Bind(w) \/ Retrieve(w) \/ LoadSubscriber(w) \/ (Fail(w) /\ FromStripe(w))
      PROVE  StripeInv'
  BY <1>3, StripeServed
<1>4. ASSUME NEW w \in Workers, UNCHANGED <<sub, sent, unsynced>>, late => late', UNCHANGED store,
             user'.customer = user.customer, ~FromStripe(w), ~FromStripe(w)',
             user'.adFree = user.adFree \/ (~late => user'.adFree /\ store # "none")
      PROVE  StripeInv'
  <2>1. CASE late
    BY <1>4, <2>1 DEF StripeInv
  <2>2. CASE ~late
    BY <1>4, <2>2, StripeUntouched
  <2>3. QED
    BY <2>1, <2>2
<1>5. ASSUME NEW w \in Workers, NEW i \in DOMAIN told, ReceiveStore(w, i)
      PROVE  StripeInv'
  <2>1. UNCHANGED <<user, sub, sent, store, unsynced>> /\ (late => late') /\ req[w] = Idle
        /\ req'[w].from = "store"
    BY <1>5 DEF ReceiveStore, Base, TypeOK
  <2>2. QED
    BY <1>4, <2>1 DEF FromStripe
<1>6. ASSUME NEW w \in Workers, LoadUser(w)
      PROVE  StripeInv'
  <2>1. UNCHANGED <<user, sub, sent, store, unsynced, late>> /\ req[w].from = "store"
        /\ req'[w].from = "store"
    BY <1>6, RequestType DEF LoadUser, world, At, Base, TypeOK, StoreRequest
  <2>2. QED
    BY <1>4, <2>1 DEF FromStripe
<1>7. ASSUME NEW w \in Workers, BeginSync(w) \/ AskRevenueCat(w)
      PROVE  StripeInv'
  <2>1. UNCHANGED <<user, sub, sent, store, unsynced, late>>
        /\ (req[w] = Idle \/ req[w].from = "app") /\ req'[w].from = "app"
    BY <1>7, RequestType DEF BeginSync, AskRevenueCat, world, At, Base, TypeOK, SyncRequest
  <2>2. QED
    BY <1>4, <2>1 DEF FromStripe
<1>8. ASSUME NEW w \in Workers, Fail(w), ~FromStripe(w)
      PROVE  StripeInv'
  <2>1. UNCHANGED <<user, sub, sent, store, unsynced, late>> /\ req'[w] = Idle
    BY <1>8 DEF Fail, SentAgain, FromStripe, Base, TypeOK
  <2>2. QED
    BY <1>4, <1>8, <2>1 DEF FromStripe
<1>9. ASSUME NEW w \in Workers, SaveEvent(w)
      PROVE  StripeInv'
  <2>1. /\ req[w].from = "store" /\ req[w] # Idle /\ InHand(w) /\ req[w].event \in StoreEvent
        /\ req[w].customer = user.customer
    BY <1>9, RequestType DEF SaveEvent, At, InHand, Base, StoreRequest, Copies
  <2>2. UNCHANGED <<sub, sent, store, unsynced, late>> /\ req'[w] = Idle
    BY <1>9, <2>1 DEF SaveEvent, Finish, SentAgain, Base, TypeOK
  <2>3. user' = AfterEvent(req[w])
    BY <1>9 DEF SaveEvent
  <2>4. user'.customer = user.customer
    BY <1>1, <2>1, <2>3 DEF AfterEvent, Entitled, UserType, StoreEvent
  <2>5. ~late => store # "none"
    BY <2>1, NewsMeansPurchase DEF StoreInv
  <2>6. CASE user.customer # NoCustomer
    <3>1. StripeDecides(req[w])
      BY <2>1, <2>6 DEF StripeDecides
    <3>2. user' = user \/ user' = Entitled(TRUE, "active")
      BY <2>1, <2>3, <3>1 DEF AfterEvent, StoreEvent
    <3>3. user'.adFree = user.adFree \/ user'.adFree
      BY <1>1, <3>2 DEF Entitled, UserType
    <3>4. QED
      BY <1>4, <2>1, <2>2, <2>4, <2>5, <3>3 DEF FromStripe
  <2>7. CASE user.customer = NoCustomer
    BY <2>1, <2>2, <2>4, <2>7, StripeOfNobody DEF FromStripe
  <2>8. QED
    BY <2>6, <2>7
<1>10. ASSUME NEW w \in Workers, SaveSync(w)
       PROVE  StripeInv'
  <2>1. /\ req[w].from = "app" /\ Answered(w) /\ req[w].answer \in StoreStatuses
        /\ req[w].customer = user.customer
    BY <1>10, RequestType DEF SaveSync, At, Answered, Base, SyncRequest, Copies, FromApp
  <2>2. UNCHANGED <<sub, sent, store, unsynced, late>> /\ req'[w] = Idle
    BY <1>10 DEF SaveSync, world, Base, TypeOK
  <2>3. user' = AfterSync(req[w])
    BY <1>10 DEF SaveSync
  <2>4. user'.customer = user.customer
    BY <1>1, <2>1, <2>3 DEF AfterSync, Entitled, UserType, StoreStatuses
  <2>5. ~late /\ req[w].answer # "none" => store # "none"
    BY <2>1 DEF StoreInv, StoreNews
  <2>6. CASE user.customer # NoCustomer
    <3>1. StripeDecides(req[w])
      BY <2>1, <2>6 DEF StripeDecides
    <3>2. user' = user \/ (user' = Entitled(TRUE, req[w].answer) /\ req[w].answer # "none")
      BY <2>1, <2>3, <3>1 DEF AfterSync, StoreStatuses
    <3>3. user'.adFree = user.adFree \/ (user'.adFree /\ req[w].answer # "none")
      BY <1>1, <3>2 DEF Entitled, UserType
    <3>4. QED
      BY <1>4, <2>1, <2>2, <2>4, <2>5, <3>3 DEF FromStripe
  <2>7. CASE user.customer = NoCustomer
    BY <2>1, <2>2, <2>4, <2>7, StripeOfNobody DEF FromStripe
  <2>8. QED
    BY <2>6, <2>7
<1>11. ASSUME NEW event \in StoreEvent, StoreChange(event)
       PROVE  StripeInv'
  <2>1. UNCHANGED <<user, sub, sent, req, unsynced, late>> /\ store' # "none"
    BY <1>11 DEF StoreChange
  <2>2. QED
    BY <2>1, StripeUntouched
<1>12. CASE UNCHANGED vars
  BY <1>12, StripeUntouched DEF vars
<1>13. CASE Next
  BY <1>2, <1>3, <1>5, <1>6, <1>7, <1>8, <1>9, <1>10, <1>11, <1>13, StripeAtStripe,
     StripeSaved DEF Next
<1>14. QED
  BY <1>12, <1>13

SubscriptionInv == Base /\ Copies /\ StoreInv /\ Origins /\ StripeInv

LEMMA SubscriptionInvariant ==
    ASSUME \A v, w \in Workers : v = w
    PROVE  Spec => []SubscriptionInv
<1>1. Init => SubscriptionInv
  <2>1. Init => Copies
    BY DEF Init, Copies, At, FromApp
  <2>2. Init => StoreInv
    BY DEF Init, StoreInv, StoreNews, StoreMirror, InHand, Answered, At
  <2>3. Init => Origins
    BY DEF Init, Origins, FromStripe
  <2>4. Init => StripeInv
    BY DEF Init, StripeInv, StripeNews, StripeMirror, AllFresh, FromStripe, Only, Charged, Reached,
       Paid, Active
  <2>5. QED
    BY <2>1, <2>2, <2>3, <2>4, InitBase DEF SubscriptionInv
<1>2. SubscriptionInv /\ [Next]_vars => SubscriptionInv'
  BY BaseStep, CopiesStep, StoreStep, OriginsStep, StripeStep DEF SubscriptionInv
<1>3. QED
  BY <1>1, <1>2, PTL DEF Spec

\* Who is charged once is charged for one subscription.
LEMMA OneIsOnly ==
    ASSUME Base, Origins, Cardinality(Billed) <= 1, NEW s \in Billed
    PROVE  s \in Subs /\ Only(s)
<1>1. Billed = {t \in Subs : Charged(t)} /\ IsFiniteSet(Billed)
  BY BilledAreCharged, EntitlementsAssumption, FS_Subset
<1>2. Cardinality(Billed) \in Nat
  BY <1>1, FS_CardinalityType
<1>3. ASSUME NEW t \in Billed, t # s
      PROVE  FALSE
  <2>1. {s, t} \subseteq Billed /\ IsFiniteSet({s, t}) /\ Cardinality({s, t}) = 2
    <3>1. IsFiniteSet({s}) /\ Cardinality({s}) = 1
      BY FS_Singleton
    <3>2. /\ IsFiniteSet({s} \cup {t})
          /\ Cardinality({s} \cup {t}) = IF t \in {s} THEN 1 ELSE 1 + 1
      BY <3>1, FS_AddElement
    <3>3. {s, t} = {s} \cup {t}
      OBVIOUS
    <3>4. QED
      BY <1>3, <3>2, <3>3
  <2>2. Cardinality({s, t}) <= Cardinality(Billed)
    BY <1>1, <2>1, FS_Subset
  <2>3. QED
    BY <1>2, <2>1, <2>2
<1>4. QED
  BY <1>1, <1>3 DEF Only

\* Of requests served one at a time: once all events were delivered in order, the
\* customer of one subscription that is paid sees no ads (apply_subscription_event,
\* process_stripe_event).
THEOREM SubscriberSeesNoAds ==
    ASSUME \A v, w \in Workers : v = w
    PROVE  Spec => []FirstSubscriptionSeesNoAds
<1>1. ASSUME SubscriptionInv, Cardinality(Billed) <= 1, Settled, NEW s \in Billed,
             sub[s].status \in Active
      PROVE  user.adFree
  <2>1. s \in Subs /\ Only(s)
    BY <1>1, OneIsOnly DEF SubscriptionInv
  <2>2. Quiet(s)
    BY <1>1 DEF Quiet, Settled, NoneIn, FromStripe
  <2>3. Mirrors(s)
    BY <1>1, <2>1, <2>2 DEF SubscriptionInv, StripeInv, StripeMirror, Settled
  <2>4. QED
    BY <1>1, <2>3 DEF Mirrors
<1>2. SubscriptionInv => FirstSubscriptionSeesNoAds
  BY <1>1 DEF FirstSubscriptionSeesNoAds, SubscribersSeeNoAds, Subscribed
<1>3. QED
  BY <1>2, SubscriptionInvariant, PTL

\* Of requests served one at a time: once all events were delivered in order, ads
\* return when the only subscription has ended, to a user of no store
\* (apply_subscription_event).
THEOREM AdsReturnAfterwards ==
    ASSUME \A v, w \in Workers : v = w
    PROVE  Spec => []AdsReturn
<1>1. ASSUME SubscriptionInv, Settled, store = "none", Cardinality(Billed) <= 1, user.adFree
      PROVE  Subscribed
  <2>1. CASE Billed = {}
    <3>1. user.customer = NoCustomer
      BY <1>1, <2>1, BilledAreCharged DEF SubscriptionInv, Origins
    <3>2. FALSE
      BY <1>1, <3>1 DEF SubscriptionInv, StoreInv, StoreMirror, Settled, InHand
    <3>3. QED
      BY <3>2
  <2>2. ASSUME NEW s \in Billed
        PROVE  Subscribed
    <3>1. s \in Subs /\ Only(s)
      BY <1>1, OneIsOnly DEF SubscriptionInv
    <3>2. Quiet(s)
      BY <1>1 DEF Quiet, Settled, NoneIn, FromStripe
    <3>3. Mirrors(s)
      BY <1>1, <3>1, <3>2 DEF SubscriptionInv, StripeInv, StripeMirror, Settled
    <3>4. QED
      BY <1>1, <3>3 DEF Mirrors, Subscribed
  <2>3. QED
    BY <2>1, <2>2
<1>2. SubscriptionInv => AdsReturn
  BY <1>1 DEF AdsReturn
<1>3. QED
  BY <1>2, SubscriptionInvariant, PTL
===============================================================================
