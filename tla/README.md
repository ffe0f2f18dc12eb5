# Rachae in TLA+

Rachae splits expenses between friends. `src/backend` is a Django REST API with
PostgreSQL, Celery tasks and Redis as the broker; `src/frontend` is a Flutter app.
This directory holds TLA+ modules of the core of both, the TLC configurations that
check them, and proofs for TLAPS. Everything is translated from the source; paths
below are relative to `src/`.

Contents: [inventory](#inventory), [modules and code](#modules-and-code),
[runs](#runs), [where code and promises part](#where-code-and-promises-part),
[fairness](#fairness), [proofs](#proofs), [what is not modelled](#what-is-not-modelled),
[what is left](#what-is-left).

## Inventory

### What runs at the same time

- `railway.json` starts gunicorn with **two** worker processes and
  `railway.worker.json` a Celery worker with a concurrency of **two**. Two requests,
  or a request and a task, can always overlap.
- The repository takes no explicit lock (no `select_for_update`, no isolation level
  above PostgreSQL's default). A service usually reads and checks outside any
  transaction and writes in a later one. What PostgreSQL itself gives is the row lock
  of an `UPDATE`, held until the commit, and the unique constraints.
- Celery acknowledges late and rejects messages of a lost process
  (`backend/config/celery.py`): a task runs at least once, perhaps twice.
- Callbacks of `transaction.on_commit` run after the commit, so an outage of the
  broker loses them while the data stays.
- Stripe and RevenueCat repeat webhooks until they get a 200 and promise no order.
- The app's notifiers `await` their calls, and other calls of the same notifier run
  in between.

### Components

| component | code | state | operations | hard part | what makes it correct |
|---|---|---|---|---|---|
| Settlements | `backend/apps/transactions` | payment rows, two flags, audit, queued mails | record in a group, globally (waterfall) or as an offset; confirm; dispute | checks read outside the writing transaction; a lost broker | nobody pays more than they owe; one answer for each payment; an offset moves debts and keeps the net |
| Expenses | `backend/apps/expenses/services.py` | rows, live splits, audit | create, full and partial update, batch, delete, restore | objects loaded before the transaction, columns saved selectively | splits match the amount; deletions hold; members only; one currency |
| Computation of shares | `SplitService` | none | validate, compute | rounding | the shares add up to the total |
| Group balances | `backend/apps/ledger/algorithms.py`, `BalanceService` | none, six queries | read | the queries see different moments | agreement with the rows of one moment |
| Debt simplification | `run_min_cash_flow`, twice | heaps | one loop | termination, cents | suggestions settle everything, in fewer than n payments |
| Cached ledger | `backend/apps/ledger/services.py`, `tasks/ledger_tasks.py` | a cache per process | fill, invalidate | four processes, four caches | freshness |
| Group membership | `backend/apps/groups` | membership rows, roles | add, change role, remove, leave, delete group | count of admins before the write | a group has an admin; the creator keeps that role |
| Account deletion | `backend/apps/users` | account, purge task | anonymise, purge in six statements, of which the third fails | bypasses the group's checks; requests that loaded the row before go on | what is deleted stays so, the user stays out, the purge leaves nothing behind |
| Profiles, friends, invitations | `backend/apps/users` | row of the user, invitations | edit the profile, confirm an avatar, invite, accept | every request writes the token's claims first; two acceptances of one link | accepted once; uploads survive the claims |
| Receipts and proofs | expense and payment services, `tasks/s3_tasks.py` | a list of keys in one column, objects in S3, messages | upload, confirm, remove, three tasks | the list is written whole from an old copy | files that are referenced stay, others go |
| Entitlements | `backend/apps/ads` | four columns of the user | checkout, two webhooks, sync | two providers, repeated and reordered events | who pays sees no ads, who stops sees them again |
| Paged lists | three notifiers of the app, the views they call | shown items, page number, two flags | build, refresh, load more | answers in any order, offsets that shift | all items, once, none that is gone |
| Emails, notifications | `backend/tasks` | queued tasks, notification rows | publish, load, send, retry | retried after a partial effect; the row is read when the task runs | everybody concerned is told, in order, and not more often than there is a reason |
| Currencies | `backend/apps/currencies` | rates | daily refresh, conversion | retries, stale rates | an expense keeps its rate |
| Expenses owed to me | `owed_me_replay.py` | none | replay of payments in order of time | order, allocation | agrees with the balance shown beside it |
| Authentication, API client | `core/authentication.py`, `api_client.dart` | tokens | verify, synchronise the user, refresh | the synchronisation saves an older copy | a deleted account stays out |
| Forms of the app | add-expense, settle-up, group settings notifiers | form state | preview, submit, upload | answers out of order, lost answers | submitted once, as shown |
| Reports, router, screens, generated code | | | read-only or declarative | | |

Interactions: expenses and payments are the input of every balance, and balances of
the simplification and of the caps of new payments; the membership decides who may
act and who takes part; every write queues tasks (mails, notifications,
recalculation, S3); webhooks write the columns of the user that the app reads.

`PROJECT.json` lists every hazard at its line, with the properties that watch it.

## Modules and code

A request is modelled by the steps between which other processes can run: what the
view loads, what the service checks, what the transaction writes. A step that
PostgreSQL makes atomic (a transaction that starts with the `UPDATE` of the row it
is about) is one action. A worker is `Idle` or holds the record of its request,
with the copies of rows it has loaded: everything stale that the code could use is
in that record. A proof module extends the module that states the properties it proves.

| module | models | extends / is instantiated by |
|---|---|---|
| `PaymentLifecycle` | abstract: a payment is recorded, then answered at most once, never removed | instance in `Settlements` |
| `Settlements` | `apps/transactions/services.py`, views and model | `MCSettlements`, `SettlementsProofs` |
| `GroupMembership` | `apps/groups/services.py`, the purge of `apps/users/tasks.py` | `MCGroupMembership`, `GroupsProofs` |
| `Expenses` | `ExpenseService`, the currency of `update_group` | `MCExpenses`, `ExpensesProofs` |
| `SplitShares` | `SplitService` | instance in `Debts` |
| `MinCashFlow` | `run_min_cash_flow` of `apps/ledger` (`Remainder = 0`) and of `apps/groups` (`Remainder = 1`) | `Debts` |
| `Debts` | the composition: an expense is split, or rows of a group are written while its balances are read, then the simplification runs | `MCDebts` (values of the constants only), `DebtsProofs` |
| `GroupLedger` | the sums of `apps/ledger/algorithms.py` and of `apps/users/services.py`, the queries behind them, the replay of `owed_me_replay.py`, the purge of an account | instance in `Debts` |
| `Receipts` | upload links, keys, the tasks of `s3_tasks.py` | `MCReceipts`, `ReceiptsProofs` |
| `Entitlements` | `apps/ads/services.py` and its views; Stripe, RevenueCat | `MCEntitlements`, `EntitlementsProofs` |
| `Accounts` | `apps/users`: the user at each request, profile, avatar, invitations, deletion | `MCAccounts`, `AccountsProofs` |
| `Deliveries` | `tasks/email_tasks.py`, `tasks/notification_tasks.py`, where they are queued, Celery's delivery | `MCDeliveries`, `DeliveriesProofs` |
| `Lists` | the activity feed and the group's expenses in the app, and how the server cuts pages | `GroupsProofs`; run as it is |

- **Settlements.** `BeginCreate` reads the debt and refuses at once what is owed by
  nobody; `Admit`/`Refuse` are the comparison with the pending payments; `Plan` is
  the second reading of a global settlement; `Insert` commits the rows and runs the
  callbacks. `BeginResolve` loads the row and looks at the flags of that copy;
  `Confirm` and `Dispute` write one column each. `Waterfall` states the result of the
  loop over the sorted debts, place by place: what goes to a place is what the larger
  debts (`Ahead`) leave. `EditExpenses` stands for the whole of `Expenses`: it may set
  any debt to any amount. A request's number (`call`) tells equal rows apart.
- **GroupMembership.** A membership has an id because a removal deletes the row and a
  later addition creates another one: `StillThere` is whether Django's `save` or
  `delete` still finds the loaded primary key. `Purge` only sets `deleted`, the row
  stays, and `add_member` finds it in the way.
- **Expenses.** `copy` is the row that the view loaded and `row` the object in memory;
  `Saved` computes which columns the difference makes `save(update_fields=...)` write.
  Live splits are sets of batches, each with the method and total it was computed
  for: the amounts themselves are the subject of `SplitShares`.
- **SplitShares** works in cents and hundredths of a percent, with the decimal module's
  half-even rounding. `Adjusted` gives the difference to the first participant.
- **MinCashFlow.** A step is a round of the loop. Which of several equal balances a
  heap yields is left open. Balances need not add up to zero, as a member who left is
  not among them.
- **GroupLedger.** Requests that write are one step each, since the modules above take
  them apart; what is taken apart here is the reader: members, expenses, splits, payments
  made, payments received, members again, with a write anywhere between (`Meanwhile` bounds
  how many). `was` keeps the rows of the start for the property. `Remaining` is the replay:
  payments in order of time over splits in order of time. Of the purge of an account
  two statements take effect, `PurgeMemberships` and `PurgeExpenses`; nothing else asks who
  created an expense, so which ones the user created is chosen there. Payments are never
  deleted: the model `Transaction` has no column for it.
- **Receipts.** A message that is retried carries its tries. `WorkerLost` brings the
  same message back, `Retry` one with a try more, until none is left. The cleaner takes
  three looks: the bucket, the expenses, the payments. It may stop after any look, and after
  some of the deletions were published. Messages that are equal count
  as one.
- **Entitlements.** What Stripe and RevenueCat do is external, modelled from what the
  handlers read: subscriptions vary, each change appends an event, any pending event
  may be delivered next (`late` remembers that it was not the oldest). A request that
  fails before its answer puts its event back. `unsynced` remembers that
  `Subscription.retrieve` failed and was swallowed.
- **Accounts.** Every request loads the row of its user and saves the claims of its token
  over that copy (`Authenticate`), then does what it came for with the same copy:
  `Merged` is `save(update_fields=...)`, which writes the columns that differ from the
  copy. Expiry of an invitation (`Lapse`) is an event of its own. `DeleteUserData` is the
  whole task as far as this module sees it: it never comes to its statements about
  invitations. Whether it runs at all is left open. A key may be confirmed any number of
  times, also after another one has replaced it.
- **Deliveries.** A message names a row and a recipient; the task reads the row when it
  runs, and an expense and the recipient's split in two queries. `told` is what the last
  mail said, `notices` counts rows of notifications. The broker may refuse some of the
  messages of a commit, Brevo or FCM may raise, a process may die with its message
  (`WorkerLost`). `of` tells messages apart and is read by no task, only by a mutant.
- **Lists.** The notifier's fields are its variables; a call is sent, answered by the
  server's state of that moment and delivered later. The two kinds of list differ in
  what the code does on an empty page, on a refresh, and in where new items go. The
  four `history` variables remember what was gone and what was there when the last
  refresh was sent, and whether calls overlapped.

## Runs

All sizes are distinct states (of a violation run, those seen before it). Bounds stop counters that the program lets grow.

| run | question | bounds | states |
|---|---|---|---|
| `Settlements` | the rules of payments for requests in turn; `PaymentLifecycle` is implemented | 2 users, 2 groups and personal, amounts to 2, 3 requests, 3 changes of expenses, broker may fail | 1,239,025 |
| `SettlementsAnswerRace` (violation) | a confirmation and a dispute that overlap | 2 workers, 1 group | 6,400 or so |
| `SettlementsRefusal` (violation) | is a refusal's message true | amounts to 3, 2 requests | 400 or so |
| `Groups` | admins, the creator, no resurrection | 3 users; 5 requests in turn or 3 that overlap on 2 workers; 1 deleted account | 604,795 |
| `Expenses` | splits, deletions, members, currency, audit | 2 users, 1 expense, 2 methods, texts and currencies; same two crews; 1 restore | 488,296 |
| `Debts` | shares; balances read while rows are written; the list of what is owed; simplification of all of these | every input of up to 3 participants over chosen totals and values; 3 users, 3 writes, 1 while balances are read; 2 users, 5 writes; all balances of 4 users in -4..4 | 486,607 |
| `Receipts` | files and keys, orphans go | 1 expense, 2 files in turn with 1 fault, or 1 file with 2 faults and two activities at once | 126,068 |
| `Entitlements` | the entitlement follows what is paid for | 2 subscriptions, 2 customers, 3 changes, 1 fault, events in any order | 2,693,893 |
| `EntitlementsResubscribed` (violation) | the same after a second subscription | no fault | 505,000 or so |
| `Accounts` | uploads, deletions and invitations against claims that are saved at every request | 3 users, 2 addresses for one of them, 2 avatars, 1 invitation; 4 requests in turn or 3 that overlap | 639,697 |
| `Deliveries` | who is told what, how often and in which order | 1 expense with 2 versions or 1 payment, 2 users, 1 retry, 2 faults; 1 process, or 2 with 1 version | 414,276 |
| `Lists` | pages, refreshes and changes interleaved | pages of 2, 3 items and 1 addition, 3 calls, 1 deletion, 1 failure | 439,748 |

Why the bounds are enough, as far as a bound can be:

- *Payments.* The races need two requests and one debt; caps, the waterfall and offsets
  need two places, two amounts that differ, and a pending payment before another one.
  Three requests allow a payment, its answer and a later one.
- *Members.* The last-admin rule needs two admins and somebody else; five requests allow
  promote, demote and leave in every order. Of the requests that overlap, two race for one
  row and a third has set the scene.
- *Expenses.* Expenses do not influence each other but through the currency of the
  group, so one is followed; five requests allow create, update, delete, restore and an
  update that started early.
- *Debts.* Totals and values are those where roundings differ: totals of 0 to 5 cents,
  100, and 20001, where a hundredth of a percent, which the validation tolerates, is two
  cents. Four users are the first number where the greedy choice has alternatives. Two
  writes make rows of every kind and the third one overlaps the reader; five writes of two
  users are two expenses, a payment, its confirmation and one more, enough for the replay
  to meet a payment that spans two expenses.
- *Receipts.* A list of keys can lose another key only if there are two of them; the
  liveness question is about one key, and every fault is a retry, a lost process or a
  lost message.
- *Accounts.* A race needs two requests on one row, and a third that made the row; the
  fourth request in turn asks for what the other three left. Three users are needed for
  one inviter and two who accept. One user may sign in with the address of another.
- *Deliveries.* The older of two versions must be able to arrive after the younger; two
  faults are one more than there are retries, so the case in which the code gives up is
  reached as well. At most four messages wait when a row is written (`MaxQueued`).
- *Lists.* Two full pages and the page after them, with an item that moves from one to
  the other.

`Groups`, `Expenses`, `Receipts`, `Accounts` and `Deliveries` choose at the start whether
requests and tasks are served one at a time (a crew of one worker; `inTurn`) or overlap.
Properties that end in `InTurn` are asked of the first kind only, the others of both.
`Settlements` and `Entitlements` have one worker; two properties of the former that any
number of workers keep (`NothingForgotten`, `RecalcBeforeMail`) are proved for any
number, and three more (`ConfirmedXorDisputed`, `ResolvedOnce`, `LifecycleSpec`) for any
number that never answer one payment at the same time. `CHECK_DEADLOCK FALSE` stands where
behaviours end because the bounds are used up or a function has returned.

What the properties say, by run:

- `Settlements`: `ResolvedOnce` (one answer), `NeverOverRecorded` (the caps),
  `OffsetKeepsNet` (both legs or none), `RecalcBeforeMail` (order of callbacks under
  outages), `LifecycleSpec` (refinement; pending is what is recorded and has no flag).
- `Groups`: `AdminExistsInTurn`, `CreatorKeepsAdminInTurn`, and `NoResurrection`, which
  overlapping requests keep too.
- `Expenses`: `SplitsMatchAmount` and `DeletedStaysDeleted` whatever overlaps; in turn,
  `MethodMatchesSplitsInTurn`, `CurrencyAgreesInTurn`, `ParticipantsAreMembersInTurn`,
  `AuditTruthfulInTurn`.
- `Debts`: `SumsToTotal`, `FairToTheCent`, `WithinBalances`, `FewSuggestions`,
  `SettlesEverything`, `Terminates`; `BalancesOfAMoment` compares the sums of six queries
  with the balances of every pair at the start and at the end of the reading;
  `OwedIsListed` compares the replay with the balance of the pair.
- `Receipts`: three properties in turn, and `OrphansGo`: an object that stays unreferenced
  is deleted for good, whatever failed.
- `Entitlements`: `FirstSubscriptionSeesNoAds`, `AdsReturn`, `StoreMirrored`, each once all
  is delivered, and `StripeIsTheAuthority` at every step.
- `Accounts`: whatever overlaps, `NothingUndone` (no save of an older copy revives a deleted
  account or reopens an answered invitation) and `DeletedStayOut` (of a deleted user only a
  request that loaded the row before still writes it, or sends or accepts an invitation);
  in turn, `AcceptedOnceInTurn`, `AvatarKeptInTurn`.
- `Deliveries`: `NoticesBounded` whatever overlaps (each notification is owed to a version
  or to a failure); `NewsInOrderInTurn`; `NewsArrivesInTurn`, which has two parts: with no
  more faults than retries everybody concerned gets a mail with the last version (asked of
  one process), and with any number of faults they find a notification.
- `Lists`: `EndMeansAll`, `NoGhosts`, `ScrollingResumes`.

Each property of a passing run has a mutant in `PROJECT.json`, a changed definition
that makes TLC find it violated. Mutants stand in the module beside what they change.

## Where code and promises part

Three violation runs, one for each disagreement with a quoted line (`findings`):

1. A payment can be confirmed **and** disputed: both requests look at a copy of the row
   (`SettlementsAnswerRace`).
2. The cap counts pending payments twice, so a payment within the debt is refused with a
   message that says it exceeds it (`SettlementsRefusal`).
3. The end of an old subscription revokes what a new one of the same customer pays for
   (`EntitlementsResubscribed`).

"In turn" and the other restrictions of the passing runs hide further behaviour of the
code. Each of these is a counterexample that TLC gives with the change named; the
properties without `InTurn` are defined for that purpose.

| property | fails with | because |
|---|---|---|
| `NeverOverRecorded` | `Settlements.cfg`, two workers | two payments are measured before either is written (`transactions/services.py:358`) |
| `AdminExists` | `Groups.cfg`, `MaxOverlapping = 5`, no deletion | two admins leave at once, each counting the other |
| `AdminExists` | `Groups.cfg` | the purge of an account asks nobody (`users/tasks.py:15`) |
| `CreatorKeepsAdmin` | as the first `AdminExists` | a demotion is allowed while the creator is a plain member, and written after the creator became an admin again |
| `ParticipantsAreMembers`, `AuditTruthful`, `MethodMatchesSplits`, `CurrencyAgrees` | `Expenses.cfg` | checks and copies are older than the write |
| `CurrencyAgrees` | `Expenses.cfg`, one worker | a restored expense has the currency the group had |
| `SettlesEverything` | `Debts.cfg`, `Remainder = 1` | the copy in `apps/groups/algorithms.py` drops a last cent: of -0.03, 0.01, 0.02 one stays; only the copy's own tests call it |
| `NoNegativeExact`, `RoundingOnTheLast` | `SplitShares` | the first participant takes the roundings of all and what the validation tolerates (`expenses/services.py:127`, `:30`) |
| `OnlyMatchingKeyRemoved`, `RemovedKeysStayAway`, `KnownKeysKept` | `Receipts!Spec`, two files | lists and listings are older than what is done with them |
| `RefreshedIsFresh` | `Lists.cfg`; 2 calls and 1 deletion are enough | a page that arrives after a refresh brings the list of before the refresh back (`activity_feed_provider.dart:67`) |
| `EndIsFound` | `Lists.cfg`; 2 calls are enough | a page past the end of the expenses is a 404 (`expenses/views.py:96`), not the empty list that the notifier expects, so the list never learns that it has ended |
| `AcceptedOnce` | `Accounts.cfg` | two users find one invitation pending, the one who saves last is its acceptor (`users/services.py:314`) |
| `AvatarKept` | `Accounts.cfg` | a request that loaded the row before an upload was confirmed writes the provider's picture over it (`users/services.py:70`) |
| `StaysErased` | `Accounts.cfg` | a request that loaded the row before the deletion writes the token's address and picture into the erased row |
| `InvitationsForgotten` | `Accounts.cfg`; 2 requests are enough | the purge ends at its third statement (`users/tasks.py:17`), see below |
| `NewsInOrder` | `Deliveries.cfg`, `MaxVersionsOverlapping = 2` | a process reads the row, another one sends younger news first |
| `OwedIsListed` without `~undone` | `Debts.cfg` | whoever paid for an expense that is edited or deleted later is owed money by the balance, and no expense of the list says so; drop `~undone'` in `PairNext` as well |
| `FirstSubscriptionSeesNoAds`, `AdsReturn`, `StoreMirrored`, `StripeIsTheAuthority` | `Entitlements.cfg`, two workers | an older event is saved after a younger one; an expiration that was loaded before a customer was bound is saved after it |

Restrictions inside properties: `Settled` excludes behaviours with an event delivered
after a younger one, as no handler orders them, and with a swallowed failure of
`Subscription.retrieve` (`ads/services.py:389`). `AdsReturn` asks for a user without a
store purchase and `StoreMirrored` for one without a Stripe customer: with both, an
`EXPIRATION` is ignored even after the subscription has lapsed (`ads/services.py:478`) and
the user stays ad-free. `EndMeansAll` asks that no call failed, as a page that fails is
skipped (the page number is raised before the call), and nothing was deleted, as offsets
shift. Without these words the properties fail, and that is what the code does.

The purge of a deleted account ends half way. `delete_user_data` runs its statements about
memberships and expenses, each committed by itself, and then asks for
`Transaction.all_objects`, which that model does not have (`transactions/models.py:8`; it
has no `is_deleted` either): an `AttributeError`, and the task has no retry. Invitations
that the user sent stay open and visible, although `frontend/web/privacy.html:66` says that
deleting "removes your account and personal data from our systems" (except what the law
asks for and what is embedded in the history of a group). The tests of `apps.users` replace
the task's `.delay` by a mock, so none of them runs it. The model ends the task where the
code does, and no property of a run assumes more of it.

A document that no run is about: `README.md:153` promises a "Redis-cached balance ledger
... invalidated on write via Celery tasks". The cache is `LocMemCache`
(`backend/config/settings.py:157`), one for each process, so that a task of the Celery
worker invalidates its own; and the endpoints that read it come after those of
`apps.groups` with the same paths in `backend/config/urls.py`, so nothing served depends
on it. Recalculations are therefore only followed as messages (`Settlements`).

## Fairness

Safety properties are checked under `Init /\ [][Next]_vars`. Liveness assumes:

- `MinCashFlow`, `Debts`: weak fairness of the next round. A function that is called
  runs on.
- `Receipts`: weak fairness of the second half of a request, of the steps of a task that
  was taken and of the cleaner's next step; strong fairness of taking each deletion and of
  the start of the cleaner, since `MayStart` may be false now and then while the broker
  hands messages out and the beat schedule comes round. Faults are bounded, as an S3
  that is down for ever deletes nothing. Nothing is assumed of clients.
- `Deliveries`: weak fairness of "some process takes some message" and of the steps of each
  task; the broker may hand messages out in any order, and none is promised to a given
  process. Faults are bounded. Nothing is assumed of requests. That the purge of an account
  ever runs is assumed nowhere: its message may be lost, see below.
- `Lists`: weak fairness, call by call, of "answer or deliver". dio is set up with timeouts
  of 30 s (`api_client.dart:88`), so every call ends. Nothing is assumed of the user.

## Proofs

TLC shows the properties on the instances above; TLAPS proves the following for every
value of the constants, from the named assumptions of the modules (bounds are natural
numbers, sets are disjoint or finite, the creator is a user, places
are told apart by the names they are sorted by).

| module | theorem | statement |
|---|---|---|
| `SettlementsProofs` | `TypeCorrect` | any workers |
| | `OneWorkerNeverOverRecorded` | one worker: `NeverOverRecorded`, any debts and places |
| | `OneWorkerKeepsNet` | one worker: `OffsetKeepsNet`, any debts and places |
| | `ApartNeverBoth` | any workers, answers apart: no payment is confirmed and disputed |
| | `ApartResolvesOnce` | any workers, answers apart: one confirmation mail or one dispute for a payment |
| | `ApartImplementsLifecycle` | any workers, answers apart: `PaymentLifecycle!Spec` |
| | `AnswersAreKept` | any workers: payments and answers stay |
| | `RecalculationComesFirst` | any workers, any outage: a mail implies the recalculation |
| `GroupsProofs` | `TypeCorrect` | members: any workers |
| | `OnlyAdditionsRevive` | any workers: a membership comes back only as a new row |
| | `AdminKept` | in turn, no deleted account: a group has an admin |
| | `CreatorStaysAdmin` | in turn: nobody else ends the creator's being an admin |
| | `PagesTyped` | lists: any lengths, any number of calls |
| | `NothingBuriedIsShown` | any lengths and interleavings: `NoGhosts` |
| | `TheEndIsTheEnd` | any lengths and interleavings: `EndMeansAll` |
| `ExpensesProofs` | `TypeCorrect` | any workers |
| | `SplitsAlwaysMatch` | any workers: one batch of live splits, for the current amount |
| | `DeletionsHold` | any workers: only a restore undeletes |
| | `MethodsMatch`, `CurrenciesAgree`, `WrittenForMembersOnly`, `AuditIsHistory` | in turn: the four properties of that name in `MCExpenses` |
| `DebtsProofs` | `TypeCorrect` | heaps and suggestions, for any users and wherever the balances come from |
| | `SuggestionsWithinBalances` | any users, any balances, any remainder: `WithinBalances` |
| | `FewerSuggestionsThanUsers` | n users, fewer than n payments: `FewSuggestions` |
| | `EverythingIsSettled` | `Remainder = 0`: `SettlesEverything` |
| | `SplitsSumToTotal`, `SplitsAreFair` | any number of participants, any accepted input: `SumsToTotal`, `FairToTheCent` |
| | `ServedBalancesAreOfAMoment` | any members and rows, any writes between the queries: `BalancesOfAMoment` |
| | `WhoIsOwedFindsIt` | any members and rows: `OwedIsListed` |
| | `BalancesAddUpToZero` | any rows: the balances of all who ever were members add up to zero |
| | `QuietGroupsAddUp` | nobody left, nothing written meanwhile: what is served adds up to zero |
| `AccountsProofs` | `TypeCorrect` | any workers |
| | `SavesUndoNothing` | any workers: deletions and answers are not undone |
| | `DeletedUsersStayOut` | any workers: `DeletedStayOut` |
| | `UploadsAreKept`, `AcceptorsStay` | in turn: `AvatarKeptInTurn`, `AcceptedOnceInTurn` |
| `DeliveriesProofs` | `TypeCorrect` | any processes |
| | `NoticesAccounted` | any processes, any faults: `NoticesBounded` |
| | `MailsInOrder` | one process: `NewsInOrderInTurn`, whatever is lost, retried or reordered |
| `ReceiptsProofs` | `TypeCorrect` | any workers and processes |
| | `CheckRemovesItsKey`, `NoKeyIsRevived`, `ReferencedKept` | in turn: the three properties of `MCReceipts` |
| `EntitlementsProofs` | `TypeCorrect` | any workers |
| | `AuthorityKept` | one worker: `StripeIsTheAuthority` |
| | `StoresMirrored`, `SubscriberSeesNoAds`, `AdsReturnAfterwards` | one worker: `StoreMirrored`, `FirstSubscriptionSeesNoAds`, `AdsReturn` |

"One worker" is a hypothesis of the theorem (any two workers are equal), "answers apart"
the premise `[]AnswersApart` (no two workers hold the same payment to answer it; the run
`SettlementsAnswerRace` is what happens when two do), "in turn" the
premise in the property, over the specification with a crew or the flag `inTurn`. The
hypotheses are not weakness of the proofs: the table above names what breaks without
each.

The arguments:

- *Settlements.* `ConfirmedXorDisputed` is not inductive: `Confirm` must know that the row
  in the request has no flag. `OneAnswerInv` adds that a request to resolve holds an
  unanswered row of `rows`. A step of another worker can only break that by answering the
  row (`HeldStays`), so `AnswersApart` is used just there, in `Confirm` and `Dispute`;
  requests that record payments, or answer other ones, may overlap as they like. `AnswersInv` adds that a row
  without a flag has no confirmation mail and no dispute entry, any other at most one. The refinement then maps `Insert` to
  `Record` (its rows are new since `call` is), the answers to answers, the rest to
  stutters. `MailInv` adds that queued tasks are records of three fields.
- *Caps and offsets.* For any workers, `FreshInv`: rows are finitely many, carry numbers of
  earlier requests, and no two workers record for one number, so what is inserted is new and
  adds to the sums. For one worker, `CapInv`: the cap in a request is that of now, what is
  pending fits below it with the amount, the plan is what is owed now. Nothing is then left
  over (`NothingLeft`), so the new rows are one for each place with a `Gain`, and each gain
  is covered by what is owed there. For offsets the waterfall is summed: of some places one
  comes last (`LastPlace`, since no two places are equal in the order), so what a set of
  places and all ahead of it get is the amount or all that is owed there, whichever is less
  (`WaterfallFills`), and both legs are of one amount.
- *Members.* `LastAdminInv` carries from `Check` to the write that the row is still the
  loaded one and the request still allowed, which is true when nobody else writes. From
  `Allowed` it follows that an admin is left: either another one (`AnotherAdmin`, by
  cardinality) or the actor. Deletions of accounts break it, so `TurnInv` keeps it only
  while `accounts = Users`; `SparesCreator` survives them, since a purge changes no role.
- *Paged lists.* A page is a piece of the server's list, and `Top(p)` are the items of the
  first p pages. `PagesInv` is about calls that were alone from their sending to their
  delivery: such a call works on the list that is shown, and as long as nothing was
  deleted and nothing failed, what is shown holds the items of the last refresh that are in
  the `Top` of the pages asked for so far (for a call under way: of the page before it, and
  with its answer of its page). That survives an addition, which only pushes items to
  later pages (`Added`), so they come twice and never not at all; that each is shown once
  is `Merged`, the loop of the code unfolded by its least round (`MergedIs`). Items are
  numbered as they come, so an added one is new (`FeedInv`).
- *Expenses.* `TargetsExist` says that requests work on expenses that exist and that a
  creation has its id to itself. Together with the row lock, which makes each write one
  step, the splits can be followed through any interleaving. In turn, `StillCurrent` says
  that the copy of a request is the row, that the object differs from it in what the
  operation changes (`Fits`), and that what was checked is still so (`Validated`);
  `TurnWrite` then describes all five writes at once: the row becomes the object.
- *Sums.* `SumFunctionOnSet` folds in an order that it leaves open. `FoldExists` and
  `FoldUnique` show that there is one result, `SmallestSubset` standing for induction over
  a finite set: of the sets in which a claim fails, take one of least cardinality. The rest
  (`SumAdd`, `SumUnion`, `SumSwap`, `SumScale`) follows in the same way, and recursive
  functions over `0..n` are unfolded by the least step at which they would differ.
- *Cash flow.* `SameSide` says that what is queued lies between nothing and the balance, so
  a suggestion is within both; `RoomLeft` that each suggestion has taken a user out of the
  heaps for good, so suggestions and users that are left are never more than the users.
  `Settling` adds that what a user has left is the balance less what was suggested, and
  that what is left adds up to zero: when one side of the heaps is empty the other is too.
- *Shares.* `Adjusted` adds the difference of total and sum to the first participant; what
  is fair follows from a bound on each rounding (half a cent of the exact share) summed
  over the others, with what validation tolerates of percentages and exact amounts.
- *Balances.* `ViewFine` says of every aggregate that was read that it is the one of the
  start or of now, and that whoever has had one write at most since has all of them from
  one side of it. A balance from four such sums is then rearranged to a sum over pairs.
  `BalancesAddUpToZero` needs no history: the table of pairs is antisymmetric, and its sum
  by rows is its sum by columns.
- *What is owed.* `OwedInv` is about every pair of members and, while nothing was undone,
  says more than the property: nobody paid back more than was lent, no purge is under way,
  and if v owes u then the payments between them, allocated oldest first, end before some
  expense of u in which v has a share. The replay consumes shares in that order
  (`InOrder`), and what it consumed is what was paid (`GoneSum`), so that share has
  something remaining.
- *Accounts.* `SavesUndoNothing` needs little of the copies, however old they are: a column is
  written only when the object differs from its copy, and no operation turns `deleted` off. For
  `DeletedUsersStayOut`, whoever was let in holds a copy that was not deleted (`LetInLive`):
  a request with a deleted copy can only be refused, and the requests of others touch
  neither the row nor what is done in its name (`OthersUntouched`). In turn the invariant is
  that the copy is the row (`RequestsCurrent`), so an upload or an acceptance is seen by who
  comes next, and that avatars shown belong to their user (`UploadsOwned`).
- *Deliveries.* In one process: news that is held or was told is no newer than the row, and
  what is read is the row's version, so what is sent next is at least what was sent before.
  For notifications, each push that may still create one, in the queue or in a process, is
  owed to a version that queued it, and each attempt beyond that to a failure; `Accounted`
  keeps that sum, which drops by one when a notification is created.
- *Receipts.* In turn at most one request or task is under way and its copy of the list,
  the listing and the two sets of references are those of the database; whoever writes the
  whole list back changes it by the one key it is about.
- *Entitlements.* The hard one: `Settled` speaks of a state in which everything was
  delivered, so the invariant must say what is true before. `EventsMade` says that events
  and subscriptions come from the same history. For a store (`StoreInv`), the last pending
  event says what RevenueCat says; without one, the request in hand does; without either,
  the columns do. For Stripe (`StripeInv`), the last event of a subscription is fresh, and
  of a subscription of which nothing is pending the columns agree, except through the two
  holes that `Settled` names (`late`, `unsynced`). `Origins` bounds where a customer in the
  row can come from. A repetition of a handled event is where each conjunct is needed.

Only model-checked: liveness (`Terminates`, `OrphansGo`, `NewsArrivesInTurn`,
`ScrollingResumes`), since the prover does not reach fairness. Every other property of a
passing run is a theorem. The lemmas about sums are in both `DebtsProofs` and
`SettlementsProofs`, and those about least elements in `GroupsProofs` too, as none of these
can extend another's component. `GroupsProofs` extends two components that share no
variable; the definitions of `Lists` that every specification has are therefore called
`ListInit`, `ListNext`, `ListSpec`. No module declares a `RECURSIVE` operator.

## What is not modelled

- *Conversion of currencies*: amounts are cents of one currency. One daily task replaces
  rates and an expense keeps the one it was created with; conversion is decimal arithmetic.
- *The cached ledger*, on which nothing served depends (see above), and *reports*, which
  read: `ReportService` counts confirmed payments only, where the balances count pending
  ones too.
- *Friends as a list, the search, reading of notifications, preferences, devices*: reads, or
  single writes that nothing else reads. Preferences for emails are stored, and no task of
  `email_tasks.py` looks at them. `send_push_notification` is queued by no code.
- *Phones* in `Accounts`: unique, synchronised and addressed as emails are.
- *Deleted recipients* in `Deliveries`, and the hours of the beat schedule.
- *The app's forms*: a lost answer to a POST lets the user record a payment twice, which no
  key prevents and no document speaks of; previews out of order concern one screen.
- *Riverpod's rebuild of an invalidated provider* beside the notifier's own `refresh`.
- *Renaming a group, simplify_debts, profile fields but the name*: single writes that
  nothing else reads.
- *Identity provider, S3's presigning, throttling, templates, screens, generated code and
  migrations*: library, pure I/O or declarative. `create_stripe_customer` is dispatched by
  nothing; the operator's reset command of entitlements is left out.
- *What the views check of the user* in `Receipts`: who may attach a file is one query.

Met while modelling, and about no stated promise, so no run claims it:

- `apps.users.tasks` is not in the list that `backend/config/celery.py` passes to
  `autodiscover_tasks`, and `delete_user_data` is imported inside the function that queues
  it: a worker that never imported the module would not know the task. Its message is also
  lost when the broker is down after the commit.
- `confirm_avatar_upload` does not ask whether a key was replaced before: it may show a
  picture whose object an earlier confirmation has told a task to delete.
- A name set with `PATCH` is overwritten by the token's at the next request
  (`backend/apps/users/services.py:69`).
- Deleting an account leaves the avatar in S3 and the Stripe subscription running, and
  deletes expenses that the user created although others paid them.
- A reader of balances may mix before and after within one sum: a write that changes two
  of the aggregates of one user, such as an expense of a payer with a share of their own,
  is seen in one query and not in the other (`BalancesOfAMoment` says what is left).
  Likewise a mail about an expense may join the row of one version with the share of the
  next (`told` has a number for each).
- A restored expense keeps the keys of receipts that the cleaner has deleted meanwhile, and
  a dispute of one leg of an offset leaves the other leg effective.

## What is left

In the order in which it would add most:

1. The filters of the group lists: a change of filter is a refresh that discards pages.
2. The app's forms: previews out of order, optimistic changes that are rolled back, a key
   that would make a payment's POST idempotent.
3. `Currencies`: the conversion at the rate an expense keeps, against a reference in
   fractions.
Runs are few and each asks a question, so new components join existing runs where they
interact (as `Debts` does) or choose their variant at the start (as the crews do).
