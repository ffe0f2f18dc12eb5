--------------------------------- MODULE Lists ---------------------------------
(***************************************************************************)
(* A paged list of the app and the server it reads: the activity feed      *)
(* (ActivityFeedNotifier, GroupActivityFeedNotifier) or the expenses of a  *)
(* group (GroupExpenseListNotifier).  The notifier's calls are answered    *)
(* and delivered in any order, while others add and delete items.          *)
(***************************************************************************)
EXTENDS Integers, FiniteSetsExt, SequencesExt

CONSTANTS
    PageSize,
    MaxInitial,         \* bound: items at the start
    MaxPosts,           \* bound: items added
    MaxCalls,           \* bound: calls sent
    MaxRemovals,        \* bound: items deleted
    MaxFailures         \* bound: calls that fail

ASSUME ListsAssumption ==
    /\ PageSize \in Nat \ {0}
    /\ MaxInitial \in Nat /\ MaxPosts \in Nat
    /\ MaxCalls \in Nat /\ MaxRemovals \in Nat /\ MaxFailures \in Nat

VARIABLES
    kind,           \* which of the two lists
    feed,           \* the server's items, in its order
    posted,         \* number of items added
    removed,        \* items deleted
    \* the notifier
    shown,          \* the items of its state
    loading,        \* its state is AsyncLoading
    page,           \* _currentPage
    hasMore,
    loadingMore,
    \* its calls
    calls,          \* in flight
    sent,           \* number of calls so far
    failures,
    \* history
    buried,         \* items deleted before the last refresh that came back
    due,            \* items that were there then
    gaps,           \* items deleted or calls failed since
    disturbed       \* the list on screen comes from calls that overlapped

server == <<kind, feed, posted, removed>>
notifier == <<shown, loading, page, hasMore, loadingMore>>
history == <<buried, due, gaps, disturbed>>
listVars == <<server, notifier, calls, sent, failures, history>>

Kinds == {"activity", "expenses"}
Items == 1 .. MaxInitial + MaxPosts
Call ==
    [n : 1 .. MaxCalls, op : {"refresh", "more"}, page : Nat \ {0},
     current : Seq(Items), step : {"sent", "answered", "not found", "failed"},
     answer : Seq(Items), alone : BOOLEAN, gone : SUBSET Items, there : SUBSET Items]

ListTypeOK ==
    /\ kind \in Kinds
    /\ feed \in Seq(Items) /\ posted \in 0 .. MaxPosts /\ removed \subseteq Items
    /\ shown \in Seq(Items) /\ loading \in BOOLEAN /\ page \in Nat \ {0}
    /\ hasMore \in BOOLEAN /\ loadingMore \in BOOLEAN
    /\ calls \subseteq Call /\ sent \in 0 .. MaxCalls /\ failures \in 0 .. MaxFailures
    /\ buried \subseteq Items /\ due \subseteq Items
    /\ gaps \in BOOLEAN /\ disturbed \in BOOLEAN

-------------------------------------------------------------------------------
\* The server.

\* Both lists are cut by offset, whatever was added or deleted in between.
Page(p) == SubSeq(feed, (p - 1) * PageSize + 1, Min({p * PageSize, Len(feed)}))

\* PageNumberPagination has no page past the end, but for the first; the
\* activity feed has empty ones.
NotFound(p) == kind = "expenses" /\ p > 1 /\ Page(p) = <<>>

\* Somebody adds an item: activity comes newest first, expenses by their date.
Post ==
    /\ posted < MaxPosts
    /\ \E i \in 1 .. Len(feed) + 1 :
           /\ kind = "activity" => i = 1
           /\ feed' = InsertAt(feed, i, Len(feed) + Cardinality(removed) + 1)
    /\ posted' = posted + 1
    /\ UNCHANGED <<kind, removed, notifier, calls, sent, failures, history>>

\* Somebody deletes an expense.
Withdraw ==
    /\ Cardinality(removed) < MaxRemovals
    /\ \E i \in DOMAIN feed : feed' = RemoveAt(feed, i) /\ removed' = removed \cup {feed[i]}
    /\ gaps' = TRUE
    /\ UNCHANGED <<kind, posted, notifier, calls, sent, failures, buried, due, disturbed>>

-------------------------------------------------------------------------------
\* The notifier.

\* Mutant of Short: a page is the last one when it is full, too.
ShortOrFull(p) == Len(p) <= PageSize

Short(p) == Len(p) < PageSize

\* What a page says about more: the expenses stop at empty pages only.
IsLast(p) == IF kind = "activity" THEN Short(p) ELSE p = <<>>

\* build has returned.
ListInit ==
    /\ kind \in Kinds
    /\ \E n \in 0 .. MaxInitial : feed = Reverse([i \in 1 .. n |-> i])
    /\ posted = 0 /\ removed = {}
    /\ shown = Page(1) /\ loading = FALSE /\ page = 1
    /\ hasMore = ~IsLast(Page(1)) /\ loadingMore = FALSE
    /\ calls = {} /\ sent = 0 /\ failures = 0
    /\ buried = {} /\ due = ToSet(feed) /\ gaps = FALSE /\ disturbed = FALSE

Send(op, p) ==
    /\ sent < MaxCalls
    /\ sent' = sent + 1
    /\ calls' = {[c EXCEPT !.alone = FALSE] : c \in calls} \cup
                {[n |-> sent + 1, op |-> op, page |-> p, step |-> "sent", answer |-> <<>>,
                  current |-> IF op = "more" THEN shown ELSE <<>>,
                  alone |-> calls = {}, gone |-> removed, there |-> ToSet(feed)]}

\* refresh, pulled or by selecting the dashboard: the feed shows a spinner, the
\* expenses stay.
Refresh ==
    /\ Send("refresh", 1)
    /\ loadingMore' = FALSE /\ page' = 1 /\ hasMore' = TRUE
    /\ loading' = (loading \/ kind = "activity")
    /\ UNCHANGED <<server, shown, failures, history>>

\* loadMore, by scrolling down a list that is on the screen.
LoadMore ==
    /\ hasMore /\ ~loadingMore
    /\ ~loading /\ shown # <<>>
    /\ Send("more", page + 1)
    /\ loadingMore' = TRUE /\ page' = page + 1
    /\ UNCHANGED <<server, shown, loading, hasMore, failures, history>>

\* The server reads the page.
Answer(c) ==
    /\ c.step = "sent"
    /\ calls' = (calls \ {c}) \cup
                {IF NotFound(c.page) THEN [c EXCEPT !.step = "not found"]
                 ELSE [c EXCEPT !.step = "answered", !.answer = Page(c.page)]}
    /\ UNCHANGED <<server, notifier, sent, failures, history>>

\* No answer in time, or an error.
Fail(c) ==
    /\ c.step = "sent" /\ failures < MaxFailures
    /\ calls' = (calls \ {c}) \cup {[c EXCEPT !.step = "failed"]}
    /\ failures' = failures + 1
    /\ gaps' = TRUE
    /\ UNCHANGED <<server, notifier, sent, buried, due, disturbed>>

Refused(c) == c.step \in {"not found", "failed"}

\* Mutant of Replaced: what was on the screen stays below.
ReplacedOnTop(answer) == answer \o SelectSeq(shown, LAMBDA i : i \notin ToSet(answer))

Replaced(answer) == answer

\* The rest of refresh; when its call fails, the exception leaves the state as it is.
Refreshed(c) ==
    /\ c.op = "refresh" /\ c.step # "sent"
    /\ calls' = calls \ {c}
    /\ IF Refused(c)
       THEN UNCHANGED <<shown, loading, hasMore, history>>
       ELSE /\ shown' = Replaced(c.answer)
            /\ loading' = FALSE
            /\ hasMore' = ((kind = "activity" \/ hasMore) /\ ~IsLast(c.answer))
            /\ buried' = c.gone /\ due' = c.there
            /\ gaps' = (removed # c.gone) /\ disturbed' = ~c.alone
    /\ UNCHANGED <<server, page, loadingMore, sent, failures>>

\* mergeActivityDedupe, mergeExpenseListDedupe: out, item by item.
Merged(base, incoming) ==
    LET out[n \in 0 .. Len(incoming)] ==
            IF n = 0 THEN base
            ELSE IF incoming[n] \in ToSet(out[n - 1]) THEN out[n - 1]
            ELSE Append(out[n - 1], incoming[n])
    IN out[Len(incoming)]

\* Mutant of Finally: a call that failed leaves its mark.
FinallyUnlessThrown(c) == Refused(c)

\* _loadingMore after the call, however it ended.
Finally(c) == FALSE

\* The rest of loadMore: it appends to the list of when it was called.  A page
\* that failed is not asked for again.
LoadedMore(c) ==
    /\ c.op = "more" /\ c.step # "sent"
    /\ calls' = calls \ {c}
    /\ loadingMore' = Finally(c)
    /\ IF Refused(c) \/ c.answer = <<>>
       THEN UNCHANGED <<shown, loading>>
       ELSE shown' = Merged(c.current, c.answer) /\ loading' = FALSE
    /\ hasMore' = (hasMore /\ (Refused(c) \/ ~IsLast(c.answer)))
    /\ disturbed' = (disturbed \/ ~c.alone)
    /\ UNCHANGED <<server, page, sent, failures, buried, due, gaps>>

Deliver(c) == Refreshed(c) \/ LoadedMore(c)

ListNext ==
    \/ Post \/ Withdraw \/ Refresh \/ LoadMore
    \/ \E c \in calls : Answer(c) \/ Fail(c) \/ Deliver(c)

\* A call is answered or times out, and its answer is delivered.
Fairness ==
    \A n \in 1 .. MaxCalls :
        WF_listVars(\E c \in calls : c.n = n /\ (Answer(c) \/ Deliver(c)))

ListSpec == ListInit /\ [][ListNext]_listVars /\ Fairness

-------------------------------------------------------------------------------
(* Properties.                                                               *)

\* When the notifier takes the list for complete ("You're all caught up."), it
\* shows every item there was at its last refresh, once, whatever was added
\* since: with calls one at a time, none failed and nothing deleted.
EndMeansAll ==
    ~hasMore /\ ~gaps /\ ~disturbed =>
        due \subseteq ToSet(shown) /\ Len(shown) = Cardinality(ToSet(shown))

\* With calls one at a time, nothing that was deleted before the last refresh is
\* shown, however many pages were loaded after it (refresh, loadMore).
NoGhosts == ~disturbed => ToSet(shown) \cap buried = {}

\* After a refresh of the dashboard nothing stale is shown (refreshDashboardData:
\* "cannot show stale data after approve / settle / pull-to-refresh").
RefreshedIsFresh == kind = "activity" => ToSet(shown) \cap buried = {}

\* A page past the end tells the notifier that there is no more (loadMore; test
\* "empty page 2 sets hasMore false; further loadMore does not fetch").
EndIsFound ==
    [][\A c \in calls \ calls' :
          (c.op = "more" /\ (c.step = "not found" \/ (c.step = "answered" /\ c.answer = <<>>)))
              => ~hasMore' \/ \E d \in calls' : d.n = c.n]_listVars

\* Scrolling is never blocked for good by a page that failed (the finally of
\* loadMore, the reset in refresh).
ScrollingResumes == loadingMore ~> ~loadingMore
===============================================================================
