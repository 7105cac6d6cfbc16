----------------------------- MODULE ResultList -----------------------------
(***************************************************************************)
(* The list of analysis results in the web client                          *)
(* (pages/AnalysisResultList) with its filter form                         *)
(* (components/AnalysisSearchPanel): criteria and address bar, loads whose *)
(* answers come in any order, selection across pages, and removing tasks   *)
(* from the list one by one or in a batch.                                 *)
(*                                                                         *)
(* Every new criteria object makes an effect send a load; nothing aborts a *)
(* load or compares it with a newer one.  A second effect puts the task of *)
(* the address into the criteria whenever it changes.                      *)
(***************************************************************************)
EXTENDS Naturals, Sequences, FiniteSets, Functions

CONSTANTS
    Task,         \* tasks of the server
    Newest,       \* all of them, newest first
    TimeField,    \* the time range, which can be typed or set by "today"
    QuickFilter,  \* TimeField and the risk level
    Matching,     \* the filters a task satisfies
    Size,         \* page sizes on offer
    DefaultSize,
    NoTask,       \* no task_id in the address or the criteria
    MaxLoads,     \* bound: loads sent
    MaxHides,     \* bound: requests to remove tasks
    MaxFailures   \* bound: requests that fail

ASSUME ListAssumption ==
    /\ Newest \in Seq(Task) /\ IsInjective(Newest) /\ NoTask \notin Task
    /\ TimeField \in QuickFilter
    /\ Matching \in [Task -> SUBSET QuickFilter]
    /\ Size \subseteq Nat \ {0} /\ DefaultSize \in Size
    /\ MaxLoads \in Nat \ {0, 1}
    /\ MaxHides \in Nat /\ MaxFailures \in Nat

VARIABLES
    url,       \* task_id of the address
    criteria,  \* searchCriteria
    active,    \* the highlighted quick filter, or NoFilter
    sent,      \* loads sent so far
    loads,     \* loads in flight, with the answer of when they were sent
    shown,     \* results and total, with the load they answer
    loading,
    selected,  \* selectedRowKeys
    hidden,    \* tasks the server has hidden
    hides,     \* requests to hide in flight
    asked,     \* requests to hide sent so far
    failures,  \* history: requests that failed
    raced,     \* history: a load was answered while another one, sent for other
               \* criteria or after a removal, was in flight
    crossed    \* history: a removal met another one, a load, or a change of
               \* criteria, or spanned pages

view == <<shown, loading>>
removal == <<hidden, hides, asked>>
history == <<failures, raced, crossed>>
vars == <<url, criteria, active, sent, loads, view, selected, removal, history>>

NoFilter == "none"
Page == {1} \cup 1..Len(Newest)
Criteria == [task : Task \cup {NoTask}, filter : SUBSET QuickFilter,
             page : Page, size : Size]
Default == [task |-> NoTask, filter |-> {}, page |-> 1, size |-> DefaultSize]

\* The places of the tasks that match and are not hidden when the server reads
\* them, and those of a page: a task is on it by the number of newer matches.
Hits(c) ==
    {i \in DOMAIN Newest : /\ Newest[i] \notin hidden
                           /\ c.task \in {NoTask, Newest[i]}
                           /\ c.filter \subseteq Matching[Newest[i]]}
Slice(S, page, size) ==
    {i \in S : Cardinality({j \in S : j <= i}) \in (page - 1) * size + 1 .. page * size}
RowsOf(c) == {Newest[i] : i \in Slice(Hits(c), c.page, c.size)}
Pages(total, size) == IF total = 0 THEN 1 ELSE (total + size - 1) \div size

Answer(id, c) ==
    [id |-> id, for |-> c, rows |-> RowsOf(c), total |-> Cardinality(Hits(c))]

Load == [id : 0..MaxLoads, for : Criteria, rows : SUBSET Task, total : Nat]
Hide == [tasks : SUBSET Task, count : Nat, page : Page, batch : BOOLEAN,
         served : BOOLEAN]

TypeOK ==
    /\ url \in Task \cup {NoTask}
    /\ criteria \in Criteria /\ active \in QuickFilter \cup {NoFilter}
    /\ sent \in 0..MaxLoads /\ loads \subseteq Load /\ shown \in Load
    /\ loading \in BOOLEAN /\ selected \subseteq Task
    /\ hidden \subseteq Task /\ hides \subseteq Hide /\ asked \in 0..MaxHides
    /\ failures \in 0..MaxFailures /\ raced \in BOOLEAN /\ crossed \in BOOLEAN

\* The page opens with the task of the address, and both effects load it.
Init ==
    /\ url \in Task \cup {NoTask}
    /\ criteria = [Default EXCEPT !.task = url] /\ active = NoFilter
    /\ sent = 2
    /\ shown = [id |-> 0, for |-> Default, rows |-> {}, total |-> 0]
    /\ loading = TRUE /\ selected = {}
    /\ hidden = {} /\ hides = {} /\ asked = 0
    /\ loads = {Answer(i, criteria) : i \in 1..2}
    /\ failures = 0 /\ raced = FALSE /\ crossed = FALSE

----------------------------------------------------------------------------
\* New criteria: one load for each object the effect sees.
Apply(cs) ==
    /\ sent + Len(cs) <= MaxLoads
    /\ loads' = loads \cup {Answer(sent + i, cs[i]) : i \in DOMAIN cs}
    /\ sent' = sent + Len(cs)
    /\ loading' = TRUE
    /\ criteria' = cs[Len(cs)]
    /\ UNCHANGED shown

\* A removal in flight will come back to criteria that have changed.
Meanwhile == crossed' = (crossed \/ hides # {})

\* Mutant: the address stays.
ApplyWithoutUrl(c) ==
    /\ Apply(<<c>>)
    /\ Meanwhile
    /\ UNCHANGED <<url, removal, failures, raced>>

\* New criteria and the address that belongs to them: if the task in the
\* address changes, the other effect makes a second object, on page 1.
ApplyWithUrl(c) ==
    /\ Apply(IF c.task = url THEN <<c>> ELSE <<c, [c EXCEPT !.page = 1]>>)
    /\ url' = c.task
    /\ Meanwhile
    /\ UNCHANGED <<removal, failures, raced>>

\* handleChange writes to a copy of the criteria, back on page 1, and takes
\* the highlight away.  What was typed is lost when the criteria change.
Edited(t, f) == [criteria EXCEPT !.task = t, !.filter = f, !.page = 1]
Typed ==
    {Edited(t, f) :
        t \in Task \cup {NoTask},
        f \in {criteria.filter, criteria.filter \ {TimeField},
              criteria.filter \cup {TimeField}}}

Type ==
    /\ active' = NoFilter
    /\ UNCHANGED <<url, criteria, sent, loads, view, selected, removal, history>>

\* Without an edit the form hands back the same object: nothing is loaded.
PressSearch(c) ==
    /\ ApplyWithUrl(c)
    /\ active' = NoFilter
    /\ UNCHANGED selected

\* Unlike on the search page, a quick filter adds to what is there.
PressQuickFilter(q, c) ==
    /\ ApplyWithUrl([c EXCEPT !.filter = @ \cup {q}, !.page = 1])
    /\ active' = q
    /\ UNCHANGED selected

PressReset ==
    /\ ApplyWithUrl(Default)
    /\ selected' = {} /\ active' = NoFilter

\* The button beside the task of the address resets the page, not the form.
ClearTask ==
    /\ url # NoTask
    /\ ApplyWithUrl(Default)
    /\ selected' = {}
    /\ UNCHANGED active

\* The menu, or the end of an analysis submitted before, changes the address.
Navigate(t) ==
    /\ t # url
    /\ url' = t
    /\ Apply(<<[criteria EXCEPT !.task = t, !.page = 1]>>)
    /\ Meanwhile
    /\ UNCHANGED <<active, selected, removal, failures, raced>>

----------------------------------------------------------------------------
(* The table, which the spinner covers while "loading"; an empty page has  *)
(* neither a table nor a pagination.                                       *)
TableShown == ~loading /\ shown.rows # {}

Turn(p, s) ==
    /\ TableShown
    /\ Apply(<<[criteria EXCEPT !.page = p, !.size = s]>>)
    /\ Meanwhile
    /\ UNCHANGED <<url, active, selected, removal, failures, raced>>

TurnPage(p) ==
    /\ p \in 1..Pages(shown.total, criteria.size) \ {criteria.page}
    /\ Turn(p, criteria.size)

\* The handler is called for page 1 and for the page the pagination stays on;
\* both updates are batched, and the second one is what remains.
ChangeSize(s) ==
    LET last == Pages(shown.total, s)
    IN  /\ s # criteria.size
        /\ Turn(IF criteria.page > last THEN last ELSE criteria.page, s)

Tick(ticked) ==
    /\ TableShown
    /\ selected' = (selected \ shown.rows) \cup ticked
    /\ UNCHANGED <<url, criteria, active, sent, loads, view, removal, history>>

\* The request keeps what the handler's closure saw: rows and page.  While the
\* list is loading these are the rows of one page and the number of another.
AskToHide(tasks, batch) ==
    /\ asked < MaxHides
    /\ asked' = asked + 1
    /\ hides' = hides \cup {[tasks |-> tasks, count |-> Cardinality(shown.rows),
                             page |-> criteria.page, batch |-> batch,
                             served |-> FALSE]}
    /\ crossed' = (crossed \/ loading \/ hides # {} \/ ~(tasks \subseteq shown.rows))
    /\ UNCHANGED <<url, criteria, active, sent, loads, view, selected, hidden,
                   failures, raced>>

\* The confirmations, of a row and of the batch, lie over the spinner: they can
\* be pressed while the list is loading.
HideOne(t) == t \in shown.rows /\ AskToHide({t}, FALSE)
HideSelected == shown.rows # {} /\ selected # {} /\ AskToHide(selected, TRUE)

----------------------------------------------------------------------------
ServeHide(h) ==
    /\ ~h.served
    /\ hidden' = hidden \cup h.tasks
    /\ hides' = (hides \ {h}) \cup {[h EXCEPT !.served = TRUE]}
    /\ UNCHANGED <<url, criteria, active, sent, loads, view, selected, asked,
                   history>>

\* Mutant: the page is kept.
StayOnPage(h) == h.page

\* The page is left only if this removal was as large as its rows.
NextPage(h) ==
    IF h.count = Cardinality(h.tasks) /\ h.page > 1 THEN h.page - 1 ELSE h.page

\* Mutant: the list is not loaded again.
HidQuietly(h) ==
    /\ h.served
    /\ hides' = hides \ {h}
    /\ selected' = IF h.batch THEN {} ELSE selected \ h.tasks
    /\ UNCHANGED <<url, criteria, active, sent, loads, view, hidden, asked, history>>

\* Mutant: the selection is kept.
HidStillSelected(h) ==
    /\ h.served
    /\ hides' = hides \ {h}
    /\ Apply(<<[criteria EXCEPT !.page = NextPage(h)]>>)
    /\ UNCHANGED <<url, active, selected, hidden, asked, history>>

Hid(h) ==
    /\ h.served
    /\ hides' = hides \ {h}
    /\ Apply(<<[criteria EXCEPT !.page = NextPage(h)]>>)
    /\ selected' = IF h.batch THEN {} ELSE selected \ h.tasks
    /\ UNCHANGED <<url, active, hidden, asked, history>>

\* Lost on its way there or back: a message, and no reload.
HideFailed(h) ==
    /\ failures < MaxFailures
    /\ failures' = failures + 1
    /\ hides' = hides \ {h}
    /\ UNCHANGED <<url, criteria, active, sent, loads, view, selected, hidden,
                   asked, raced, crossed>>

\* The server reads the tasks at some time between: only "hidden" can differ.
Loaded(r) ==
    /\ loads' = loads \ {r}
    /\ shown' \in {r, Answer(r.id, r.for)}
    /\ loading' = FALSE
    /\ raced' = (raced \/ \E l \in loads' : [l EXCEPT !.id = r.id] # r)
    /\ UNCHANGED <<url, criteria, active, sent, selected, removal, failures,
                   crossed>>

LoadFailed(r) ==
    /\ failures < MaxFailures
    /\ failures' = failures + 1
    /\ loads' = loads \ {r}
    /\ loading' = FALSE
    /\ UNCHANGED <<url, criteria, active, sent, shown, selected, removal, raced,
                   crossed>>

LoadStep(id) ==
    \E r \in loads : r.id = id /\ (Loaded(r) \/ LoadFailed(r))

Next ==
    \/ Type \/ PressReset \/ ClearTask
    \/ \E c \in Typed :
         PressSearch(c) \/ \E q \in QuickFilter : PressQuickFilter(q, c)
    \/ \E t \in Task \cup {NoTask} : Navigate(t)
    \/ \E p \in Page : TurnPage(p)
    \/ \E s \in Size : ChangeSize(s)
    \/ \E ticked \in SUBSET shown.rows : Tick(ticked)
    \/ \E t \in Task : HideOne(t)
    \/ HideSelected
    \/ \E h \in hides : ServeHide(h) \/ Hid(h) \/ HideFailed(h)
    \/ \E id \in 1..MaxLoads : LoadStep(id)

Spec == Init /\ [][Next]_vars

----------------------------------------------------------------------------
Quiet == loads = {} /\ hides = {} /\ failures = 0

(* The address and the criteria name the same task, so that a reload of    *)
(* the page or a copied address shows the same list, although two handlers *)
(* and an effect write them (AnalysisResultList.tsx:90-123).               *)
UrlNamesTask == criteria.task = url

(* No order of answers leaves the spinner on for ever.                     *)
SpinnerHasLoad == loading => loads # {}

(* A highlighted quick filter is in force; only the button beside the task *)
(* of the address resets the filters and leaves the highlight.             *)
HighlightInForce ==
    active # NoFilter => active \in criteria.filter \/ criteria.filter = {}

(* The page's state at every moment.                                       *)
PageConsistent == TypeOK /\ UrlNamesTask /\ SpinnerHasLoad /\ HighlightInForce

(* When everything has been answered, the rows answer the criteria of the  *)
(* page and no hidden task is among them, unless an older load was         *)
(* answered last: then the page shows the rows of other criteria.          *)
ShownIsCurrent ==
    Quiet => \/ shown.id < sent
             \/ shown.for = criteria /\ shown.rows \cap hidden = {}

(* Removing tasks never leaves the user on an empty page, which has no     *)
(* pagination to leave it by, while other tasks match: unless a removal    *)
(* overlapped another, spanned pages, was confirmed while the list was     *)
(* loading, or met a change of criteria, since the new page is computed    *)
(* from what the click saw (AnalysisResultList.tsx:158), or a page was     *)
(* chosen from the total of an older load's answer.                        *)
EmptyPageNeedsCrossing ==
    Quiet /\ ~crossed /\ ~raced => (shown.rows = {} => Hits(criteria) = {})

(* A task that has been removed is not selected any more, so a batch never *)
(* counts or downloads what the user cannot see; it takes the answer of an *)
(* older load, which uncovers the old rows before the new ones come.       *)
RemovedNotSelected ==
    Quiet /\ ~raced => selected \cap hidden = {}
=============================================================================
