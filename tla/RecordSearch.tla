---------------------------- MODULE RecordSearch ----------------------------
(***************************************************************************)
(* The search page of the web client (pages/RecordSearch/RecordSearch.tsx) *)
(* with its filter form (components/SearchPanel) and its table             *)
(* (components/RecordTable): criteria, the search requests in flight, the  *)
(* rows shown, and the clusters selected for an analysis across pages.     *)
(*                                                                         *)
(* One action is one event handler of the page run to its end, or the end  *)
(* of one request.  The criteria are a JavaScript object: its entries, in  *)
(* the order in which the keys came into it, beside page and size.  A      *)
(* filter value is abstracted to "this field is constrained"; the rows of  *)
(* a page come from the constants, as the server computes them.  What      *)
(* follows a submitted analysis is in AnalysisSubmit.                      *)
(***************************************************************************)
EXTENDS Naturals, Sequences, FiniteSets

CONSTANTS
    Cluster,      \* clusters the server knows
    Ranking,      \* all of them, in descending order of any sort key
    Field,        \* fields of the filter form
    TextField,    \* those that hold "" when they are erased
    QuickFilter,  \* the fields a quick filter sets; a subset of Field
    Matching,     \* the fields whose constraint a cluster satisfies
    Size,         \* page sizes on offer
    DefaultSize,
    MaxSearches,  \* bound: requests sent
    MaxFailures   \* bound: requests that fail

ASSUME SearchAssumption ==
    /\ Ranking \in Seq(Cluster)
    /\ QuickFilter \subseteq Field /\ TextField \subseteq Field
    /\ "sort" \notin Field
    /\ Matching \in [Cluster -> SUBSET Field]
    /\ Size \subseteq Nat \ {0} /\ DefaultSize \in Size
    /\ MaxSearches \in Nat /\ MaxFailures \in Nat

VARIABLES
    criteria,    \* searchCriteria of the page
    local,       \* localCriteria of the form: what is typed
    active,      \* the highlighted quick filter, or NoFilter
    timer,       \* the timer of the initial search is set
    asked,       \* requests sent so far; the number of the newest
    inflight,    \* requests not settled yet
    controller,  \* activeSearchControllerRef: the current request, 0 if none
    result,      \* searchResult, with the criteria it answers
    loading,
    selected,    \* selectedRecordMap: cluster -> scope its record was read in
    selScope,    \* selectionScopeRef
    mounted,
    emptied,     \* history: flips when the selection is emptied on purpose
    lastFailed,  \* history: the newest search has failed
    failures     \* history: searches that failed

form == <<local, active>>
view == <<result, loading>>
selection == <<selected, selScope>>
history == <<emptied, lastFailed, failures>>
vars == <<criteria, form, timer, asked, inflight, controller, view,
          selection, mounted, history>>

NoFilter == "none"
Order == {"desc", "asc", "unsorted"}
Page == Nat \ {0}

\* A key of the criteria has a value, is "" (a text erased) or undefined.
Key == Field \cup {"sort"}
Value == {"set", "", "undefined", "desc", "asc"}
Entry == [key : Key, value : Value]
Criteria == [entries : Seq(Entry), page : Page, size : Size]

\* {...object, [k]: v}: a key that is there keeps its place.
Assign(object, k, v) ==
    IF \E i \in DOMAIN object : object[i].key = k
    THEN [i \in DOMAIN object |->
            IF object[i].key = k THEN [key |-> k, value |-> v] ELSE object[i]]
    ELSE Append(object, [key |-> k, value |-> v])

Has(c, k, v) == \E i \in DOMAIN c.entries : c.entries[i] = [key |-> k, value |-> v]

\* The parameters of the request: fields that are neither "" nor undefined.
Constrained(c) == {f \in Field : Has(c, f, "set")}

\* buildSearchScope: JSON leaves out what is undefined, keeps what is "", and
\* keeps the order of the keys, so that two scopes may be one request.
Defined(e) == e.value # "undefined"
Scope(c) == SelectSeq(c.entries, Defined)
NoSelection == [k \in {} |-> Scope(criteria)]

\* getDefaultSearchCriteria
Default ==
    [entries |-> <<[key |-> "sort", value |-> "desc"]>>, page |-> 1, size |-> DefaultSize]

\* The server's answer: the matching clusters, in order, cut into pages.
Hits(c) == {i \in DOMAIN Ranking : Constrained(c) \subseteq Matching[Ranking[i]]}
Place(c, i) ==
    Cardinality({j \in Hits(c) : IF Has(c, "sort", "asc") THEN i <= j ELSE j <= i})
Total(c) == Cardinality(Hits(c))
Pages(total, size) == IF total = 0 THEN 1 ELSE (total + size - 1) \div size
RowsOf(c) ==
    {Ranking[i] : i \in {j \in Hits(c) :
        Place(c, j) \in (c.page - 1) * c.size + 1 .. c.page * c.size}}
Answer(c) == [for |-> c, rows |-> RowsOf(c), total |-> Total(c)]
NoResult == [for |-> Default, rows |-> {}, total |-> 0]

TypeOK ==
    /\ criteria \in Criteria /\ local \in Criteria
    /\ active \in QuickFilter \cup {NoFilter}
    /\ timer \in BOOLEAN /\ loading \in BOOLEAN /\ mounted \in BOOLEAN
    /\ asked \in 0..MaxSearches /\ controller \in 0..asked
    /\ inflight \subseteq [id : 1..asked, for : Criteria]
    /\ result \in [for : Criteria, rows : SUBSET Cluster, total : Nat]
    /\ DOMAIN selected \subseteq Cluster
    /\ selScope = Scope(criteria)
    /\ emptied \in BOOLEAN /\ lastFailed \in BOOLEAN /\ failures \in 0..MaxFailures

Init ==
    /\ criteria = Default /\ local = Default /\ active = NoFilter
    /\ timer = TRUE /\ mounted = TRUE /\ loading = FALSE
    /\ asked = 0 /\ inflight = {} /\ controller = 0
    /\ result = NoResult
    /\ selected = NoSelection /\ selScope = Scope(Default)
    /\ emptied = FALSE /\ lastFailed = FALSE /\ failures = 0

----------------------------------------------------------------------------
(* handleSearch: what every search shares.  A change of scope drops the    *)
(* selection; the request that was current is aborted, which here is to be *)
(* no longer "controller".                                                 *)
\* Mutant: the selection is dropped by a reset only.
ScopeKept(c, kept) ==
    /\ selected' = kept
    /\ selScope' = Scope(c)

\* Mutant: buildSearchScope leaves page and size in the scope it compares.
ScopeWithPage(c, kept) ==
    /\ selected' = IF Scope(c) = selScope /\ c.page = criteria.page /\ c.size = criteria.size
                   THEN kept ELSE NoSelection
    /\ selScope' = Scope(c)

ScopeChange(c, kept) ==
    /\ selected' = IF Scope(c) = selScope THEN kept ELSE NoSelection
    /\ selScope' = Scope(c)

Send(cs) ==
    /\ asked + Len(cs) <= MaxSearches
    /\ inflight' = inflight \cup
         {[id |-> asked + i, for |-> cs[i]] : i \in DOMAIN cs}
    /\ asked' = asked + Len(cs)
    /\ controller' = asked + Len(cs)

Search(cs, kept) ==
    LET c == cs[Len(cs)] IN
    /\ mounted
    /\ ScopeChange(c, kept)
    /\ Send(cs)
    /\ timer' = FALSE /\ loading' = TRUE
    /\ criteria' = c /\ local' = c
    /\ lastFailed' = FALSE
    /\ UNCHANGED <<result, mounted, failures>>

InitialSearch ==
    /\ timer
    /\ Search(<<Default>>, selected)
    /\ UNCHANGED <<active, emptied>>

\* What a field can come to hold: something else or, if there is something to
\* erase, nothing, which is "" in a text input and undefined in the others.
Typed(f) ==
    {"set"} \cup IF ~Has(local, f, "set") THEN {}
                ELSE IF f \in TextField THEN {""} ELSE {"undefined"}

\* The form.  handleChange goes back to page 1 and forgets the quick filter.
EditField(f, v) ==
    /\ mounted
    /\ local' = [local EXCEPT !.page = 1, !.entries = Assign(@, f, v)]
    /\ active' = NoFilter
    /\ UNCHANGED <<criteria, timer, asked, inflight, controller, view,
                   selection, mounted, history>>

PressSearch ==
    /\ Search(<<local>>, selected)
    /\ UNCHANGED <<active, emptied>>

\* handleQuickFilter keeps the page size only: other fields and the sort go.
PressQuickFilter(q) ==
    /\ Search(<<[entries |-> <<[key |-> q, value |-> "set"]>>, page |-> 1,
                 size |-> local.size]>>, selected)
    /\ active' = q
    /\ UNCHANGED emptied

PressReset ==
    /\ Search(<<Default>>, NoSelection)
    /\ active' = NoFilter
    /\ emptied' = ~emptied

----------------------------------------------------------------------------
(* The table, which the spinner covers while a search is running.          *)
TableShown == mounted /\ ~loading /\ result.rows # {}

\* The page in use is that of the answer, the criteria those of the page.
TurnPage(p) ==
    /\ TableShown
    /\ p # result.for.page
    /\ Search(<<[criteria EXCEPT !.page = p, !.size = result.for.size]>>,
              selected)
    /\ UNCHANGED <<active, emptied>>

\* A new page size calls the handler twice, for page 1 and then for the page
\* the pagination stays on: the first request is aborted by the second.
ChangeSize(s) ==
    LET last == Pages(result.total, s)
        p == IF result.for.page > last THEN last ELSE result.for.page
    IN  /\ TableShown
        /\ s # result.for.size
        /\ Search(<<[criteria EXCEPT !.page = 1, !.size = s],
                    [criteria EXCEPT !.page = p, !.size = s]>>, selected)
        /\ UNCHANGED <<active, emptied>>

\* The third click on a column asks for no order, which means the default.
ChangeSort(o) ==
    /\ TableShown
    /\ Search(<<[criteria EXCEPT !.page = 1,
                   !.entries = Assign(@, "sort", IF o = "unsorted" THEN "desc" ELSE o)]>>,
              selected)
    /\ UNCHANGED <<active, emptied>>

\* Mutant: the boxes ticked on this page are the selection.
TickThisPage(ticked) ==
    /\ TableShown
    /\ selected' = [k \in ticked |-> Scope(result.for)]
    /\ UNCHANGED <<criteria, form, timer, asked, inflight, controller, view,
                   selScope, mounted, history>>

\* handleSelectionChange: the boxes ticked on this page; other pages stay.
TickRows(ticked) ==
    LET kept == DOMAIN selected \ result.rows
    IN  /\ TableShown
        /\ selected' = [k \in kept \cup ticked |->
             IF k \in ticked THEN Scope(result.for) ELSE selected[k]]
        /\ UNCHANGED <<criteria, form, timer, asked, inflight, controller,
                       view, selScope, mounted, history>>

\* The button of the table, or submitAnalysis once its task is accepted.
ClearSelection ==
    /\ mounted /\ selected # NoSelection
    /\ selected' = NoSelection
    /\ emptied' = ~emptied
    /\ UNCHANGED <<criteria, form, timer, asked, inflight, controller, view,
                   selScope, mounted, lastFailed, failures>>

----------------------------------------------------------------------------
(* The end of a request.  One that is no longer current ends in AbortError *)
(* or is dropped by the comparison with the controller: nothing changes.   *)
\* Mutant: whatever comes is shown.
AnsweredAny(r) ==
    /\ inflight' = inflight \ {r}
    /\ result' = Answer(r.for)
    /\ loading' = FALSE
    /\ controller' = 0
    /\ UNCHANGED <<criteria, form, timer, asked, selection, mounted, history>>

Answered(r) ==
    /\ inflight' = inflight \ {r}
    /\ IF r.id = controller
       THEN /\ result' = Answer(r.for)
            /\ loading' = FALSE
            /\ controller' = 0
       ELSE UNCHANGED <<view, controller>>
    /\ UNCHANGED <<criteria, form, timer, asked, selection, mounted, history>>

\* Mutant: the spinner stays on.
FailedStill(r) ==
    /\ r.id = controller /\ failures < MaxFailures
    /\ inflight' = inflight \ {r}
    /\ controller' = 0
    /\ lastFailed' = TRUE /\ failures' = failures + 1
    /\ UNCHANGED <<criteria, form, timer, asked, view, selection, mounted, emptied>>

\* The rows of the search before stay on the page.
Failed(r) ==
    /\ r.id = controller /\ failures < MaxFailures
    /\ inflight' = inflight \ {r}
    /\ loading' = FALSE /\ controller' = 0
    /\ lastFailed' = TRUE /\ failures' = failures + 1
    /\ UNCHANGED <<criteria, form, timer, asked, result, selection, mounted, emptied>>

\* The user leaves the page; the clean-up aborts the current request.
Unmount ==
    /\ mounted
    /\ mounted' = FALSE /\ timer' = FALSE /\ controller' = 0
    /\ UNCHANGED <<criteria, form, asked, inflight, view, selection, history>>

UseForm ==
    \/ \E f \in Field : \E v \in Typed(f) : EditField(f, v)
    \/ PressSearch
    \/ \E q \in QuickFilter : PressQuickFilter(q)
    \/ PressReset

UseTable ==
    \/ \E p \in 1..Pages(result.total, result.for.size) : TurnPage(p)
    \/ \E s \in Size : ChangeSize(s)
    \/ \E o \in Order : ChangeSort(o)
    \/ \E ticked \in SUBSET result.rows : TickRows(ticked)
    \/ ClearSelection

Settle(id) == \E r \in inflight : r.id = id /\ (Answered(r) \/ Failed(r))

Next ==
    \/ InitialSearch
    \/ UseForm
    \/ UseTable
    \/ \E id \in 1..MaxSearches : Settle(id)
    \/ Unmount

Spec == Init /\ [][Next]_vars

\* The browser fires its timers and ends every request it has sent.
FairSpec ==
    /\ Spec
    /\ WF_vars(InitialSearch)
    /\ \A id \in 1..MaxSearches : WF_vars(Settle(id))

----------------------------------------------------------------------------
(* The spinner is on exactly while the current request is in flight: no    *)
(* order of searches, aborts and failures leaves it on for ever, or off    *)
(* while the rows are about to change (RecordSearch.tsx:107-138).          *)
SpinnerHasRequest ==
    mounted => /\ loading <=> controller # 0
               /\ loading => \E r \in inflight : r.id = controller

(* Once nothing is loading, the rows answer the criteria on the page, in   *)
(* whatever order the answers came, unless the newest search failed.       *)
ShownIsCurrent ==
    mounted /\ asked > 0 /\ ~loading /\ ~lastFailed
        => result = Answer(criteria)

(* A highlighted quick filter is in force, in the form and in the search   *)
(* that is shown or running, also after the initial search's timer.        *)
QuickFilterInForce ==
    active # NoFilter =>
        active \in Constrained(local) /\ active \in Constrained(criteria)

(* The page's state at every moment.                                       *)
PageConsistent ==
    TypeOK /\ SpinnerHasRequest /\ ShownIsCurrent /\ QuickFilterInForce

(* A selected cluster carries the counts of the criteria it was read       *)
(* under: a batch mixes two scopes only if a search has failed, since then *)
(* the rows of the old scope can still be ticked (RecordSearch.tsx:101).   *)
SelectionInScope ==
    \A k \in DOMAIN selected : selected[k] # selScope => failures > 0

(* Ticks survive (RecordTable.tsx:231): a search that changes nothing but   *)
(* page and size keeps every tick, whatever failed or was aborted before,   *)
(* and ticking rows leaves those of other pages.  Besides, only the user    *)
(* who empties the selection, a reset or an accepted task drops one.  A     *)
(* search with other criteria may: its scope is compared as a string, so    *)
(* that an erased text or keys in another order drop all of them, though    *)
(* the request is the same.                                                 *)
PagesKept ==
    \A k \in DOMAIN selected :
        \/ k \in DOMAIN selected' /\ selected'[k] = selected[k]
        \/ asked' = asked /\ k \in result.rows
        \/ criteria'.entries # criteria.entries
        \/ emptied' # emptied
CrossPageKept == [][PagesKept]_vars

(* Every search ends: the spinner goes off or the user has left.           *)
SearchSettles == (timer \/ loading) ~> (~mounted \/ (~timer /\ ~loading))
=============================================================================
