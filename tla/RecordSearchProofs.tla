------------------------- MODULE RecordSearchProofs -------------------------
(***************************************************************************)
(* Proofs about the search page: what it shows is what its criteria ask    *)
(* for, whatever order requests end in, for any clusters, filters, page    *)
(* sizes and bounds.                                                       *)
(***************************************************************************)
EXTENDS RecordSearch, FiniteSetTheorems, SequenceTheorems, TLAPS

\* What ties the requests in flight to the page: the current one was sent for
\* the criteria of the page, ids are not used twice, and before the first
\* search nothing is shown.
RequestsOK ==
    /\ \A r \in inflight : r.id = controller => r.for = criteria
    /\ timer => active = NoFilter
    /\ asked = 0 => result = NoResult
    /\ lastFailed => failures > 0

IInv ==
    /\ TypeOK
    /\ SpinnerHasRequest /\ ShownIsCurrent /\ QuickFilterInForce
    /\ RequestsOK
    /\ SelectionInScope

-----------------------------------------------------------------------------
(* The operators.                                                          *)

\* The server's total is a number: it counts lines of the ranking.
LEMMA TotalType ==
    ASSUME NEW c \in Criteria PROVE Total(c) \in Nat
<1>1. DOMAIN Ranking = 1..Len(Ranking) /\ Len(Ranking) \in Nat
    BY SearchAssumption
<1>2. IsFiniteSet(DOMAIN Ranking)
    BY <1>1, FS_Interval
<1>3. IsFiniteSet(Hits(c))
    BY <1>2, FS_Subset DEF Hits
<1> QED
    BY <1>3, FS_CardinalityType DEF Total

\* An answer has the type of "result".
LEMMA AnswerType ==
    ASSUME NEW c \in Criteria
    PROVE  Answer(c) \in [for : Criteria, rows : SUBSET Cluster, total : Nat]
<1>1. RowsOf(c) \subseteq Cluster
    BY SearchAssumption DEF RowsOf, Hits
<1> QED
    BY <1>1, TotalType DEF Answer

\* The number of pages is positive.
LEMMA PagesType ==
    ASSUME NEW total \in Nat, NEW size \in Nat \ {0}
    PROVE  Pages(total, size) \in Nat \ {0}
<1>1. CASE total = 0
    BY <1>1 DEF Pages
<1>2. CASE total # 0
    <2>1. total + size - 1 \in Nat /\ total + size - 1 >= size
        BY <1>2
    <2>2. (total + size - 1) \div size \in Nat /\ (total + size - 1) \div size >= 1
        BY <2>1
    <2> QED
        BY <1>2, <2>2 DEF Pages
<1> QED
    BY <1>1, <1>2

LEMMA DefaultType == Default \in Criteria
<1>1. [key |-> "sort", value |-> "desc"] \in Entry
    BY DEF Entry, Key, Value
<1> QED
    BY <1>1, SearchAssumption DEF Default, Criteria, Page

\* An assignment to a key gives an object, whether the key was there or not.
LEMMA AssignType ==
    ASSUME NEW object \in Seq(Entry), NEW k \in Key, NEW v \in Value
    PROVE  Assign(object, k, v) \in Seq(Entry)
<1>1. [key |-> k, value |-> v] \in Entry
    BY DEF Entry
<1>2. /\ Len(object) \in Nat /\ DOMAIN object = 1..Len(object)
      /\ \A i \in DOMAIN object : object[i] \in Entry
    BY LenProperties, ElementOfSeq
<1>3. CASE \E i \in DOMAIN object : object[i].key = k
    <2> DEFINE new == [i \in DOMAIN object |->
                IF object[i].key = k THEN [key |-> k, value |-> v] ELSE object[i]]
    <2>1. new \in [1..Len(object) -> Entry]
        BY <1>1, <1>2
    <2>2. new \in Seq(Entry)
        BY <1>2, <2>1, IsASeq
    <2> QED
        BY <1>3, <2>2 DEF Assign
<1>4. CASE ~\E i \in DOMAIN object : object[i].key = k
    BY <1>1, <1>4, AppendProperties DEF Assign
<1> QED
    BY <1>3, <1>4

\* Another order of the rows leaves the fields of the filter as they are.
LEMMA SortKeepsFilter ==
    ASSUME NEW c \in Criteria, NEW d \in Criteria, NEW v,
           d.entries = Assign(c.entries, "sort", v)
    PROVE  Constrained(c) \subseteq Constrained(d)
<1> SUFFICES ASSUME NEW f \in Field, NEW i \in DOMAIN c.entries,
                    c.entries[i] = [key |-> f, value |-> "set"]
             PROVE  \E j \in DOMAIN d.entries :
                        d.entries[j] = [key |-> f, value |-> "set"]
    BY DEF Constrained, Has
<1>1. f # "sort" /\ c.entries[i].key = f /\ c.entries \in Seq(Entry)
    BY SearchAssumption DEF Criteria
<1>2. CASE \E j \in DOMAIN c.entries : c.entries[j].key = "sort"
    BY <1>1, <1>2 DEF Assign
<1>3. CASE ~\E j \in DOMAIN c.entries : c.entries[j].key = "sort"
    <2>1. d.entries = Append(c.entries, [key |-> "sort", value |-> v])
        BY <1>3 DEF Assign
    <2>2. i \in DOMAIN d.entries /\ d.entries[i] = c.entries[i]
        BY <1>1, <2>1
    <2> QED
        BY <2>2
<1> QED
    BY <1>2, <1>3

-----------------------------------------------------------------------------
(* A search, whichever handler makes it.                                   *)

\* The selection has its type and scope after a search, which keeps it as it
\* is or empties it.
LEMMA SelectionAfterSearch ==
    ASSUME IInv, NEW c \in Criteria, NEW kept \in {selected, NoSelection},
           ScopeChange(c, kept), failures' = failures
    PROVE  /\ DOMAIN selected' \subseteq Cluster
           /\ selScope' = Scope(c)
           /\ SelectionInScope'
<1>1. selected' \in {selected, NoSelection}
    BY DEF ScopeChange
<1>2. DOMAIN NoSelection = {}
    BY DEF NoSelection
<1>3. selScope' = Scope(c) /\ (selected' = NoSelection \/ selScope' = selScope)
    BY DEF ScopeChange
<1> QED
    BY <1>1, <1>2, <1>3 DEF IInv, TypeOK, SelectionInScope

\* The requests in flight after a search: the last one is the current one.
LEMMA RequestsAfterSearch ==
    ASSUME IInv, NEW cs \in Seq(Criteria), cs # <<>>, Send(cs)
    PROVE  /\ asked' \in 1..MaxSearches /\ controller' = asked'
           /\ inflight' \subseteq [id : 1..asked', for : Criteria]
           /\ \E r \in inflight' : r.id = controller'
           /\ \A r \in inflight' : r.id = controller' => r.for = cs[Len(cs)]
<1>1. Len(cs) \in Nat \ {0} /\ DOMAIN cs = 1..Len(cs)
    BY EmptySeq, LenProperties
<1>2. /\ asked \in Nat /\ asked' = asked + Len(cs) /\ controller' = asked + Len(cs)
      /\ asked' <= MaxSearches /\ MaxSearches \in Nat
    BY SearchAssumption DEF IInv, TypeOK, Send
<1>3. asked' \in 1..MaxSearches
    BY <1>1, <1>2
<1>4. \A i \in DOMAIN cs : cs[i] \in Criteria
    BY ElementOfSeq
<1>5. ASSUME NEW r \in inflight'
      PROVE  /\ r \in [id : 1..asked', for : Criteria]
             /\ r.id = controller' => r.for = cs[Len(cs)]
    <2>1. CASE r \in inflight
        BY <1>1, <1>2, <2>1 DEF IInv, TypeOK
    <2>2. CASE r \in {[id |-> asked + i, for |-> cs[i]] : i \in DOMAIN cs}
        BY <1>1, <1>2, <1>4, <2>2
    <2> QED
        BY <1>5, <2>1, <2>2 DEF Send
<1>6. [id |-> asked + Len(cs), for |-> cs[Len(cs)]] \in inflight'
    BY <1>1 DEF Send
<1>7. \E r \in inflight' : r.id = controller'
    BY <1>2, <1>6
<1> QED
    BY <1>2, <1>3, <1>5, <1>7

\* Every handler that searches keeps the invariant, if the quick filter it
\* leaves highlighted is in force.
LEMMA SearchKeeps ==
    ASSUME IInv, NEW cs \in Seq(Criteria), cs # <<>>,
           NEW kept \in {selected, NoSelection},
           Search(cs, kept), emptied' \in BOOLEAN,
           \/ active' = NoFilter
           \/ active' \in QuickFilter /\ active' \in Constrained(cs[Len(cs)])
    PROVE  IInv'
<1> DEFINE c == cs[Len(cs)]
<1>1. c \in Criteria
    BY EmptySeq, LenProperties, ElementOfSeq
<1>2. /\ ScopeChange(c, kept) /\ Send(cs)
      /\ timer' = FALSE /\ loading' = TRUE /\ criteria' = c /\ local' = c
      /\ lastFailed' = FALSE /\ mounted
      /\ UNCHANGED <<result, mounted, failures>>
    BY DEF Search
<1>3. /\ DOMAIN selected' \subseteq Cluster
      /\ selScope' = Scope(c)
      /\ SelectionInScope'
    BY <1>1, <1>2, SelectionAfterSearch
<1>4. /\ asked' \in 1..MaxSearches /\ controller' = asked'
      /\ inflight' \subseteq [id : 1..asked', for : Criteria]
      /\ \E r \in inflight' : r.id = controller'
      /\ \A r \in inflight' : r.id = controller' => r.for = c
    BY <1>2, RequestsAfterSearch
<1>5. TypeOK'
    <2>1. /\ asked' \in 0..MaxSearches /\ controller' \in 0..asked'
        BY <1>4, SearchAssumption
    <2>2. active' \in QuickFilter \cup {NoFilter}
        OBVIOUS
    <2>3. /\ result' \in [for : Criteria, rows : SUBSET Cluster, total : Nat]
          /\ failures' \in 0..MaxFailures /\ mounted' \in BOOLEAN
        BY <1>2 DEF IInv, TypeOK
    <2> QED
        BY <1>1, <1>2, <1>3, <1>4, <2>1, <2>2, <2>3 DEF TypeOK
<1>6. SpinnerHasRequest' /\ ShownIsCurrent' /\ QuickFilterInForce'
    BY <1>2, <1>4, SearchAssumption DEF SpinnerHasRequest, ShownIsCurrent, QuickFilterInForce
<1>7. RequestsOK'
    BY <1>2, <1>4, SearchAssumption DEF RequestsOK
<1> QED
    BY <1>3, <1>5, <1>6, <1>7 DEF IInv

-----------------------------------------------------------------------------
(* The form and the pagination.                                            *)

LEMMA InitialSearchKeeps ==
    ASSUME IInv, InitialSearch PROVE IInv'
<1>1. /\ active = NoFilter /\ active' = active /\ Search(<<Default>>, selected)
      /\ emptied' \in BOOLEAN
    BY DEF InitialSearch, IInv, TypeOK, RequestsOK
<1>2. <<Default>> \in Seq(Criteria) /\ <<Default>> # <<>>
    BY DefaultType
<1> QED
    BY <1>1, <1>2, SearchKeeps

\* What is typed has no effect on the requests and takes the highlight away.
LEMMA EditFieldKeeps ==
    ASSUME IInv, NEW f \in Field, NEW v \in Typed(f), EditField(f, v) PROVE IInv'
<1>1. local' \in Criteria
    <2>1. local \in Criteria /\ 1 \in Page /\ f \in Key
        BY DEF IInv, TypeOK, Page, Key
    <2>4. v \in Value
        <3>1. v \in {"set", "", "undefined"}
            BY DEF Typed
        <3> QED
            BY <3>1 DEF Value
    <2>5. local.entries \in Seq(Entry)
        BY <2>1 DEF Criteria
    <2>2. Assign(local.entries, f, v) \in Seq(Entry)
        BY <2>1, <2>4, <2>5, AssignType
    <2>3. local' = [local EXCEPT !.page = 1, !.entries = Assign(local.entries, f, v)]
        BY <2>1 DEF EditField, Criteria
    <2> QED
        BY <2>1, <2>2, <2>3 DEF Criteria
<1> QED
    BY <1>1 DEF EditField, IInv, TypeOK, RequestsOK, SpinnerHasRequest, ShownIsCurrent,
                QuickFilterInForce, SelectionInScope, view, selection, history, NoFilter,
                NoResult, Answer, RowsOf, Hits, Place, Total

LEMMA PressSearchKeeps ==
    ASSUME IInv, PressSearch PROVE IInv'
<1>1. active' = active /\ Search(<<local>>, selected) /\ emptied' \in BOOLEAN
    BY DEF PressSearch, IInv, TypeOK
<1>2. <<local>> \in Seq(Criteria) /\ <<local>> # <<>> /\ Len(<<local>>) = 1
      /\ <<local>>[1] = local
    BY DEF IInv, TypeOK
<1>3. \/ active' = NoFilter
      \/ active' \in QuickFilter /\ active' \in Constrained(local)
    BY <1>1 DEF IInv, TypeOK, QuickFilterInForce
<1> QED
    BY <1>1, <1>2, <1>3, SearchKeeps

LEMMA PressQuickFilterKeeps ==
    ASSUME IInv, NEW q \in QuickFilter, PressQuickFilter(q) PROVE IInv'
<1> DEFINE e == [key |-> q, value |-> "set"]
           c == [entries |-> <<e>>, page |-> 1, size |-> local.size]
<1>1. e \in Entry /\ <<e>> \in Seq(Entry) /\ <<e>>[1] = e /\ 1 \in DOMAIN <<e>>
    BY SearchAssumption DEF Entry, Key, Value
<1>2. active' = q /\ Search(<<c>>, selected) /\ emptied' \in BOOLEAN
    BY DEF PressQuickFilter, IInv, TypeOK
<1>3. q \in Field
    BY SearchAssumption
<1> HIDE DEF e
<1>4. c \in Criteria
    BY <1>1 DEF IInv, TypeOK, Criteria, Page
<1>5. q \in Constrained(c)
    BY <1>1, <1>3 DEF Constrained, Has, e
<1>6. <<c>> \in Seq(Criteria) /\ <<c>> # <<>> /\ Len(<<c>>) = 1 /\ <<c>>[1] = c
    BY <1>4
<1> HIDE DEF c
<1> QED
    BY <1>2, <1>5, <1>6, SearchKeeps

LEMMA PressResetKeeps ==
    ASSUME IInv, PressReset PROVE IInv'
<1>1. active' = NoFilter /\ Search(<<Default>>, NoSelection) /\ emptied' \in BOOLEAN
    BY DEF PressReset
<1>2. <<Default>> \in Seq(Criteria) /\ <<Default>> # <<>>
    BY DefaultType
<1> QED
    BY <1>1, <1>2, SearchKeeps

\* The handlers of the table search for the criteria of the page, but for
\* page, size and order: the quick filter stays in force.
LEMMA TableSearchKeeps ==
    ASSUME IInv, NEW cs \in Seq(Criteria), cs # <<>>, Search(cs, selected),
           Constrained(criteria) \subseteq Constrained(cs[Len(cs)]),
           UNCHANGED <<active, emptied>>
    PROVE  IInv'
<1>1. /\ \/ active' = NoFilter
         \/ active' \in QuickFilter /\ active' \in Constrained(cs[Len(cs)])
      /\ emptied' \in BOOLEAN
    BY DEF IInv, TypeOK, QuickFilterInForce
<1> QED
    BY <1>1, SearchKeeps

LEMMA TurnPageKeeps ==
    ASSUME IInv, NEW p \in 1..Pages(result.total, result.for.size), TurnPage(p)
    PROVE  IInv'
<1> DEFINE c == [criteria EXCEPT !.page = p, !.size = result.for.size]
<1>1. result.total \in Nat /\ result.for.size \in Nat \ {0} /\ result.for.size \in Size
    BY SearchAssumption DEF IInv, TypeOK, Criteria
<1>2. p \in Nat \ {0}
    BY <1>1, PagesType
<1>3. c \in Criteria /\ Constrained(criteria) \subseteq Constrained(c)
    BY <1>1, <1>2 DEF IInv, TypeOK, Criteria, Page, Constrained, Has
<1>4. Search(<<c>>, selected) /\ UNCHANGED <<active, emptied>>
    BY DEF TurnPage
<1> HIDE DEF c
<1>5. <<c>> \in Seq(Criteria) /\ <<c>> # <<>> /\ Len(<<c>>) = 1 /\ <<c>>[1] = c
    BY <1>3
<1> QED
    BY <1>3, <1>4, <1>5, TableSearchKeeps

LEMMA ChangeSizeKeeps ==
    ASSUME IInv, NEW s \in Size, ChangeSize(s) PROVE IInv'
<1> DEFINE last == Pages(result.total, s)
           p == IF result.for.page > last THEN last ELSE result.for.page
           c == [criteria EXCEPT !.page = 1, !.size = s]
           d == [criteria EXCEPT !.page = p, !.size = s]
<1>1. result.total \in Nat /\ s \in Nat \ {0} /\ result.for.page \in Nat \ {0}
    BY SearchAssumption DEF IInv, TypeOK, Criteria, Page
<1>2. p \in Nat \ {0}
    BY <1>1, PagesType
<1>3. Search(<<c, d>>, selected) /\ UNCHANGED <<active, emptied>>
    BY DEF ChangeSize
<1> HIDE DEF p
<1>4. /\ c \in Criteria /\ d \in Criteria
      /\ Constrained(criteria) \subseteq Constrained(d)
    <2>1. criteria \in Criteria /\ 1 \in Page /\ p \in Page
        BY <1>2 DEF IInv, TypeOK, Page
    <2>2. d.entries = criteria.entries
        BY <2>1 DEF Criteria
    <2> QED
        BY <2>1, <2>2 DEF Criteria, Constrained, Has
<1> HIDE DEF c, d
<1>5. <<c, d>> \in Seq(Criteria) /\ <<c, d>> # <<>> /\ Len(<<c, d>>) = 2
      /\ <<c, d>>[2] = d
    BY <1>4
<1> QED
    BY <1>3, <1>4, <1>5, TableSearchKeeps

LEMMA ChangeSortKeeps ==
    ASSUME IInv, NEW o \in Order, ChangeSort(o) PROVE IInv'
<1> DEFINE v == IF o = "unsorted" THEN "desc" ELSE o
           c == [criteria EXCEPT !.page = 1, !.entries = Assign(@, "sort", v)]
<1>1. /\ c \in Criteria
      /\ Constrained(criteria) \subseteq Constrained(c)
    <2>1. criteria \in Criteria /\ 1 \in Page /\ "sort" \in Key
        BY DEF IInv, TypeOK, Page, Key
    <2>4. v \in Value
        <3>1. v \in {"desc", "asc"}
            BY DEF Order
        <3> QED
            BY <3>1 DEF Value
    <2>5. criteria.entries \in Seq(Entry)
        BY <2>1 DEF Criteria
    <2> HIDE DEF v
    <2>2. Assign(criteria.entries, "sort", v) \in Seq(Entry)
        BY <2>1, <2>4, <2>5, AssignType
    <2>3. c \in Criteria /\ c.entries = Assign(criteria.entries, "sort", v)
        BY <2>1, <2>2 DEF Criteria
    <2> HIDE DEF c
    <2> QED
        BY <2>1, <2>3, SortKeepsFilter
<1>2. Search(<<c>>, selected) /\ UNCHANGED <<active, emptied>>
    BY DEF ChangeSort
<1> HIDE DEF c
<1>3. <<c>> \in Seq(Criteria) /\ <<c>> # <<>> /\ Len(<<c>>) = 1 /\ <<c>>[1] = c
    BY <1>1
<1> QED
    BY <1>1, <1>2, <1>3, TableSearchKeeps

-----------------------------------------------------------------------------
(* The selection.                                                          *)

\* While no search has failed, the rows that can be ticked are those of the
\* criteria on the page.
LEMMA RowsInScope ==
    ASSUME IInv, TableShown, failures = 0 PROVE Scope(result.for) = selScope
<1>1. asked # 0
    BY DEF IInv, RequestsOK, TableShown, NoResult
<1>2. result = Answer(criteria)
    BY <1>1 DEF IInv, TypeOK, RequestsOK, ShownIsCurrent, TableShown
<1> QED
    BY <1>2 DEF IInv, TypeOK, Answer

LEMMA TickRowsKeeps ==
    ASSUME IInv, NEW ticked \in SUBSET result.rows, TickRows(ticked) PROVE IInv'
<1> DEFINE kept == DOMAIN selected \ result.rows
<1>1. /\ TableShown
      /\ selected' = [k \in kept \cup ticked |->
                       IF k \in ticked THEN Scope(result.for) ELSE selected[k]]
      /\ UNCHANGED <<criteria, form, timer, asked, inflight, controller, view,
                     selScope, mounted, history>>
    BY DEF TickRows
<1>2. result.rows \subseteq Cluster
    BY DEF IInv, TypeOK
<1>3. DOMAIN selected' \subseteq Cluster
    BY <1>1, <1>2 DEF IInv, TypeOK
<1>4. SelectionInScope'
    <2>1. SUFFICES ASSUME failures = 0, NEW k \in DOMAIN selected'
                   PROVE  selected'[k] = selScope
        BY <1>1 DEF SelectionInScope, IInv, TypeOK, history
    <2>2. Scope(result.for) = selScope
        BY <1>1, <2>1, RowsInScope
    <2>3. \A j \in DOMAIN selected : selected[j] = selScope
        BY <2>1 DEF IInv, SelectionInScope
    <2> QED
        BY <1>1, <2>2, <2>3
<1>5. TypeOK'
    BY <1>1, <1>3 DEF IInv, TypeOK, form, view, history
<1>6. RequestsOK'
    BY <1>1 DEF IInv, RequestsOK, form, view, history, NoResult
<1>7. Answer(criteria)' = Answer(criteria)
    BY <1>1 DEF Answer, RowsOf, Hits, Place, Total
<1> QED
    BY <1>1, <1>4, <1>5, <1>6, <1>7 DEF IInv, SpinnerHasRequest, ShownIsCurrent,
       QuickFilterInForce, form, view, history

LEMMA ClearSelectionKeeps ==
    ASSUME IInv, ClearSelection PROVE IInv'
<1>1. DOMAIN selected' = {}
    BY DEF ClearSelection, NoSelection
<1> QED
    BY <1>1 DEF ClearSelection, IInv, TypeOK, RequestsOK, SpinnerHasRequest, ShownIsCurrent,
       QuickFilterInForce, SelectionInScope, form, view, history, NoResult, Answer, RowsOf,
       Hits, Place, Total

-----------------------------------------------------------------------------
(* The end of a request, and of the page.                                  *)

\* Only the current request is shown, and it was sent for the criteria.
LEMMA AnsweredKeeps ==
    ASSUME IInv, NEW r \in inflight, Answered(r) PROVE IInv'
<1>1. /\ r.id \in 1..asked /\ r.for \in Criteria /\ asked \in Nat
      /\ inflight' \subseteq inflight
    BY SearchAssumption DEF IInv, TypeOK, Answered
<1>2. CASE r.id = controller
    <2>1. r.for = criteria
        BY <1>2 DEF IInv, RequestsOK
    <2>2. /\ result' = Answer(criteria) /\ loading' = FALSE /\ controller' = 0
          /\ UNCHANGED <<criteria, form, timer, asked, selection, mounted, history>>
        BY <1>2, <2>1 DEF Answered
    <2>3. Answer(criteria)' = Answer(criteria)
        BY <2>2 DEF selection, Answer, RowsOf, Hits, Place, Total
    <2>4. TypeOK'
        <3>1. /\ inflight' \subseteq [id : 1..asked', for : Criteria]
              /\ controller' \in 0..asked'
            BY <1>1, <2>2 DEF IInv, TypeOK
        <3>2. result' \in [for : Criteria, rows : SUBSET Cluster, total : Nat]
            BY <1>1, <2>1, <2>2, AnswerType
        <3> QED
            BY <2>2, <3>1, <3>2 DEF IInv, TypeOK, form, selection, history
    <2>5. RequestsOK'
        BY <1>1, <2>2 DEF IInv, TypeOK, RequestsOK, form, selection, history
    <2> QED
        BY <1>1, <2>2, <2>3, <2>4, <2>5 DEF IInv, SpinnerHasRequest, ShownIsCurrent,
           QuickFilterInForce, SelectionInScope, form, selection, history
<1>3. CASE r.id # controller
    <2>1. UNCHANGED <<criteria, form, timer, asked, controller, view, selection, mounted,
                      history>>
        BY <1>3 DEF Answered
    <2>2. \A q \in inflight : q.id = controller => q \in inflight'
        BY <1>3 DEF Answered
    <2>3. Answer(criteria)' = Answer(criteria)
        BY <2>1 DEF Answer, RowsOf, Hits, Place, Total
    <2>4. TypeOK'
        BY <1>1, <2>1 DEF IInv, TypeOK, form, view, selection, history
    <2>5. RequestsOK'
        BY <1>1, <2>1 DEF IInv, RequestsOK, form, view, selection, history, NoResult
    <2> QED
        BY <2>1, <2>2, <2>3, <2>4, <2>5 DEF IInv, SpinnerHasRequest, ShownIsCurrent,
           QuickFilterInForce, SelectionInScope, form, view, selection, history
<1> QED
    BY <1>2, <1>3

LEMMA FailedKeeps ==
    ASSUME IInv, NEW r \in inflight, Failed(r) PROVE IInv'
<1>1. /\ r.id \in 1..asked /\ asked \in Nat /\ failures \in Nat /\ MaxFailures \in Nat
      /\ \A q \in inflight : q.id # 0
    BY SearchAssumption DEF IInv, TypeOK
<1>2. /\ failures < MaxFailures /\ failures' = failures + 1
      /\ loading' = FALSE /\ controller' = 0 /\ lastFailed' = TRUE
      /\ inflight' \subseteq inflight
      /\ UNCHANGED <<criteria, form, timer, asked, result, selection, mounted,
                     emptied>>
    BY DEF Failed
<1>3. TypeOK'
    <2>1. /\ inflight' \subseteq [id : 1..asked', for : Criteria]
          /\ controller' \in 0..asked' /\ failures' \in 0..MaxFailures
        BY <1>1, <1>2 DEF IInv, TypeOK
    <2>2. /\ criteria' \in Criteria /\ local' \in Criteria
          /\ active' \in QuickFilter \cup {NoFilter}
          /\ DOMAIN selected' \subseteq Cluster
        BY <1>2 DEF IInv, TypeOK, form, selection
    <2>3. selScope' = Scope(criteria')
        BY <1>2 DEF IInv, TypeOK, selection
    <2>4. /\ timer' \in BOOLEAN /\ loading' \in BOOLEAN /\ mounted' \in BOOLEAN
          /\ lastFailed' \in BOOLEAN /\ emptied' \in BOOLEAN
          /\ asked' \in 0..MaxSearches
        BY <1>2 DEF IInv, TypeOK
    <2>5. result' \in [for : Criteria, rows : SUBSET Cluster, total : Nat]
        BY <1>2 DEF IInv, TypeOK
    <2> QED
        BY <2>1, <2>2, <2>3, <2>4, <2>5 DEF TypeOK
<1>4. RequestsOK'
    BY <1>1, <1>2 DEF IInv, RequestsOK, form, selection, NoResult
<1> QED
    BY <1>1, <1>2, <1>3, <1>4 DEF IInv, SpinnerHasRequest, ShownIsCurrent,
       QuickFilterInForce, SelectionInScope, form, selection

LEMMA UnmountKeeps ==
    ASSUME IInv, Unmount PROVE IInv'
<1>1. \A q \in inflight : q.id # 0
    BY SearchAssumption DEF IInv, TypeOK
<1>2. TypeOK'
    <2>1. /\ inflight' \subseteq [id : 1..asked', for : Criteria]
          /\ controller' \in 0..asked'
        BY SearchAssumption DEF IInv, TypeOK, Unmount
    <2> QED
        BY <2>1 DEF IInv, TypeOK, Unmount, form, view, selection, history
<1> QED
    BY <1>1, <1>2 DEF IInv, Unmount, RequestsOK, SpinnerHasRequest, ShownIsCurrent,
       QuickFilterInForce, SelectionInScope, form, view, selection, history, NoResult

-----------------------------------------------------------------------------
LEMMA InitInv == Init => IInv
<1> SUFFICES ASSUME Init PROVE IInv
    OBVIOUS
<1>1. NoResult \in [for : Criteria, rows : SUBSET Cluster, total : Nat]
    BY DefaultType DEF NoResult
<1>2. DOMAIN NoSelection = {}
    BY DEF NoSelection
<1>3. TypeOK
    <2>1. /\ asked \in 0..MaxSearches /\ controller \in 0..asked
          /\ failures \in 0..MaxFailures /\ inflight = {}
        BY SearchAssumption DEF Init
    <2> QED
        BY <1>1, <1>2, <2>1, DefaultType DEF Init, TypeOK
<1> QED
    BY <1>2, <1>3, SearchAssumption DEF Init, IInv, RequestsOK, SpinnerHasRequest,
       ShownIsCurrent, QuickFilterInForce, SelectionInScope, NoFilter

LEMMA NextInv == IInv /\ [Next]_vars => IInv'
<1> SUFFICES ASSUME IInv, [Next]_vars PROVE IInv'
    OBVIOUS
<1>1. CASE InitialSearch
    BY <1>1, InitialSearchKeeps
<1>2. CASE UseForm
    BY <1>2, EditFieldKeeps, PressSearchKeeps, PressQuickFilterKeeps, PressResetKeeps
       DEF UseForm
<1>3. CASE UseTable
    BY <1>3, TurnPageKeeps, ChangeSizeKeeps, ChangeSortKeeps, TickRowsKeeps,
       ClearSelectionKeeps DEF UseTable
<1>4. ASSUME NEW id \in 1..MaxSearches, Settle(id) PROVE IInv'
    BY <1>4, AnsweredKeeps, FailedKeeps DEF Settle
<1>5. CASE Unmount
    BY <1>5, UnmountKeeps
<1>6. CASE UNCHANGED vars
    BY <1>6 DEF vars, form, view, selection, history, IInv, TypeOK, RequestsOK,
       SpinnerHasRequest, ShownIsCurrent, QuickFilterInForce, SelectionInScope, NoResult,
       Answer, RowsOf, Hits, Place, Total
<1> QED
    BY <1>1, <1>2, <1>3, <1>4, <1>5, <1>6 DEF Next

\* The inductive invariant holds in every reachable state.
THEOREM Invariance == Spec => []IInv
    BY InitInv, NextInv, PTL DEF Spec

\* Whatever order answers, failures and clicks come in, the spinner is on
\* exactly while the current request runs, the rows answer the criteria of the
\* page, and a highlighted quick filter is in force.
THEOREM PageStaysConsistent == Spec => []PageConsistent
<1>1. IInv => PageConsistent
    BY DEF IInv, PageConsistent
<1> QED
    BY <1>1, Invariance, PTL

\* A batch holds clusters of one scope as long as no search has failed.
THEOREM SelectionStaysInScope == Spec => []SelectionInScope
<1>1. IInv => SelectionInScope
    BY DEF IInv
<1> QED
    BY <1>1, Invariance, PTL

-----------------------------------------------------------------------------
(* The selection of the other pages.                                       *)

\* A search for the entries the page has keeps the selection it is given: the
\* scope compared is that of the page, whatever was searched or failed before.
LEMMA SearchKeepsPages ==
    ASSUME TypeOK, NEW cs, Search(cs, selected) PROVE PagesKept
<1>1. /\ criteria' = cs[Len(cs)] /\ selScope = Scope(criteria)
      /\ selected' = IF Scope(criteria') = selScope THEN selected ELSE NoSelection
    BY DEF Search, ScopeChange, TypeOK
<1>2. CASE criteria'.entries = criteria.entries
    BY <1>1, <1>2 DEF PagesKept, Scope
<1>3. CASE criteria'.entries # criteria.entries
    BY <1>3 DEF PagesKept
<1> QED
    BY <1>2, <1>3

LEMMA StepKeepsPages == TypeOK /\ [Next]_vars => PagesKept
<1> SUFFICES ASSUME TypeOK, [Next]_vars PROVE PagesKept
    OBVIOUS
<1>1. ASSUME NEW cs, Search(cs, selected) PROVE PagesKept
    BY <1>1, SearchKeepsPages
<1>2. ASSUME selected' = selected PROVE PagesKept
    BY <1>2 DEF PagesKept
<1>3. CASE InitialSearch
    BY <1>1, <1>3 DEF InitialSearch
<1>4. CASE PressReset \/ ClearSelection
    <2>1. emptied' # emptied
        BY <1>4 DEF PressReset, ClearSelection, TypeOK
    <2> QED
        BY <2>1 DEF PagesKept
<1>5. CASE UseForm
    BY <1>1, <1>2, <1>4, <1>5
       DEF UseForm, EditField, PressSearch, PressQuickFilter, selection
<1>6. ASSUME NEW ticked \in SUBSET result.rows, TickRows(ticked) PROVE PagesKept
    BY <1>6 DEF TickRows, PagesKept
<1>7. CASE UseTable
    BY <1>1, <1>4, <1>6, <1>7 DEF UseTable, TurnPage, ChangeSize, ChangeSort
<1>8. ASSUME NEW id \in 1..MaxSearches, Settle(id) PROVE PagesKept
    BY <1>2, <1>8 DEF Settle, Answered, Failed, selection
<1>9. CASE Unmount
    BY <1>2, <1>9 DEF Unmount, selection
<1>10. CASE UNCHANGED vars
    BY <1>2, <1>10 DEF vars, selection
<1> QED
    BY <1>3, <1>5, <1>7, <1>8, <1>9, <1>10 DEF Next

\* Turning pages, another page size and ticking rows leave the ticks of other
\* pages: only other criteria, or emptying the selection on purpose, drop one.
THEOREM CrossPagesKept == Spec => CrossPageKept
<1>1. IInv /\ [Next]_vars => [PagesKept]_vars
    BY StepKeepsPages DEF IInv
<1> QED
    BY <1>1, Invariance, PTL DEF Spec, CrossPageKept
=============================================================================
