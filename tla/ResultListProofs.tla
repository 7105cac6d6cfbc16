--------------------------- MODULE ResultListProofs ---------------------------
(***************************************************************************)
(* Proofs about ResultList, for any tasks and filters, page sizes, and     *)
(* bounds: the page's state is consistent; what is shown when everything   *)
(* has been answered is current; removed tasks are not selected; and no    *)
(* removal leaves an empty page while tasks match, unless it crossed       *)
(* something.  The last needs how many tasks a page holds, which comes     *)
(* first.                                                                  *)
(***************************************************************************)
EXTENDS ResultList, FiniteSetTheorems, TLAPS

-----------------------------------------------------------------------------
(* Pages: the number of matches, and what a page takes of them.            *)

\* The least number of a set: the induction the lemmas below need.
LEMMA LeastNumber ==
    ASSUME NEW T \in SUBSET Nat, T # {}
    PROVE  \E n \in T : \A k \in T : n <= k
<1> DEFINE R == {ss \in Nat \X Nat : ss[1] < ss[2]}
<1>1. IsWellFoundedOn(R, Nat)
    BY NatLessThanWellFounded DEF OpToRel
<1>2. \E n \in T : \A k \in T : <<k, n>> \notin R
    <2> HIDE DEF R
    <2> QED
        BY <1>1, WFMin
<1>3. \A n \in T, k \in T : <<k, n>> \notin R => n <= k
    OBVIOUS
<1> QED
    BY <1>2, <1>3

\* Counting a set of numbers from below, every number up to its cardinality is
\* met.
LEMMA CountedUp ==
    ASSUME NEW N \in Nat, NEW S \in SUBSET (Nat \ {0}), \A i \in S : i <= N,
           NEW k \in Nat, k <= Cardinality(S)
    PROVE  \E n \in Nat : Cardinality({j \in S : j <= n}) = k
<1> DEFINE Below(n) == {j \in S : j <= n}
           T == {n \in Nat : k <= Cardinality(Below(n))}
<1>1. IsFiniteSet(S)
    BY FS_BoundedSetOfNaturals
<1>2. \A n \in Nat : IsFiniteSet(Below(n)) /\ Cardinality(Below(n)) \in Nat
    BY <1>1, FS_Subset, FS_CardinalityType
<1>3. Below(N) = S
    OBVIOUS
<1>4. N \in T
    BY <1>3
<1>5. PICK n \in T : \A m \in T : n <= m
    BY <1>4, LeastNumber
<1>6. CASE n = 0
    <2>1. Below(0) = {}
        <3>1. \A j \in S : j \in Nat /\ j # 0
            OBVIOUS
        <3>2. \A j \in Nat : j <= 0 => j = 0
            OBVIOUS
        <3> QED
            BY <3>1, <3>2
    <2>2. Cardinality(Below(0)) = 0
        BY <2>1, FS_EmptySet
    <2> QED
        BY <1>5, <1>6, <2>2
<1>7. CASE n # 0
    <2>1. n \in Nat /\ n - 1 \in Nat /\ n - 1 \notin T
        <3>1. n \in Nat
            BY <1>5
        <3> HIDE DEF T
        <3> QED
            BY <1>5, <1>7, <3>1
    <2>2. ~(k <= Cardinality(Below(n - 1))) /\ k <= Cardinality(Below(n))
        BY <1>5, <2>1
    <2>3. \A j \in S : j <= n <=> j <= n - 1 \/ j = n
        BY <2>1
    <2>4. Below(n) \in {Below(n - 1), Below(n - 1) \cup {n}}
        BY <2>3
    <2>5. /\ IsFiniteSet(Below(n - 1)) /\ Cardinality(Below(n - 1)) \in Nat
          /\ Cardinality(Below(n)) \in Nat
        BY <1>2, <2>1
    <2> HIDE DEF Below
    <2>6. Cardinality(Below(n)) <= Cardinality(Below(n - 1)) + 1
        BY <2>4, <2>5, FS_AddElement
    <2>7. Cardinality(Below(n)) = k
        BY <2>2, <2>5, <2>6
    <2> QED
        BY <2>1, <2>7 DEF Below
<1> QED
    BY <1>6, <1>7

\* The place of i among the elements of S.
Rank(i, S) == Cardinality({j \in S : j <= i})

\* The elements among the first k are k, or all if there are fewer.
LEMMA FirstRanks ==
    ASSUME NEW N \in Nat, NEW S \in SUBSET (Nat \ {0}), \A i \in S : i <= N, NEW k \in Nat
    PROVE  LET R == {i \in S : Rank(i, S) <= k}
           IN  /\ IsFiniteSet(R)
               /\ Cardinality(R) = IF k <= Cardinality(S) THEN k ELSE Cardinality(S)
<1> DEFINE Below(n) == {j \in S : j <= n}
           R == {i \in S : Rank(i, S) <= k}
<1>1. IsFiniteSet(S) /\ Cardinality(S) \in Nat
    BY FS_BoundedSetOfNaturals, FS_CardinalityType
<1>2. IsFiniteSet(R)
    BY <1>1, FS_Subset
<1>3. \A n \in Nat : /\ IsFiniteSet(Below(n)) /\ Cardinality(Below(n)) \in Nat
                     /\ Cardinality(Below(n)) <= Cardinality(S)
    BY <1>1, FS_Subset, FS_CardinalityType
<1>4. CASE k <= Cardinality(S)
    <2>1. PICK n \in Nat : Cardinality(Below(n)) = k
        BY <1>4, CountedUp
    <2>2. ASSUME NEW i \in Below(n) PROVE i \in R
        <3>1. i \in S /\ i \in Nat /\ \A j \in S : j <= i => j <= n
            BY <2>1, <2>2
        <3>2. Below(i) \subseteq Below(n) /\ IsFiniteSet(Below(n))
            BY <1>3, <2>1, <3>1
        <3>3. Cardinality(Below(i)) <= Cardinality(Below(n))
            BY <3>2, FS_Subset
        <3> QED
            BY <2>1, <3>1, <3>3 DEF Rank
    <2>3. ASSUME NEW i \in S, i \notin Below(n) PROVE i \notin R
        <3>1. i \in Nat /\ i <= i /\ \A j \in S : j <= n => j <= i
            BY <2>1, <2>3
        <3>2. IsFiniteSet(Below(n) \cup {i}) /\ Cardinality(Below(n) \cup {i}) = k + 1
            BY <1>3, <2>1, <2>3, FS_AddElement
        <3>3. Below(n) \cup {i} \subseteq Below(i)
            BY <2>3, <3>1
        <3>4. IsFiniteSet(Below(i)) /\ Cardinality(Below(i)) \in Nat
            BY <1>3, <3>1
        <3> HIDE DEF Below
        <3>5. k + 1 <= Cardinality(Below(i))
            BY <3>2, <3>3, <3>4, FS_Subset
        <3> QED
            BY <3>4, <3>5 DEF Rank, Below
    <2>4. R = Below(n)
        BY <2>2, <2>3
    <2> QED
        BY <1>2, <1>4, <2>1, <2>4
<1>5. CASE ~(k <= Cardinality(S))
    <2>1. \A i \in S : Rank(i, S) <= k
        BY <1>1, <1>3, <1>5 DEF Rank
    <2>2. R = S
        BY <2>1
    <2> QED
        BY <1>2, <1>5, <2>2
<1> QED
    BY <1>4, <1>5

\* A page holds at most size matches, and its matches and those of the pages
\* before it are not more than there are; a page that begins behind the last
\* match is empty, any other is not.
LEMMA SliceSize ==
    ASSUME NEW N \in Nat, NEW S \in SUBSET (Nat \ {0}), \A i \in S : i <= N,
           NEW page \in Nat \ {0}, NEW size \in Nat \ {0}
    PROVE  LET before == (page - 1) * size
               n == Cardinality(Slice(S, page, size))
           IN  /\ IsFiniteSet(Slice(S, page, size)) /\ n \in Nat
               /\ n <= size
               /\ before < Cardinality(S) => n >= 1 /\ before + n <= Cardinality(S)
<1> DEFINE before == (page - 1) * size
           upto == page * size
           P == Slice(S, page, size)
           R(k) == {i \in S : Rank(i, S) <= k}
<1>1. before \in Nat /\ upto \in Nat /\ upto = before + size
    <2>1. page - 1 \in Nat /\ page \in Nat /\ size \in Nat
        OBVIOUS
    <2>2. \A a, b \in Nat : a * b \in Nat /\ (a + 1) * b = a * b + b
        OBVIOUS
    <2>3. page = (page - 1) + 1
        OBVIOUS
    <2> QED
        BY <2>1, <2>2, <2>3
<1>2. IsFiniteSet(S) /\ Cardinality(S) \in Nat
    BY FS_BoundedSetOfNaturals, FS_CardinalityType
<1>3. \A i \in S : Rank(i, S) \in Nat
    BY <1>2, FS_Subset, FS_CardinalityType DEF Rank
<1>4. P = {i \in S : Rank(i, S) \in before + 1 .. upto}
    BY DEF Slice, Rank
<1> HIDE DEF before, upto, P
<1>5. P = R(upto) \ R(before) /\ R(before) \subseteq R(upto)
    <2>1. \A i \in S :
            /\ (Rank(i, S) \in before + 1 .. upto)
                 <=> (Rank(i, S) <= upto /\ ~(Rank(i, S) <= before))
            /\ Rank(i, S) <= before => Rank(i, S) <= upto
        <3>1. \A x, a, b \in Nat : x \in a + 1 .. b <=> x <= b /\ ~(x <= a)
            OBVIOUS
        <3>2. \A x \in Nat : x <= before => x <= upto
            BY <1>1
        <3> QED
            BY <1>1, <1>3, <3>1, <3>2
    <2>2. \A i \in S : i \in P <=> i \in R(upto) /\ i \notin R(before)
        BY <1>4, <2>1
    <2>3. P \subseteq S /\ R(upto) \subseteq S
        BY <1>4
    <2>4. \A i \in S : i \in R(before) => i \in R(upto)
        BY <2>1
    <2> QED
        BY <2>2, <2>3, <2>4
<1>6. \A k \in Nat : /\ IsFiniteSet(R(k))
                     /\ Cardinality(R(k)) = IF k <= Cardinality(S) THEN k ELSE Cardinality(S)
    BY FirstRanks
<1> HIDE DEF R
<1>7. R(upto) \cap R(before) = R(before)
    BY <1>5
<1>8. IsFiniteSet(P) /\ Cardinality(P) = Cardinality(R(upto)) - Cardinality(R(before))
    <2>1. IsFiniteSet(R(upto))
        BY <1>1, <1>6
    <2>2. /\ IsFiniteSet(R(upto) \ R(before))
          /\ Cardinality(R(upto) \ R(before))
                = Cardinality(R(upto)) - Cardinality(R(upto) \cap R(before))
        BY <2>1, FS_Difference
    <2> QED
        BY <1>5, <1>7, <2>2
<1>9. /\ Cardinality(P) \in Nat /\ Cardinality(P) <= size
      /\ before < Cardinality(S) => Cardinality(P) >= 1 /\ before + Cardinality(P) <= Cardinality(S)
    <2>1. /\ Cardinality(R(upto)) = IF upto <= Cardinality(S) THEN upto ELSE Cardinality(S)
          /\ Cardinality(R(before)) = IF before <= Cardinality(S) THEN before ELSE Cardinality(S)
        BY <1>1, <1>6
    <2> QED
        BY <1>1, <1>2, <1>8, <2>1
<1> QED
    BY <1>8, <1>9 DEF before, P
\* handleHide's choice: whoever removes tasks of a page that holds some goes to
\* a page that holds some of those left, if any are: to the page before if the
\* removal was as large as the page.
LEMMA PageAfterRemoval ==
    ASSUME NEW N \in Nat, NEW S \in SUBSET (Nat \ {0}), \A i \in S : i <= N,
           NEW page \in Nat \ {0}, NEW size \in Nat \ {0},
           NEW T \in SUBSET Slice(S, page, size), T # {},
           page > 1 => (page - 1) * size < Cardinality(S),
           NEW next \in Nat,
           next = IF Cardinality(Slice(S, page, size)) = Cardinality(T) /\ page > 1
                  THEN page - 1 ELSE page
    PROVE  next > 1 => (next - 1) * size < Cardinality(S \ T)
<1> DEFINE before == (page - 1) * size
           P == Slice(S, page, size)
<1>1. /\ IsFiniteSet(P) /\ Cardinality(P) \in Nat /\ Cardinality(P) <= size
      /\ before < Cardinality(S) => before + Cardinality(P) <= Cardinality(S)
    BY SliceSize
<1>2. IsFiniteSet(S) /\ Cardinality(S) \in Nat
    BY FS_BoundedSetOfNaturals, FS_CardinalityType
<1>3. P \subseteq S
    BY DEF Slice
<1> HIDE DEF P
<1>4. /\ IsFiniteSet(T) /\ Cardinality(T) \in Nat /\ Cardinality(T) <= Cardinality(P)
      /\ Cardinality(T) # 0
    BY <1>1, FS_Subset, FS_CardinalityType, FS_EmptySet DEF P
<1>5. Cardinality(S \ T) = Cardinality(S) - Cardinality(T)
    <2>1. S \cap T = T
        BY <1>3 DEF P
    <2> QED
        BY <1>2, <2>1, FS_Difference
<1> SUFFICES ASSUME next > 1 PROVE (next - 1) * size < Cardinality(S) - Cardinality(T)
    BY <1>5
<1>6. page > 1 /\ before \in Nat /\ before < Cardinality(S)
    <2>1. page > 1
        OBVIOUS
    <2>2. page - 1 \in Nat /\ size \in Nat
        OBVIOUS
    <2>3. \A a, b \in Nat : a * b \in Nat
        OBVIOUS
    <2> QED
        BY <2>1, <2>2, <2>3
<1>7. CASE Cardinality(P) = Cardinality(T)
    <2>1. next = page - 1
        BY <1>6, <1>7 DEF P
    <2>2. before = (next - 1) * size + size /\ (next - 1) * size \in Nat
        <3>1. next - 1 \in Nat /\ page - 1 = (next - 1) + 1 /\ size \in Nat
            BY <2>1
        <3>2. \A a, b \in Nat : a * b \in Nat /\ (a + 1) * b = a * b + b
            OBVIOUS
        <3> QED
            BY <3>1, <3>2
    <2> HIDE DEF before
    <2> QED
        BY <1>1, <1>2, <1>4, <1>6, <1>7, <2>2
<1>8. CASE Cardinality(P) # Cardinality(T)
    <2>1. next = page
        BY <1>8 DEF P
    <2>2. (next - 1) * size = before
        BY <2>1
    <2> HIDE DEF before
    <2> QED
        BY <1>1, <1>2, <1>4, <1>6, <1>8, <2>2
<1> QED
    BY <1>7, <1>8

\* A task has one place in the list, so that counting tasks counts places.
LEMMA CountPlaces ==
    ASSUME NEW D \in SUBSET DOMAIN Newest
    PROVE  LET tasks == {Newest[i] : i \in D}
           IN  IsFiniteSet(D) /\ IsFiniteSet(tasks) /\ Cardinality(tasks) = Cardinality(D)
<1> DEFINE tasks == {Newest[i] : i \in D}
           f == [i \in D |-> Newest[i]]
<1>1. Len(Newest) \in Nat /\ DOMAIN Newest = 1 .. Len(Newest)
    BY ListAssumption
<1>2. D \in SUBSET Nat /\ \A i \in D : i <= Len(Newest)
    BY <1>1
<1>3. IsFiniteSet(D)
    BY <1>1, <1>2, FS_BoundedSetOfNaturals
<1>4. f \in Bijection(D, tasks)
    <2>1. f \in [D -> tasks]
        OBVIOUS
    <2>2. \A t \in tasks : \E i \in D : f[i] = t
        OBVIOUS
    <2>3. \A i, j \in D : f[i] = f[j] => i = j
        BY ListAssumption DEF IsInjective
    <2> QED
        BY <2>1, <2>2, <2>3 DEF Bijection, Injection, Surjection, IsInjective
<1>5. ExistsBijection(D, tasks)
    BY <1>4 DEF ExistsBijection
<1> QED
    BY <1>3, <1>5, FS_Bijection

-----------------------------------------------------------------------------
(* The inductive invariants.                                               *)

\* Besides what PageConsistent says: every load was sent by the page, and its
\* rows are tasks of the list (so that they can be counted).
PageState ==
    /\ PageConsistent
    /\ \A r \in loads \cup {shown} : r.id <= sent /\ r.rows \subseteq Range(Newest)

\* A task of S that is hidden by now has its removal in flight: the list will
\* be loaded again, and the task deselected, when the page hears of it.
Covered(S) == \A t \in S : t \in hidden => \E h \in hides : h.served /\ t \in h.tasks

\* The newest load is for the page's criteria; while the spinner is on it is in
\* flight; and unless loads that differ were in flight together, once it is off
\* every load that is left repeats the newest.
ListCurrent ==
    failures = 0 =>
        /\ \A r \in loads \cup {shown} :
            r.id = sent => r.for = criteria /\ Covered(r.rows)
        /\ loading => \E r \in loads : r.id = sent
        /\ ~raced /\ ~loading => \A r \in loads \cup {shown} : Covered(r.rows)
        /\ ~raced => Covered(selected)

\* The page of c begins before the last match.
InRange(c) ==
    c.page > 1 => Hits(c) = {} \/ (c.page - 1) * c.size < Cardinality(Hits(c))

\* No removal is in flight: the newest load has what the server would answer
\* now, and once the spinner is off so has every other.
Untouched ==
    hides = {} =>
        /\ InRange(criteria)
        /\ \A r \in loads \cup {shown} : r.id = sent => r = Answer(r.id, criteria)
        /\ ~loading => \A r \in loads \cup {shown} : r = Answer(r.id, criteria)

\* One removal is in flight: what it saw is the page as the server has it, until
\* the server hides the tasks; then the page it will go to has tasks, if any are
\* left.
Removing ==
    \A h \in hides :
        /\ hides = {h} /\ h.page = criteria.page
        /\ IF h.served
           THEN InRange([criteria EXCEPT !.page = NextPage(h)])
           ELSE /\ InRange(criteria)
                /\ h.tasks # {} /\ h.tasks \subseteq RowsOf(criteria)
                /\ h.count = Cardinality(RowsOf(criteria))

Paging == failures = 0 /\ ~raced /\ ~crossed => Untouched /\ Removing

-----------------------------------------------------------------------------
(* What the server answers, and what new criteria do.                      *)

LEMMA AnswerFacts ==
    ASSUME NEW c \in Criteria, NEW n
    PROVE  /\ Hits(c) \subseteq DOMAIN Newest /\ IsFiniteSet(Hits(c))
           /\ Cardinality(Hits(c)) \in Nat
           /\ Answer(n, c).id = n /\ Answer(n, c).for = c
           /\ Answer(n, c).rows = RowsOf(c)
           /\ Answer(n, c).total = Cardinality(Hits(c))
           /\ RowsOf(c) \subseteq Range(Newest) /\ RowsOf(c) \subseteq Task
           /\ RowsOf(c) \cap hidden = {}
<1>1. Hits(c) \subseteq DOMAIN Newest
    BY DEF Hits
<1>2. IsFiniteSet(Hits(c)) /\ Cardinality(Hits(c)) \in Nat
    BY <1>1, CountPlaces, FS_CardinalityType
<1>3. \A t \in RowsOf(c) : \E i \in Hits(c) : t = Newest[i]
    BY DEF RowsOf, Slice
<1>4. \A i \in Hits(c) : Newest[i] \notin hidden
    BY DEF Hits
<1>5. Newest \in Seq(Task)
    BY ListAssumption
<1>6. \A i \in DOMAIN Newest : Newest[i] \in Range(Newest) /\ Newest[i] \in Task
    BY <1>5 DEF Range
<1>7. /\ RowsOf(c) \subseteq Range(Newest) /\ RowsOf(c) \subseteq Task
      /\ RowsOf(c) \cap hidden = {}
    BY <1>1, <1>3, <1>4, <1>6
<1> QED
    BY <1>1, <1>2, <1>7 DEF Answer

\* The places that match, as numbers: what the lemmas about pages are about.
LEMMA HitsAreNumbers ==
    ASSUME NEW c
    PROVE  /\ Hits(c) \in SUBSET (Nat \ {0}) /\ Len(Newest) \in Nat
           /\ \A i \in Hits(c) : i <= Len(Newest)
<1>1. Len(Newest) \in Nat /\ DOMAIN Newest = 1 .. Len(Newest)
    BY ListAssumption
<1>2. Hits(c) \subseteq DOMAIN Newest
    BY DEF Hits
<1>3. \A i \in DOMAIN Newest : i \in Nat /\ i # 0 /\ i <= Len(Newest)
    BY <1>1
<1> QED
    BY <1>1, <1>2, <1>3

LEMMA FiniteRows ==
    ASSUME NEW R, R \subseteq Range(Newest)
    PROVE  IsFiniteSet(R) /\ Cardinality(R) \in Nat
<1> DEFINE all == {Newest[i] : i \in DOMAIN Newest}
<1>1. IsFiniteSet(all)
    BY CountPlaces
<1>2. R \subseteq all
    BY DEF Range
<1> QED
    BY <1>1, <1>2, FS_Subset, FS_CardinalityType

\* The pagination offers pages that begin before the last match.
LEMMA OfferedPages ==
    ASSUME NEW total \in Nat, NEW size \in Nat \ {0}
    PROVE  /\ Pages(total, size) \in Nat \ {0}
           /\ \A p \in Nat \ {0} :
                p <= Pages(total, size) /\ p > 1 => (p - 1) * size < total
<1> DEFINE q == (total + size - 1) \div size
<1>1. CASE total = 0
    BY <1>1 DEF Pages
<1>2. CASE total # 0
    <2>1. /\ total + size - 1 \in Nat /\ total + size - 1 >= size
        BY <1>2
    <2>2. q \in Nat /\ q # 0 /\ q * size <= total + size - 1
        BY <2>1
    <2>3. Pages(total, size) = q
        BY <1>2 DEF Pages
    <2> HIDE DEF q
    <2>4. ASSUME NEW p \in Nat \ {0}, p <= q PROVE (p - 1) * size < total
        <3>1. p * size <= q * size
            BY <2>2, <2>4
        <3>2. (p - 1) * size = p * size - size
            OBVIOUS
        <3> QED
            BY <2>2, <3>1, <3>2
    <2> QED
        BY <2>2, <2>3, <2>4
<1> QED
    BY <1>1, <1>2

LEMMA EditedCriteria ==
    ASSUME NEW c \in Criteria
    PROVE  /\ c.task \in Task \cup {NoTask} /\ c.filter \subseteq QuickFilter
           /\ c.page \in Page /\ c.page \in Nat \ {0}
           /\ c.size \in Size /\ c.size \in Nat \ {0}
           /\ \A p \in Page :
                LET d == [c EXCEPT !.page = p]
                IN  /\ d \in Criteria /\ d.page = p /\ d.task = c.task
                    /\ d.filter = c.filter /\ d.size = c.size
                    /\ Hits(d) = Hits(c)
<1>1. Len(Newest) \in Nat /\ Size \subseteq Nat \ {0}
    BY ListAssumption
<1>2. Page \subseteq Nat \ {0}
    BY <1>1 DEF Page
<1>3. /\ c.task \in Task \cup {NoTask} /\ c.filter \subseteq QuickFilter
      /\ c.page \in Page /\ c.size \in Size
    BY DEF Criteria
<1>4. ASSUME NEW p \in Page
      PROVE  LET d == [c EXCEPT !.page = p]
             IN  /\ d \in Criteria /\ d.page = p /\ d.task = c.task
                 /\ d.filter = c.filter /\ d.size = c.size
                 /\ Hits(d) = Hits(c)
    <2>1. LET d == [c EXCEPT !.page = p]
          IN  /\ d \in Criteria /\ d.page = p /\ d.task = c.task
              /\ d.filter = c.filter /\ d.size = c.size
        BY <1>4 DEF Criteria
    <2> QED
        BY <2>1 DEF Hits
<1> QED
    BY <1>1, <1>2, <1>3, <1>4

\* What Apply comes to, however many criteria objects the effects see: the last
\* one, d, is the page's, and the newest load is for it.
Applied(d) ==
    /\ criteria' = d /\ loading' = TRUE /\ UNCHANGED <<shown, hidden>>
    /\ sent' \in 0..MaxLoads /\ sent' > sent
    /\ Answer(sent', d) \in loads'
    /\ \A r \in loads' \ loads :
        /\ r.id \in Nat /\ r.id > sent /\ r.id <= sent' /\ r.for \in Criteria
        /\ r = Answer(r.id, r.for)
        /\ r.id = sent' => r.for = d

LEMMA ApplyOne ==
    ASSUME sent \in Nat, NEW c \in Criteria, Apply(<<c>>), UNCHANGED hidden
    PROVE  Applied(c)
<1>1. /\ loads' = loads \cup {Answer(sent + 1, c)} /\ sent' = sent + 1
      /\ sent + 1 <= MaxLoads
      /\ criteria' = c /\ loading' = TRUE /\ UNCHANGED shown
    BY DEF Apply
<1>2. Answer(sent + 1, c).id = sent + 1 /\ Answer(sent + 1, c).for = c
    BY DEF Answer
<1>3. \A r \in loads' \ loads : r = Answer(sent + 1, c)
    BY <1>1
<1>4. sent' \in 0..MaxLoads /\ sent' > sent
    BY <1>1, ListAssumption
<1> QED
    BY <1>1, <1>2, <1>3, <1>4 DEF Applied

LEMMA ApplyTwo ==
    ASSUME sent \in Nat, NEW c \in Criteria, NEW d \in Criteria, Apply(<<c, d>>),
           UNCHANGED hidden
    PROVE  Applied(d)
<1>1. /\ loads' = loads \cup {Answer(sent + 1, c), Answer(sent + 2, d)}
      /\ sent' = sent + 2 /\ sent + 2 <= MaxLoads
      /\ criteria' = d /\ loading' = TRUE /\ UNCHANGED shown
    <2>1. /\ Len(<<c, d>>) = 2 /\ DOMAIN <<c, d>> = {1, 2}
          /\ <<c, d>>[1] = c /\ <<c, d>>[2] = d
        OBVIOUS
    <2>2. loads' = loads \cup {Answer(sent + i, <<c, d>>[i]) : i \in DOMAIN <<c, d>>}
        BY DEF Apply
    <2>3. loads' = loads \cup {Answer(sent + i, <<c, d>>[i]) : i \in {1, 2}}
        BY <2>1, <2>2
    <2>4. loads' = loads \cup {Answer(sent + 1, c), Answer(sent + 2, d)}
        BY <2>1, <2>3
    <2> QED
        BY <2>1, <2>4 DEF Apply
<1>2. /\ Answer(sent + 1, c).id = sent + 1 /\ Answer(sent + 1, c).for = c
      /\ Answer(sent + 2, d).id = sent + 2 /\ Answer(sent + 2, d).for = d
    BY DEF Answer
<1>3. \A r \in loads' \ loads : r = Answer(sent + 1, c) \/ r = Answer(sent + 2, d)
    BY <1>1
<1>4. sent' \in 0..MaxLoads /\ sent' > sent
    BY <1>1, ListAssumption
<1> QED
    BY <1>1, <1>2, <1>3, <1>4 DEF Applied

\* Everything the user does to the criteria or the address.
Browse(d) ==
    /\ d \in Criteria /\ Applied(d) /\ url' = d.task
    /\ UNCHANGED <<hides, asked, failures, raced>>
    /\ crossed' = (crossed \/ hides # {})
    /\ selected' \in {selected, {}}
    /\ active' \in QuickFilter \cup {NoFilter}
    /\ active' # NoFilter => active' \in d.filter \/ d.filter = {}
    /\ \/ d.page = 1
       \/ /\ ~loading /\ Hits(d) = Hits(criteria)
          /\ d.page <= Pages(shown.total, d.size)

LEMMA StateFacts ==
    ASSUME PageState
    PROVE  /\ criteria \in Criteria /\ url \in Task \cup {NoTask} /\ criteria.task = url
           /\ active \in QuickFilter \cup {NoFilter}
           /\ active # NoFilter => active \in criteria.filter \/ criteria.filter = {}
           /\ sent \in Nat /\ loads \subseteq Load /\ shown \in Load
           /\ shown.total \in Nat /\ shown.rows \subseteq Task
           /\ 1 \in Page /\ Default \in Criteria /\ Default.page = 1
           /\ Default.filter = {}
<1>1. TypeOK
    BY DEF PageState, PageConsistent
<1>2. 1 \in Page /\ DefaultSize \in Size
    BY ListAssumption DEF Page
<1>3. Default \in Criteria /\ Default.page = 1 /\ Default.filter = {}
    BY <1>2 DEF Default, Criteria
<1>4. sent \in Nat
    BY <1>1 DEF TypeOK
<1>5. shown \in Load /\ shown.total \in Nat /\ shown.rows \subseteq Task
    BY <1>1 DEF TypeOK, Load
<1> QED
    BY <1>1, <1>2, <1>3, <1>4, <1>5
       DEF PageState, PageConsistent, TypeOK, UrlNamesTask, HighlightInForce

LEMMA WithUrlApplies ==
    ASSUME PageState, NEW c \in Criteria, c.page = 1, ApplyWithUrl(c)
    PROVE  /\ Applied(c) /\ url' = c.task
           /\ crossed' = (crossed \/ hides # {})
           /\ UNCHANGED <<hides, asked, failures, raced>>
<1>1. /\ url' = c.task /\ crossed' = (crossed \/ hides # {})
      /\ UNCHANGED <<hidden, hides, asked, failures, raced>>
    BY DEF ApplyWithUrl, Meanwhile, removal
<1>2. [c EXCEPT !.page = 1] = c
    BY DEF Criteria
<1>3. Apply(<<c>>) \/ Apply(<<c, c>>)
    BY <1>2 DEF ApplyWithUrl
<1>4. sent \in Nat
    BY StateFacts
<1> QED
    BY <1>1, <1>3, <1>4, ApplyOne, ApplyTwo

LEMMA FormBrowses ==
    ASSUME PageState,
           \/ PressReset \/ ClearTask
           \/ \E c \in Typed : PressSearch(c) \/ \E q \in QuickFilter : PressQuickFilter(q, c)
    PROVE  \E d \in Criteria : Browse(d)
<1>1. \A c \in Typed : c \in Criteria /\ c.page = 1
    <2>1. criteria \in Criteria /\ 1 \in Page /\ TimeField \in QuickFilter
        BY StateFacts, ListAssumption
    <2>2. \A t \in Task \cup {NoTask}, f \in SUBSET QuickFilter :
            Edited(t, f) \in Criteria /\ Edited(t, f).page = 1
        BY <2>1 DEF Criteria, Edited
    <2>3. criteria.filter \in SUBSET QuickFilter
        BY <2>1 DEF Criteria
    <2>4. /\ criteria.filter \ {TimeField} \in SUBSET QuickFilter
          /\ criteria.filter \cup {TimeField} \in SUBSET QuickFilter
        BY <2>1, <2>3
    <2>5. ASSUME NEW c \in Typed PROVE c \in Criteria /\ c.page = 1
        <3>1. PICK t \in Task \cup {NoTask},
                   f \in {criteria.filter, criteria.filter \ {TimeField},
                          criteria.filter \cup {TimeField}} :
                c = Edited(t, f)
            BY <2>5 DEF Typed
        <3>2. f \in SUBSET QuickFilter
            BY <2>3, <2>4
        <3> QED
            BY <2>2, <3>1, <3>2
    <2> QED
        BY <2>5
<1>2. /\ Default \in Criteria /\ Default.page = 1 /\ Default.filter = {} /\ 1 \in Page
      /\ active \in QuickFilter \cup {NoFilter}
    BY StateFacts
<1>3. ASSUME PressReset \/ ClearTask PROVE Browse(Default)
    <2>1. /\ ApplyWithUrl(Default) /\ selected' = {}
          /\ active' \in {active, NoFilter}
        BY <1>3 DEF PressReset, ClearTask
    <2> QED
        BY <1>2, <2>1, WithUrlApplies DEF Browse
<1>4. ASSUME NEW c \in Typed, PressSearch(c) PROVE Browse(c)
    <2>1. ApplyWithUrl(c) /\ selected' = selected /\ active' = NoFilter
        BY <1>4 DEF PressSearch
    <2> QED
        BY <1>1, <2>1, WithUrlApplies DEF Browse
<1>5. ASSUME NEW c \in Typed, NEW q \in QuickFilter, PressQuickFilter(q, c)
      PROVE  \E d \in Criteria : Browse(d)
    <2> DEFINE d == [c EXCEPT !.filter = @ \cup {q}, !.page = 1]
    <2>1. ApplyWithUrl(d) /\ selected' = selected /\ active' = q
        BY <1>5 DEF PressQuickFilter
    <2>2. d \in Criteria /\ d.page = 1 /\ q \in d.filter
        BY <1>1, <1>2 DEF Criteria
    <2> HIDE DEF d
    <2> QED
        BY <2>1, <2>2, WithUrlApplies DEF Browse
<1> QED
    BY <1>1, <1>2, <1>3, <1>4, <1>5

LEMMA NavigateBrowses ==
    ASSUME PageState, NEW t \in Task \cup {NoTask}, Navigate(t)
    PROVE  \E d \in Criteria : Browse(d)
<1> DEFINE d == [criteria EXCEPT !.task = t, !.page = 1]
<1>1. criteria \in Criteria /\ 1 \in Page /\ sent \in Nat
    BY StateFacts
<1>2. d \in Criteria /\ d.page = 1 /\ d.task = t /\ d.filter = criteria.filter
    BY <1>1 DEF Criteria
<1>3. Apply(<<d>>) /\ url' = t /\ UNCHANGED <<active, selected, hidden, hides, asked, failures, raced>>
      /\ crossed' = (crossed \/ hides # {})
    BY DEF Navigate, Meanwhile, removal
<1> HIDE DEF d
<1>4. Applied(d)
    BY <1>1, <1>2, <1>3, ApplyOne
<1> QED
    BY <1>2, <1>3, <1>4, StateFacts DEF Browse

LEMMA TurnBrowses ==
    ASSUME PageState, NEW p \in Page, NEW s \in Size, p <= Pages(shown.total, s), Turn(p, s)
    PROVE  \E d \in Criteria : Browse(d)
<1> DEFINE d == [criteria EXCEPT !.page = p, !.size = s]
<1>1. criteria \in Criteria /\ sent \in Nat
    BY StateFacts
<1>2. /\ d \in Criteria /\ d.page = p /\ d.size = s /\ d.task = criteria.task
      /\ d.filter = criteria.filter
    BY <1>1 DEF Criteria
<1>3. Hits(d) = Hits(criteria)
    BY <1>2 DEF Hits
<1>4. /\ Apply(<<d>>) /\ ~loading
      /\ UNCHANGED <<url, active, selected, hidden, hides, asked, failures, raced>>
      /\ crossed' = (crossed \/ hides # {})
    BY DEF Turn, TableShown, Meanwhile, removal
<1> HIDE DEF d
<1>5. Applied(d)
    BY <1>1, <1>2, <1>4, ApplyOne
<1> QED
    BY <1>2, <1>3, <1>4, <1>5, StateFacts DEF Browse

LEMMA PagingBrowses ==
    ASSUME PageState,
           \/ \E p \in Page : TurnPage(p)
           \/ \E s \in Size : ChangeSize(s)
    PROVE  \E d \in Criteria : Browse(d)
<1>1. criteria \in Criteria /\ shown.total \in Nat
    BY StateFacts
<1>2. criteria.page \in Page /\ criteria.page \in Nat \ {0} /\ criteria.size \in Size
    BY <1>1, EditedCriteria
<1>3. Len(Newest) \in Nat /\ Size \subseteq Nat \ {0}
    BY ListAssumption
<1>4. ASSUME NEW p \in Page, TurnPage(p) PROVE \E d \in Criteria : Browse(d)
    <2>1. Pages(shown.total, criteria.size) \in Nat
        BY <1>1, <1>2, <1>3, OfferedPages
    <2>2. p <= Pages(shown.total, criteria.size) /\ Turn(p, criteria.size)
        BY <1>4, <2>1 DEF TurnPage
    <2> QED
        BY <1>2, <2>2, TurnBrowses
<1>5. ASSUME NEW s \in Size, ChangeSize(s) PROVE \E d \in Criteria : Browse(d)
    <2> DEFINE last == Pages(shown.total, s)
               p == IF criteria.page > last THEN last ELSE criteria.page
    <2>1. last \in Nat \ {0}
        BY <1>1, <1>3, OfferedPages
    <2>2. Turn(p, s)
        BY <1>5 DEF ChangeSize
    <2> HIDE DEF last
    <2>3. p \in Page /\ p <= last
        BY <1>2, <1>3, <2>1 DEF Page
    <2> HIDE DEF p
    <2> QED
        BY <2>2, <2>3, TurnBrowses DEF last
<1> QED
    BY <1>4, <1>5

\* A request to hide names tasks, and comes from the rows shown or the selection.
Ask(tasks, batch) ==
    tasks # {} /\ tasks \subseteq Task /\ AskToHide(tasks, batch)

LEMMA NextForms ==
    ASSUME PageState, [Next]_vars
    PROVE  \/ \E d \in Criteria : Browse(d)
           \/ \E tasks \in SUBSET Task, batch \in BOOLEAN : Ask(tasks, batch)
           \/ \E h \in hides : ServeHide(h) \/ Hid(h) \/ HideFailed(h)
           \/ \E r \in loads : Loaded(r) \/ LoadFailed(r)
           \/ \E ticked \in SUBSET shown.rows : Tick(ticked)
           \/ Type \/ UNCHANGED vars
<1>1. CASE \/ PressReset \/ ClearTask
           \/ \E c \in Typed : PressSearch(c) \/ \E q \in QuickFilter : PressQuickFilter(q, c)
    BY <1>1, FormBrowses
<1>2. CASE \E t \in Task \cup {NoTask} : Navigate(t)
    BY <1>2, NavigateBrowses
<1>3. CASE \/ \E p \in Page : TurnPage(p)
           \/ \E s \in Size : ChangeSize(s)
    BY <1>3, PagingBrowses
<1>4. CASE (\E t \in Task : HideOne(t)) \/ HideSelected
    <2>1. selected \subseteq Task
        BY DEF PageState, PageConsistent, TypeOK
    <2>2. ASSUME NEW t \in Task, HideOne(t) PROVE Ask({t}, FALSE)
        BY <2>2 DEF HideOne, Ask
    <2>3. ASSUME HideSelected PROVE Ask(selected, TRUE)
        BY <2>1, <2>3 DEF HideSelected, Ask
    <2> QED
        BY <1>4, <2>1, <2>2, <2>3
<1>5. CASE \E id \in 1..MaxLoads : LoadStep(id)
    BY <1>5 DEF LoadStep
<1> QED
    BY <1>1, <1>2, <1>3, <1>4, <1>5 DEF Next

LEMMA HidApplies ==
    ASSUME PageState, NEW h \in hides, Hid(h)
    PROVE  LET d == [criteria EXCEPT !.page = NextPage(h)]
           IN  /\ NextPage(h) \in Page /\ Applied(d)
               /\ d \in Criteria /\ d.page = NextPage(h) /\ d.task = criteria.task
               /\ d.filter = criteria.filter /\ d.size = criteria.size
               /\ Hits(d) = Hits(criteria)
<1> DEFINE d == [criteria EXCEPT !.page = NextPage(h)]
<1>1. criteria \in Criteria /\ sent \in Nat
    BY StateFacts
<1>2. h.page \in Page
    BY DEF PageState, PageConsistent, TypeOK, Hide
<1>3. NextPage(h) \in Page
    BY <1>2, ListAssumption DEF NextPage, Page
<1>4. /\ d \in Criteria /\ d.page = NextPage(h) /\ d.task = criteria.task
      /\ d.filter = criteria.filter /\ d.size = criteria.size
      /\ Hits(d) = Hits(criteria)
    BY <1>1, <1>3, EditedCriteria
<1>5. Apply(<<d>>) /\ UNCHANGED hidden
    BY DEF Hid
<1> HIDE DEF d
<1>6. Applied(d)
    BY <1>1, <1>4, <1>5, ApplyOne
<1> QED
    BY <1>3, <1>4, <1>6 DEF d

-----------------------------------------------------------------------------
(* The page's state.                                                       *)

LEMMA PageInit ==
    ASSUME Init
    PROVE  PageState
<1>1. 1 \in Page /\ DefaultSize \in Size /\ 0 \in Nat
    BY ListAssumption DEF Page
<1>2. criteria \in Criteria /\ Default \in Criteria /\ criteria.task = url
    BY <1>1 DEF Init, Default, Criteria
<1>3. 2 \in 0..MaxLoads /\ 1 \in 0..MaxLoads /\ 0 \in 0..MaxLoads /\ MaxHides \in Nat
      /\ MaxFailures \in Nat
    BY ListAssumption
<1>4. \A r \in loads : (r.id = 1 \/ r.id = 2) /\ r = Answer(r.id, criteria)
    <2>1. \A r \in loads : r = Answer(1, criteria) \/ r = Answer(2, criteria)
        <3>1. \A i \in 1..2 : i = 1 \/ i = 2
            OBVIOUS
        <3> QED
            BY <3>1 DEF Init
    <2> QED
        BY <1>2, <2>1, AnswerFacts
<1>5. \A r \in loads : r \in Load /\ r.id <= sent /\ r.rows \subseteq Range(Newest)
    <2>1. ASSUME NEW r \in loads
          PROVE  r \in Load /\ r.id <= sent /\ r.rows \subseteq Range(Newest)
        <3>1. /\ r.for = criteria /\ r.rows = RowsOf(criteria)
              /\ r.total \in Nat /\ r.rows \subseteq Task /\ r.rows \subseteq Range(Newest)
            BY <1>2, <1>4, AnswerFacts
        <3>2. r = [id |-> r.id, for |-> criteria, rows |-> r.rows, total |-> r.total]
            BY <1>4, <3>1 DEF Answer
        <3>3. r.id \in 0..MaxLoads /\ r.id <= 2
            BY <1>3, <1>4
        <3> QED
            BY <1>2, <3>1, <3>2, <3>3 DEF Load, Init
    <2> QED
        BY <2>1
<1>6. loads # {}
    <2>1. 1 \in 1..2
        OBVIOUS
    <2> QED
        BY <2>1 DEF Init
<1>7. shown \in Load /\ shown.id <= sent /\ shown.rows \subseteq Range(Newest)
    BY <1>1, <1>2, <1>3 DEF Init, Load
<1>8. TypeOK
    <2>1. loads \subseteq Load /\ shown \in Load
        BY <1>5, <1>7
    <2>2. /\ url \in Task \cup {NoTask} /\ criteria \in Criteria
          /\ active \in QuickFilter \cup {NoFilter} /\ sent \in 0..MaxLoads
        BY <1>2, <1>3 DEF Init
    <2>3. /\ loading \in BOOLEAN /\ selected \subseteq Task
          /\ hidden \subseteq Task /\ hides \subseteq Hide
          /\ raced \in BOOLEAN /\ crossed \in BOOLEAN
        BY DEF Init
    <2>4. asked \in 0..MaxHides /\ failures \in 0..MaxFailures
        BY <1>3 DEF Init
    <2> QED
        BY <2>1, <2>2, <2>3, <2>4 DEF TypeOK
<1>9. UrlNamesTask /\ SpinnerHasLoad /\ HighlightInForce
    BY <1>2, <1>6 DEF Init, UrlNamesTask, SpinnerHasLoad, HighlightInForce
<1> QED
    BY <1>5, <1>7, <1>8, <1>9 DEF PageState, PageConsistent

LEMMA AppliedPage ==
    ASSUME PageState, NEW d \in Criteria, Applied(d)
    PROVE  /\ criteria' = d /\ sent' \in 0..MaxLoads /\ loads' \subseteq Load
           /\ shown' \in Load /\ loading' = TRUE /\ loads' # {}
           /\ hidden' \subseteq Task
           /\ \A r \in loads' \cup {shown'} : r.id <= sent' /\ r.rows \subseteq Range(Newest)
<1>1. /\ TypeOK
      /\ \A r \in loads \cup {shown} : r.id <= sent /\ r.rows \subseteq Range(Newest)
    BY DEF PageState, PageConsistent
<1>2. /\ sent \in Nat /\ sent' \in Nat /\ sent' > sent /\ sent' \in 0..MaxLoads
      /\ MaxLoads \in Nat
    BY <1>1, ListAssumption DEF TypeOK, Applied
<1>3. ASSUME NEW r \in loads' \ loads
      PROVE  r \in Load /\ r.id <= sent' /\ r.rows \subseteq Range(Newest)
    <2>1. /\ r.id \in Nat /\ r.id > sent /\ r.id <= sent' /\ r.for \in Criteria
          /\ r = Answer(r.id, r.for)
        BY <1>3 DEF Applied
    <2>2. /\ r.rows = RowsOf(r.for) /\ r.total \in Nat
          /\ r.rows \subseteq Task /\ r.rows \subseteq Range(Newest)
        BY <2>1, AnswerFacts
    <2>3. r = [id |-> r.id, for |-> r.for, rows |-> r.rows, total |-> r.total]
        BY <2>1, <2>2 DEF Answer
    <2>4. r.id \in 0..MaxLoads
        BY <1>2, <2>1
    <2> QED
        BY <2>1, <2>2, <2>3, <2>4 DEF Load
<1> QED
    BY <1>1, <1>2, <1>3 DEF Applied, TypeOK, Load

LEMMA PageBrowse ==
    ASSUME PageState, NEW d \in Criteria, Browse(d)
    PROVE  PageState'
<1>1. Applied(d)
    BY DEF Browse
<1>2. /\ criteria' = d /\ sent' \in 0..MaxLoads /\ loads' \subseteq Load
      /\ shown' \in Load /\ loading' = TRUE /\ loads' # {} /\ hidden' \subseteq Task
      /\ \A r \in loads' \cup {shown'} : r.id <= sent' /\ r.rows \subseteq Range(Newest)
    BY <1>1, AppliedPage
<1>3. d.task \in Task \cup {NoTask}
    BY DEF Criteria
<1>4. TypeOK'
    <2>1. TypeOK
        BY DEF PageState, PageConsistent
    <2>2. selected' \subseteq Task /\ hides' \subseteq Hide /\ asked' \in 0..MaxHides
          /\ failures' \in 0..MaxFailures /\ raced' \in BOOLEAN
        BY <2>1 DEF TypeOK, Browse
    <2>3. url' \in Task \cup {NoTask} /\ active' \in QuickFilter \cup {NoFilter}
          /\ crossed' \in BOOLEAN
        BY <1>3, <2>1 DEF TypeOK, Browse
    <2> QED
        BY <1>2, <2>2, <2>3 DEF TypeOK
<1>5. UrlNamesTask' /\ SpinnerHasLoad' /\ HighlightInForce'
    BY <1>2 DEF Browse, UrlNamesTask, SpinnerHasLoad, HighlightInForce
<1> QED
    BY <1>2, <1>4, <1>5 DEF PageState, PageConsistent

LEMMA PageAsk ==
    ASSUME PageState, NEW tasks \in SUBSET Task, NEW batch \in BOOLEAN, Ask(tasks, batch)
    PROVE  PageState'
<1> DEFINE h == [tasks |-> tasks, count |-> Cardinality(shown.rows),
                 page |-> criteria.page, batch |-> batch, served |-> FALSE]
<1>1. TypeOK /\ UrlNamesTask /\ SpinnerHasLoad /\ HighlightInForce
    BY DEF PageState, PageConsistent
<1>2. h \in Hide
    <2>1. Cardinality(shown.rows) \in Nat
        BY FiniteRows DEF PageState
    <2>2. criteria.page \in Page
        BY StateFacts, EditedCriteria
    <2> QED
        BY <2>1, <2>2 DEF Hide
<1>3. /\ asked < MaxHides /\ asked' = asked + 1 /\ hides' = hides \cup {h}
      /\ crossed' \in BOOLEAN
      /\ UNCHANGED <<url, criteria, active, sent, loads, view, selected, hidden,
                     failures, raced>>
    BY DEF Ask, AskToHide
<1> HIDE DEF h
<1>4. asked' \in 0..MaxHides
    BY <1>1, <1>3, ListAssumption DEF TypeOK
<1>5. TypeOK'
    BY <1>1, <1>2, <1>3, <1>4 DEF TypeOK, view
<1>6. UrlNamesTask' /\ SpinnerHasLoad' /\ HighlightInForce'
    BY <1>1, <1>3 DEF view, UrlNamesTask, SpinnerHasLoad, HighlightInForce
<1> QED
    BY <1>3, <1>5, <1>6 DEF PageState, PageConsistent, view

LEMMA PageHides ==
    ASSUME PageState, NEW h \in hides, ServeHide(h) \/ Hid(h) \/ HideFailed(h)
    PROVE  PageState'
<1>1. TypeOK /\ UrlNamesTask /\ SpinnerHasLoad /\ HighlightInForce
    BY DEF PageState, PageConsistent
<1>2. h \in Hide /\ h.tasks \subseteq Task
    BY <1>1 DEF TypeOK, Hide
<1>3. CASE ServeHide(h)
    <2>1. [h EXCEPT !.served = TRUE] \in Hide
        BY <1>2 DEF Hide
    <2>2. hidden' \subseteq Task /\ hides' \subseteq Hide
        BY <1>1, <1>2, <1>3, <2>1 DEF ServeHide, TypeOK
    <2>3. UNCHANGED <<url, criteria, active, sent, loads, view, selected, asked, history>>
        BY <1>3 DEF ServeHide
    <2> QED
        BY <1>1, <2>2, <2>3
           DEF PageState, PageConsistent, TypeOK, UrlNamesTask, SpinnerHasLoad,
               HighlightInForce, view, history
<1>4. CASE Hid(h)
    <2> DEFINE d == [criteria EXCEPT !.page = NextPage(h)]
    <2>1. /\ d \in Criteria /\ Applied(d) /\ d.task = criteria.task
          /\ d.filter = criteria.filter
        BY <1>4, HidApplies
    <2> HIDE DEF d
    <2>2. /\ criteria' = d /\ sent' \in 0..MaxLoads /\ loads' \subseteq Load
          /\ shown' \in Load /\ loading' = TRUE /\ loads' # {} /\ hidden' \subseteq Task
          /\ \A r \in loads' \cup {shown'} : r.id <= sent' /\ r.rows \subseteq Range(Newest)
        BY <2>1, AppliedPage
    <2>3. /\ hides' = hides \ {h} /\ selected' \subseteq Task
          /\ UNCHANGED <<url, active, hidden, asked, history>>
        BY <1>1, <1>4 DEF Hid, TypeOK
    <2>4. TypeOK'
        BY <1>1, <2>1, <2>2, <2>3 DEF TypeOK, history
    <2>5. UrlNamesTask' /\ SpinnerHasLoad' /\ HighlightInForce'
        BY <1>1, <2>1, <2>2, <2>3 DEF UrlNamesTask, SpinnerHasLoad, HighlightInForce
    <2> QED
        BY <2>2, <2>4, <2>5 DEF PageState, PageConsistent
<1>5. CASE HideFailed(h)
    <2>1. /\ failures < MaxFailures /\ failures' = failures + 1 /\ hides' = hides \ {h}
          /\ UNCHANGED <<url, criteria, active, sent, loads, view, selected, hidden,
                         asked, raced, crossed>>
        BY <1>5 DEF HideFailed
    <2>2. failures' \in 0..MaxFailures
        BY <1>1, <2>1, ListAssumption DEF TypeOK
    <2> QED
        BY <1>1, <2>1, <2>2
           DEF PageState, PageConsistent, TypeOK, UrlNamesTask, SpinnerHasLoad,
               HighlightInForce, view
<1> QED
    BY <1>3, <1>4, <1>5

LEMMA PageLoads ==
    ASSUME PageState, NEW r \in loads, Loaded(r) \/ LoadFailed(r)
    PROVE  PageState'
<1>1. /\ TypeOK /\ UrlNamesTask /\ SpinnerHasLoad /\ HighlightInForce
      /\ \A l \in loads \cup {shown} : l.id <= sent /\ l.rows \subseteq Range(Newest)
    BY DEF PageState, PageConsistent
<1>2. r \in Load /\ r.id \in 0..MaxLoads /\ r.for \in Criteria
    BY <1>1 DEF TypeOK, Load
<1>3. /\ loads' = loads \ {r} /\ loading' = FALSE
      /\ UNCHANGED <<url, criteria, active, sent, selected, hidden, hides, asked, crossed>>
    BY DEF Loaded, LoadFailed, removal
<1>4. /\ shown' \in Load /\ shown'.id <= sent /\ shown'.rows \subseteq Range(Newest)
      /\ failures' \in 0..MaxFailures /\ raced' \in BOOLEAN
    <2>1. CASE LoadFailed(r)
        <3>1. failures' \in 0..MaxFailures
            BY <1>1, <2>1, ListAssumption DEF LoadFailed, TypeOK
        <3> QED
            BY <1>1, <2>1, <3>1 DEF LoadFailed, TypeOK
    <2>2. CASE Loaded(r)
        <3> DEFINE a == Answer(r.id, r.for)
        <3>1. /\ a.id = r.id /\ a.for = r.for /\ a.rows = RowsOf(r.for)
              /\ a.total \in Nat /\ a.rows \subseteq Task /\ a.rows \subseteq Range(Newest)
            BY <1>2, AnswerFacts
        <3>2. a = [id |-> r.id, for |-> r.for, rows |-> a.rows, total |-> a.total]
            BY <3>1 DEF Answer
        <3>3. shown' \in {r, a} /\ raced' \in BOOLEAN /\ failures' = failures
            BY <1>1, <2>2 DEF Loaded, TypeOK
        <3> HIDE DEF a
        <3>4. a \in Load
            BY <1>2, <3>1, <3>2 DEF Load
        <3> QED
            BY <1>1, <1>2, <3>1, <3>3, <3>4 DEF TypeOK
    <2> QED
        BY <2>1, <2>2
<1>5. TypeOK'
    BY <1>1, <1>3, <1>4 DEF TypeOK
<1>6. UrlNamesTask' /\ SpinnerHasLoad' /\ HighlightInForce'
    BY <1>1, <1>3 DEF UrlNamesTask, SpinnerHasLoad, HighlightInForce
<1> QED
    BY <1>1, <1>3, <1>4, <1>5, <1>6 DEF PageState, PageConsistent

LEMMA PageElsewhere ==
    ASSUME PageState,
           (\E ticked \in SUBSET shown.rows : Tick(ticked)) \/ Type \/ UNCHANGED vars
    PROVE  PageState'
<1>1. /\ TypeOK /\ UrlNamesTask /\ SpinnerHasLoad /\ HighlightInForce
      /\ shown.rows \subseteq Task
    BY StateFacts DEF PageState, PageConsistent
<1>2. /\ UNCHANGED <<url, criteria, sent, loads, shown, loading, hidden, hides, asked,
                     failures, raced, crossed>>
      /\ active' \in {active, NoFilter}
      /\ selected' \subseteq Task
    <2>1. selected \subseteq Task
        BY <1>1 DEF TypeOK
    <2>2. ASSUME NEW ticked \in SUBSET shown.rows, Tick(ticked)
          PROVE  /\ selected' \subseteq Task
                 /\ UNCHANGED <<url, criteria, active, sent, loads, view, removal, history>>
        BY <1>1, <2>1, <2>2 DEF Tick
    <2> QED
        BY <2>1, <2>2 DEF Type, vars, view, removal, history
<1> QED
    BY <1>1, <1>2
       DEF PageState, PageConsistent, TypeOK, UrlNamesTask, SpinnerHasLoad, HighlightInForce

LEMMA PageStep ==
    ASSUME PageState, [Next]_vars
    PROVE  PageState'
<1> QED
    BY NextForms, PageBrowse, PageAsk, PageHides, PageLoads, PageElsewhere

\* Whatever the two effects, the form and the answers do, and in any order, the
\* address and the criteria name the same task, a spinner has a load in flight
\* that will take it away, and the highlighted quick filter is in force
\* (AnalysisResultList.tsx:90-123, AnalysisSearchPanel.tsx).
THEOREM PageIsConsistent == Spec => []PageConsistent
<1>1. Init => PageState
    BY PageInit
<1>2. PageState /\ [Next]_vars => PageState'
    BY PageStep
<1>3. PageState => PageConsistent
    BY DEF PageState
<1> QED
    BY <1>1, <1>2, <1>3, PTL DEF Spec

-----------------------------------------------------------------------------
(* What is shown is current.                                               *)

\* After new criteria the newest load is in flight, with what the server has.
LEMMA NewestApplied ==
    ASSUME PageState, NEW d \in Criteria, Applied(d)
    PROVE  /\ \A r \in loads' \cup {shown'} :
                r.id = sent' => /\ r = Answer(r.id, d) /\ r.for = d
                                /\ r.rows \cap hidden = {}
           /\ \E r \in loads' : r.id = sent'
<1>1. sent \in Nat /\ sent' \in Nat /\ sent' > sent
    BY StateFacts, ListAssumption DEF Applied
<1>2. \A r \in loads \cup {shown} : r.id \in Nat /\ r.id <= sent
    <2>1. \A r \in loads \cup {shown} : r \in Load /\ r.id <= sent
        BY StateFacts DEF PageState
    <2> QED
        BY <2>1, ListAssumption DEF Load
<1>3. ASSUME NEW r \in loads' \cup {shown'}, r.id = sent'
      PROVE  r = Answer(r.id, d) /\ r.for = d /\ r.rows \cap hidden = {}
    <2>1. r \notin loads \cup {shown}
        BY <1>1, <1>2, <1>3
    <2>2. r \in loads' \ loads
        BY <1>3, <2>1 DEF Applied
    <2>3. r = Answer(r.id, r.for) /\ r.for = d
        BY <1>3, <2>2 DEF Applied
    <2> QED
        BY <2>3, AnswerFacts
<1>4. Answer(sent', d) \in loads' /\ Answer(sent', d).id = sent'
    BY DEF Applied, Answer
<1> QED
    BY <1>3, <1>4

LEMMA CurrentInit ==
    ASSUME Init
    PROVE  ListCurrent
<1>1. \A r \in loads : r.for = criteria
    BY DEF Init, Answer
<1>2. \E r \in loads : r.id = sent
    <2>1. 2 \in 1..2
        OBVIOUS
    <2>2. Answer(2, criteria) \in loads /\ Answer(2, criteria).id = 2
        BY <2>1 DEF Init, Answer
    <2> QED
        BY <2>2 DEF Init
<1>3. shown.id = 0 /\ sent = 2 /\ hidden = {} /\ loading = TRUE
    BY DEF Init
<1> QED
    BY <1>1, <1>2, <1>3 DEF ListCurrent, Covered

LEMMA CurrentBrowse ==
    ASSUME PageState, ListCurrent, NEW d \in Criteria, Browse(d)
    PROVE  ListCurrent'
<1>1. Applied(d) /\ failures' = failures /\ raced' = raced /\ selected' \in {selected, {}}
      /\ hides' = hides
    BY DEF Browse
<1>2. criteria' = d /\ loading' = TRUE /\ hidden' = hidden
    BY <1>1 DEF Applied
<1>3. \A r \in loads' \cup {shown'} :
        r.id = sent' => r.for = d /\ r.rows \cap hidden = {}
    BY <1>1, NewestApplied
<1>4. \E r \in loads' : r.id = sent'
    BY <1>1, NewestApplied
<1>5. \A S : S \cap hidden = {} => Covered(S)'
    BY <1>2 DEF Covered
<1>6. Covered(selected) => Covered(selected)'
    BY <1>1, <1>2 DEF Covered
<1> QED
    BY <1>1, <1>2, <1>3, <1>4, <1>5, <1>6 DEF ListCurrent

LEMMA CurrentHid ==
    ASSUME PageState, ListCurrent, NEW h \in hides, Hid(h)
    PROVE  ListCurrent'
<1> DEFINE d == [criteria EXCEPT !.page = NextPage(h)]
<1>1. d \in Criteria /\ Applied(d)
    BY HidApplies
<1> HIDE DEF d
<1>2. /\ hides' = hides \ {h} /\ UNCHANGED <<hidden, failures, raced>>
      /\ selected' \subseteq selected \ h.tasks
    BY DEF Hid, history
<1>3. criteria' = d /\ loading' = TRUE
    BY <1>1 DEF Applied
<1>4. \A r \in loads' \cup {shown'} :
        r.id = sent' => r.for = d /\ r.rows \cap hidden = {}
    BY <1>1, NewestApplied
<1>5. \E r \in loads' : r.id = sent'
    BY <1>1, NewestApplied
<1>6. \A S : S \cap hidden = {} => Covered(S)'
    BY <1>2 DEF Covered
<1>7. Covered(selected) => Covered(selected)'
    BY <1>2 DEF Covered
<1> QED
    BY <1>2, <1>3, <1>4, <1>5, <1>6, <1>7 DEF ListCurrent

LEMMA CurrentAskServe ==
    ASSUME PageState, ListCurrent,
           \/ \E tasks \in SUBSET Task, batch \in BOOLEAN : Ask(tasks, batch)
           \/ \E h \in hides : ServeHide(h)
    PROVE  ListCurrent'
<1>1. UNCHANGED <<criteria, sent, loads, shown, loading, selected, failures, raced>>
    BY DEF Ask, AskToHide, ServeHide, view, history
<1>2. \A S : Covered(S) => Covered(S)'
    <2>1. ASSUME NEW tasks, NEW batch, Ask(tasks, batch)
          PROVE  \A S : Covered(S) => Covered(S)'
        <3>1. hidden' = hidden /\ hides \subseteq hides'
            BY <2>1 DEF Ask, AskToHide
        <3> QED
            BY <3>1 DEF Covered
    <2>2. ASSUME NEW h \in hides, ServeHide(h)
          PROVE  \A S : Covered(S) => Covered(S)'
        <3> DEFINE g == [h EXCEPT !.served = TRUE]
        <3>1. h \in Hide
            BY DEF PageState, PageConsistent, TypeOK
        <3>2. g.served /\ g.tasks = h.tasks
            BY <3>1 DEF Hide
        <3>3. hidden' = hidden \cup h.tasks /\ hides' = (hides \ {h}) \cup {g} /\ ~h.served
            BY <2>2 DEF ServeHide
        <3> HIDE DEF g
        <3> QED
            BY <3>2, <3>3 DEF Covered
    <2> QED
        BY <2>1, <2>2
<1>3. Covered(selected) => Covered(selected)'
    <2>1. selected' = selected
        BY <1>1
    <2>2. PICK S : S = selected
        OBVIOUS
    <2>3. Covered(S) => Covered(S)'
        BY <1>2
    <2> QED
        BY <2>1, <2>2, <2>3 DEF Covered
<1> QED
    BY <1>1, <1>2, <1>3 DEF ListCurrent

LEMMA CurrentLoaded ==
    ASSUME PageState, ListCurrent, NEW r \in loads, Loaded(r)
    PROVE  ListCurrent'
<1>0. PICK a : a = Answer(r.id, r.for)
    OBVIOUS
<1>1. /\ loads' = loads \ {r} /\ shown' \in {r, a} /\ loading' = FALSE
      /\ raced' = (raced \/ \E l \in loads' : [l EXCEPT !.id = r.id] # r)
      /\ UNCHANGED <<criteria, sent, selected, hidden, hides, failures>>
    BY <1>0 DEF Loaded, removal
<1>2. loads \subseteq Load /\ r \in Load /\ r.for \in Criteria
    BY StateFacts DEF Load
<1>3. a.id = r.id /\ a.for = r.for /\ a.rows \cap hidden = {}
    BY <1>0, <1>2, AnswerFacts
<1>4. \A S : /\ Covered(S) => Covered(S)'
             /\ S \cap hidden = {} => Covered(S)'
    BY <1>1 DEF Covered
<1>5. Covered(selected) => Covered(selected)'
    BY <1>1 DEF Covered
<1> SUFFICES ASSUME failures = 0
             PROVE  /\ \A l \in loads' \cup {shown'} :
                        l.id = sent => l.for = criteria /\ Covered(l.rows)'
                    /\ ~raced' => \A l \in loads' \cup {shown'} : Covered(l.rows)'
                    /\ ~raced' => Covered(selected)'
    BY <1>1 DEF ListCurrent
<1>6. \A l \in loads' \cup {shown'} :
        l.id = sent => l.for = criteria /\ Covered(l.rows)'
    BY <1>1, <1>3, <1>4 DEF ListCurrent
<1>7. ASSUME ~raced' PROVE \A l \in loads' \cup {shown'} : Covered(l.rows)'
    <2>1. ~raced /\ \A l \in loads' : [l EXCEPT !.id = r.id] = r
        BY <1>1, <1>7
    <2>2. \A l \in loads' : l.rows = r.rows
        BY <1>1, <1>2, <2>1 DEF Load
    <2>3. Covered(r.rows)
        <3>1. CASE loading
            <4>1. PICK l \in loads : l.id = sent /\ Covered(l.rows)
                BY <3>1 DEF ListCurrent
            <4>2. l.rows = r.rows
                BY <1>1, <2>2, <4>1
            <4> QED
                BY <4>1, <4>2
        <3>2. CASE ~loading
            BY <2>1, <3>2 DEF ListCurrent
        <3> QED
            BY <3>1, <3>2
    <2>4. \A S : S = r.rows \/ S = a.rows => Covered(S)'
        BY <1>3, <1>4, <2>3
    <2>5. \A l \in loads' \cup {shown'} : l.rows = r.rows \/ l.rows = a.rows
        BY <1>1, <2>2
    <2> QED
        BY <2>4, <2>5
<1>8. ~raced' => Covered(selected)'
    BY <1>1, <1>5 DEF ListCurrent
<1> QED
    BY <1>6, <1>7, <1>8

LEMMA CurrentTick ==
    ASSUME PageState, ListCurrent, NEW ticked \in SUBSET shown.rows, Tick(ticked)
    PROVE  ListCurrent'
<1>1. /\ ~loading /\ selected' = (selected \ shown.rows) \cup ticked
      /\ UNCHANGED <<criteria, sent, loads, shown, loading, hidden, hides, failures, raced>>
    BY DEF Tick, TableShown, view, removal, history
<1>2. \A S : Covered(S) => Covered(S)'
    BY <1>1 DEF Covered
<1>3. failures = 0 /\ ~raced => Covered(shown.rows) /\ Covered(selected)
    BY <1>1 DEF ListCurrent
<1>4. failures = 0 /\ ~raced => Covered(selected)'
    BY <1>1, <1>3 DEF Covered
<1> QED
    BY <1>1, <1>2, <1>4 DEF ListCurrent

LEMMA Failing ==
    ASSUME PageState,
           (\E h \in hides : HideFailed(h)) \/ (\E r \in loads : LoadFailed(r))
    PROVE  failures' # 0
<1>1. failures \in Nat
    BY ListAssumption DEF PageState, PageConsistent, TypeOK
<1>2. failures' = failures + 1
    BY DEF HideFailed, LoadFailed
<1> QED
    BY <1>1, <1>2

LEMMA CurrentStep ==
    ASSUME PageState, ListCurrent, [Next]_vars
    PROVE  ListCurrent'
<1>1. ASSUME Type \/ UNCHANGED vars PROVE ListCurrent'
    <2>1. UNCHANGED <<criteria, sent, loads, shown, loading, selected, hidden, hides,
                      failures, raced>>
        BY <1>1 DEF Type, vars, view, removal, history
    <2> QED
        BY <2>1 DEF ListCurrent, Covered
<1>2. failures' # 0 => ListCurrent'
    BY DEF ListCurrent
<1> QED
    BY <1>1, <1>2, NextForms, CurrentBrowse, CurrentHid, CurrentAskServe, CurrentLoaded,
       CurrentTick, Failing

LEMMA ListInvariant == Spec => [](PageState /\ ListCurrent)
<1>1. Init => PageState /\ ListCurrent
    BY PageInit, CurrentInit
<1>2. PageState /\ ListCurrent /\ [Next]_vars => (PageState /\ ListCurrent)'
    BY PageStep, CurrentStep
<1> QED
    BY <1>1, <1>2, PTL DEF Spec

\* Loads are answered in any order and tasks removed meanwhile: once everything
\* has been answered the rows are those of the page's criteria and none of them
\* is hidden, unless an older load was answered last (AnalysisResultList.tsx:56-88).
THEOREM ListShowsCurrent == Spec => []ShownIsCurrent
<1>1. ASSUME PageState, ListCurrent PROVE ShownIsCurrent
    <2>1. shown.id \in Nat /\ sent \in Nat /\ shown.id <= sent
        BY <1>1, StateFacts, ListAssumption DEF PageState, Load
    <2>2. shown.id < sent \/ shown.id = sent
        BY <2>1
    <2>3. ASSUME Quiet, shown.id = sent
          PROVE  shown.for = criteria /\ shown.rows \cap hidden = {}
        BY <1>1, <2>3 DEF ListCurrent, Covered, Quiet
    <2> QED
        BY <2>2, <2>3 DEF ShownIsCurrent
<1> QED
    BY <1>1, ListInvariant, PTL

\* Tasks that have been removed, one by one or in batches that overlap, are not
\* left in the selection, unless loads that differ were in flight together
\* (AnalysisResultList.tsx:146-213).
THEOREM RemovedAreNotSelected == Spec => []RemovedNotSelected
<1>1. ASSUME PageState, ListCurrent PROVE RemovedNotSelected
    BY <1>1 DEF ListCurrent, Covered, Quiet, RemovedNotSelected
<1> QED
    BY <1>1, ListInvariant, PTL

-----------------------------------------------------------------------------
(* No removal leaves an empty page.                                        *)

\* While nothing is hidden the server's answers are what they were.
LEMMA SameAnswers ==
    ASSUME UNCHANGED hidden, NEW c, NEW n
    PROVE  /\ Hits(c)' = Hits(c) /\ RowsOf(c)' = RowsOf(c)
           /\ Answer(n, c)' = Answer(n, c) /\ InRange(c)' = InRange(c)
<1>1. Hits(c)' = Hits(c)
    BY DEF Hits
<1> QED
    BY <1>1 DEF RowsOf, Answer, InRange

\* Two answers with the same content: the number of the load is all that differs.
LEMMA SameContent ==
    ASSUME NEW l \in Load, NEW r \in Load, [l EXCEPT !.id = r.id] = r, NEW c
    PROVE  /\ l = Answer(l.id, c) => r = Answer(r.id, c)
           /\ r = Answer(r.id, c) => l = Answer(l.id, c)
<1>1. /\ l = [id |-> l.id, for |-> l.for, rows |-> l.rows, total |-> l.total]
      /\ r = [id |-> r.id, for |-> r.for, rows |-> r.rows, total |-> r.total]
    BY DEF Load
<1>2. l.for = r.for /\ l.rows = r.rows /\ l.total = r.total
    BY DEF Load
<1>3. \A x \in {l, r} :
        x = Answer(x.id, c)
            <=> x.for = c /\ x.rows = RowsOf(c) /\ x.total = Cardinality(Hits(c))
    BY <1>1 DEF Answer
<1> QED
    BY <1>2, <1>3

LEMMA PagingInit ==
    ASSUME Init
    PROVE  Paging
<1>1. hides = {} /\ loading = TRUE /\ shown.id # sent
    BY DEF Init
<1>2. criteria.page = 1
    BY DEF Init, Default
<1>3. \A r \in loads : r = Answer(r.id, criteria)
    BY DEF Init, Answer
<1>4. InRange(criteria)
    BY <1>2 DEF InRange
<1> QED
    BY <1>1, <1>3, <1>4 DEF Paging, Untouched, Removing

\* A page is chosen from the total of an answer for the criteria; everything else
\* goes back to page 1.
LEMMA PagingBrowse ==
    ASSUME PageState, Paging, NEW d \in Criteria, Browse(d)
    PROVE  Paging'
<1>1. /\ Applied(d) /\ UNCHANGED <<hides, failures, raced>>
      /\ crossed' = (crossed \/ hides # {})
    BY DEF Browse
<1>2. criteria' = d /\ loading' = TRUE /\ hidden' = hidden
    BY <1>1 DEF Applied
<1> SUFFICES ASSUME failures' = 0, ~raced', ~crossed'
             PROVE  Untouched' /\ Removing'
    BY DEF Paging
<1>3. hides = {} /\ hides' = {} /\ Untouched
    BY <1>1 DEF Paging
<1>4. InRange(d)
    <2>1. d.page \in Nat \ {0} /\ d.size \in Nat \ {0} /\ criteria \in Criteria
        BY StateFacts, EditedCriteria
    <2>2. CASE d.page = 1
        BY <2>2 DEF InRange
    <2>3. CASE /\ ~loading /\ Hits(d) = Hits(criteria)
               /\ d.page <= Pages(shown.total, d.size)
        <3>1. shown = Answer(shown.id, criteria)
            BY <1>3, <2>3 DEF Untouched
        <3>2. shown.total = Cardinality(Hits(d)) /\ shown.total \in Nat
            BY <2>1, <2>3, <3>1, AnswerFacts
        <3>3. d.page > 1 => (d.page - 1) * d.size < shown.total
            BY <2>1, <2>3, <3>2, OfferedPages
        <3> QED
            BY <3>2, <3>3 DEF InRange
    <2> QED
        BY <2>2, <2>3 DEF Browse
<1>5. InRange(d)' /\ \A n : Answer(n, d)' = Answer(n, d)
    BY <1>2, <1>4, SameAnswers
<1>6. \A r \in loads' \cup {shown'} : r.id = sent' => r = Answer(r.id, d)
    BY <1>1, NewestApplied
<1>7. Removing'
    BY <1>3 DEF Removing
<1>8. Untouched'
    BY <1>2, <1>3, <1>5, <1>6 DEF Untouched, InRange, Answer
<1> QED
    BY <1>7, <1>8

\* The page a removal goes to was in range when the server had hidden the tasks.
LEMMA PagingHid ==
    ASSUME PageState, Paging, NEW h \in hides, Hid(h)
    PROVE  Paging'
<1>1. PICK d : d = [criteria EXCEPT !.page = NextPage(h)]
    OBVIOUS
<1>2. d \in Criteria /\ Applied(d)
    BY <1>1, HidApplies
<1>3. /\ hides' = hides \ {h} /\ UNCHANGED <<hidden, failures, raced, crossed>> /\ h.served
    BY DEF Hid, history
<1>4. criteria' = d /\ loading' = TRUE
    BY <1>2 DEF Applied
<1> SUFFICES ASSUME failures' = 0, ~raced', ~crossed'
             PROVE  Untouched' /\ Removing'
    BY DEF Paging
<1>5. hides' = {} /\ InRange(d)
    BY <1>1, <1>3 DEF Paging, Removing
<1>6. InRange(d)' /\ \A n : Answer(n, d)' = Answer(n, d)
    BY <1>3, <1>5, SameAnswers
<1>7. \A r \in loads' \cup {shown'} : r.id = sent' => r = Answer(r.id, d)
    BY <1>2, NewestApplied
<1>8. Removing'
    BY <1>5 DEF Removing
<1>9. Untouched'
    BY <1>4, <1>5, <1>6, <1>7 DEF Untouched, InRange, Answer
<1> QED
    BY <1>8, <1>9

\* A removal that crosses nothing is confirmed on the page the server has.
LEMMA PagingAsk ==
    ASSUME PageState, Paging, NEW tasks \in SUBSET Task, NEW batch \in BOOLEAN,
           Ask(tasks, batch)
    PROVE  Paging'
<1>1. PICK h : h = [tasks |-> tasks, count |-> Cardinality(shown.rows),
                    page |-> criteria.page, batch |-> batch, served |-> FALSE]
    OBVIOUS
<1>2. /\ tasks # {} /\ hides' = hides \cup {h}
      /\ crossed' = (crossed \/ loading \/ hides # {} \/ ~(tasks \subseteq shown.rows))
      /\ UNCHANGED <<criteria, sent, loads, shown, loading, hidden, failures, raced>>
    BY <1>1 DEF Ask, AskToHide, view
<1>3. PICK c : c = criteria
    OBVIOUS
<1>4. criteria' = c /\ c \in Criteria
    BY <1>2, <1>3, StateFacts
<1> SUFFICES ASSUME failures' = 0, ~raced', ~crossed'
             PROVE  Untouched' /\ Removing'
    BY DEF Paging
<1>5. ~loading /\ hides = {} /\ tasks \subseteq shown.rows /\ Untouched
    BY <1>2 DEF Paging
<1>6. InRange(c) /\ shown.rows = RowsOf(c)
    <2>1. InRange(criteria) /\ shown = Answer(shown.id, criteria)
        BY <1>5 DEF Untouched
    <2> QED
        BY <1>3, <1>4, <2>1, AnswerFacts
<1>7. InRange(c)' /\ RowsOf(c)' = RowsOf(c)
    BY <1>2, <1>6, SameAnswers
<1>8. hides' = {h}
    BY <1>2, <1>5
<1>9. /\ h.page = c.page /\ ~h.served /\ h.tasks = tasks
      /\ h.count = Cardinality(RowsOf(c))
    BY <1>1, <1>3, <1>6
<1>10. Untouched'
    BY <1>8 DEF Untouched
<1>11. Removing'
    BY <1>2, <1>4, <1>5, <1>6, <1>7, <1>8, <1>9 DEF Removing, InRange, RowsOf, Hits
<1> QED
    BY <1>10, <1>11

\* The server hides tasks of the page: what is left reaches the page that
\* handleHide will go to.
LEMMA PagingServe ==
    ASSUME PageState, Paging, NEW h \in hides, ServeHide(h)
    PROVE  Paging'
<1>1. PICK g : g = [h EXCEPT !.served = TRUE]
    OBVIOUS
<1>2. /\ hides' = (hides \ {h}) \cup {g} /\ hidden' = hidden \cup h.tasks /\ ~h.served
      /\ UNCHANGED <<criteria, sent, loads, shown, loading, failures, raced, crossed>>
    BY <1>1 DEF ServeHide, view, history
<1>3. PICK c : c = criteria
    OBVIOUS
<1>4. criteria' = c /\ c \in Criteria
    BY <1>2, <1>3, StateFacts
<1>5. h \in Hide /\ h.page \in Page /\ h.count \in Nat
    BY DEF PageState, PageConsistent, TypeOK, Hide
<1>6. g.served /\ g.page = h.page /\ NextPage(g) = NextPage(h)
    BY <1>1, <1>5 DEF Hide, NextPage
<1> SUFFICES ASSUME failures' = 0, ~raced', ~crossed'
             PROVE  Untouched' /\ Removing'
    BY DEF Paging
<1>7. /\ hides = {h} /\ h.page = c.page /\ InRange(c) /\ h.tasks # {}
      /\ h.tasks \subseteq RowsOf(c) /\ h.count = Cardinality(RowsOf(c))
    BY <1>2, <1>3 DEF Paging, Removing
<1>8. hides' = {g}
    BY <1>2, <1>7
<1>9. PICK next : next = NextPage(h)
    OBVIOUS
<1>10. PICK d : d = [c EXCEPT !.page = next]
    OBVIOUS
<1>11. /\ next \in Page /\ next \in Nat /\ d.page = next /\ d.size = c.size
       /\ d.task = c.task /\ d.filter = c.filter
       /\ c.page \in Nat \ {0} /\ c.size \in Nat \ {0}
    <2>1. /\ c.page \in Page /\ c.page \in Nat \ {0} /\ c.size \in Nat \ {0}
          /\ Page \subseteq Nat
        BY <1>4, EditedCriteria, ListAssumption DEF Page
    <2>2. next \in Page
        BY <1>5, <1>9, ListAssumption DEF NextPage, Page
    <2> QED
        BY <1>4, <1>10, <2>1, <2>2, EditedCriteria
<1>12. PICK S : S = Hits(c)
    OBVIOUS
<1> DEFINE P == Slice(S, c.page, c.size)
           T == {i \in P : Newest[i] \in h.tasks}
<1>13. /\ S \in SUBSET (Nat \ {0}) /\ Len(Newest) \in Nat
       /\ \A i \in S : i <= Len(Newest)
    BY <1>12, HitsAreNumbers
<1>14. P \subseteq S /\ S \subseteq DOMAIN Newest /\ RowsOf(c) = {Newest[i] : i \in P}
    BY <1>12 DEF Slice, RowsOf, Hits
<1> HIDE DEF P
<1>15. T # {} /\ h.tasks = {Newest[i] : i \in T} /\ T \subseteq DOMAIN Newest
    BY <1>7, <1>14
<1>16. Hits(d)' = S \ T
    <2>1. \A i \in S : Newest[i] \in h.tasks => i \in T
        <3>1. ASSUME NEW i \in S, Newest[i] \in h.tasks PROVE i \in T
            <4>1. PICK j \in P : Newest[i] = Newest[j] /\ j \in T
                BY <1>15, <3>1
            <4>2. i = j
                BY <1>14, <3>1, <4>1, ListAssumption DEF IsInjective
            <4> QED
                BY <4>1, <4>2
        <3> QED
            BY <3>1
    <2>2. \A i \in DOMAIN Newest :
            (Newest[i] \notin hidden') <=> Newest[i] \notin hidden /\ Newest[i] \notin h.tasks
        BY <1>2
    <2>3. Hits(d)' = {i \in S : Newest[i] \notin h.tasks}
        BY <1>11, <1>12, <2>2 DEF Hits
    <2>4. \A i \in T : Newest[i] \in h.tasks
        OBVIOUS
    <2> HIDE DEF T
    <2> QED
        BY <2>1, <2>3, <2>4
<1>17. Cardinality(h.tasks) = Cardinality(T) /\ h.count = Cardinality(P)
    <2>1. P \subseteq DOMAIN Newest
        BY <1>14
    <2> HIDE DEF T
    <2> QED
        BY <1>7, <1>14, <1>15, <2>1, CountPlaces
<1>18. next = IF Cardinality(P) = Cardinality(T) /\ c.page > 1 THEN c.page - 1 ELSE c.page
    BY <1>7, <1>9, <1>17 DEF NextPage
<1>19. c.page > 1 => (c.page - 1) * c.size < Cardinality(S)
    BY <1>7, <1>12, <1>14, <1>15 DEF InRange
<1>20. next > 1 => (next - 1) * c.size < Cardinality(S \ T)
    <2>1. T \in SUBSET P
        OBVIOUS
    <2> HIDE DEF T
    <2> QED
        BY <1>11, <1>13, <1>15, <1>18, <1>19, <2>1, PageAfterRemoval DEF P
<1>21. InRange(d)'
    BY <1>11, <1>16, <1>20 DEF InRange
<1>22. Untouched'
    BY <1>8 DEF Untouched
<1>23. Removing'
    <2>1. NextPage(g)' = next
        BY <1>6, <1>9
    <2>2. d = [criteria' EXCEPT !.page = NextPage(g)]
        BY <1>4, <1>6, <1>9, <1>10
    <2> QED
        BY <1>4, <1>6, <1>7, <1>8, <1>21, <2>2 DEF Removing, InRange, Hits
<1> QED
    BY <1>22, <1>23

\* Unless they differ, any load that comes back has what the newest one has.
LEMMA PagingLoaded ==
    ASSUME PageState, ListCurrent, Paging, NEW r \in loads, Loaded(r)
    PROVE  Paging'
<1>0. PICK a : a = Answer(r.id, r.for)
    OBVIOUS
<1>1. /\ loads' = loads \ {r} /\ shown' \in {r, a} /\ loading' = FALSE
      /\ raced' = (raced \/ \E l \in loads' : [l EXCEPT !.id = r.id] # r)
      /\ UNCHANGED <<criteria, sent, hidden, hides, failures, crossed>>
    BY <1>0 DEF Loaded, removal
<1>2. loads \subseteq Load /\ r \in Load /\ r.for \in Criteria
    BY StateFacts DEF Load
<1>3. PICK c : c = criteria
    OBVIOUS
<1>4. criteria' = c /\ c \in Criteria
    BY <1>1, <1>3, StateFacts
<1> SUFFICES ASSUME failures' = 0, ~raced', ~crossed'
             PROVE  Untouched' /\ Removing'
    BY DEF Paging
<1>5. /\ failures = 0 /\ ~raced /\ Untouched /\ Removing
      /\ \A l \in loads' : [l EXCEPT !.id = r.id] = r
    BY <1>1 DEF Paging
<1>6. Removing'
    BY <1>1, <1>5 DEF Removing, InRange, RowsOf, Hits
<1>7. Untouched'
    <2> SUFFICES ASSUME hides = {} PROVE Untouched'
        BY <1>1 DEF Untouched
    <2>1. r = Answer(r.id, c)
        <3>1. CASE loading
            <4>1. PICK l \in loads : l.id = sent
                BY <1>5, <3>1 DEF ListCurrent
            <4>2. l = Answer(l.id, c)
                BY <1>3, <1>5, <4>1 DEF Untouched
            <4>3. l = r \/ [l EXCEPT !.id = r.id] = r
                BY <1>1, <1>5, <4>1
            <4> QED
                BY <1>2, <4>2, <4>3, SameContent
        <3>2. CASE ~loading
            BY <1>3, <1>5, <3>2 DEF Untouched
        <3> QED
            BY <3>1, <3>2
    <2>2. \A l \in loads' : l = Answer(l.id, c)
        BY <1>1, <1>2, <1>5, <2>1, SameContent
    <2>3. shown' = Answer(shown'.id, c)
        BY <1>0, <1>1, <2>1 DEF Answer
    <2>4. InRange(c) /\ InRange(c)' /\ \A n : Answer(n, c)' = Answer(n, c)
        BY <1>1, <1>3, <1>5, SameAnswers DEF Untouched
    <2> QED
        BY <1>4, <2>2, <2>3, <2>4 DEF Untouched, InRange, Answer
<1> QED
    BY <1>6, <1>7

LEMMA PagingStep ==
    ASSUME PageState, ListCurrent, Paging, [Next]_vars
    PROVE  Paging'
<1>1. ASSUME (\E ticked \in SUBSET shown.rows : Tick(ticked)) \/ Type \/ UNCHANGED vars
      PROVE  Paging'
    <2>1. UNCHANGED <<criteria, sent, loads, shown, loading, hidden, hides,
                      failures, raced, crossed>>
        BY <1>1 DEF Tick, Type, vars, view, removal, history
    <2> QED
        BY <2>1 DEF Paging, Untouched, Removing, InRange, Answer, RowsOf, Hits
<1>2. failures' # 0 => Paging'
    BY DEF Paging
<1> QED
    BY <1>1, <1>2, NextForms, PagingBrowse, PagingHid, PagingAsk, PagingServe,
       PagingLoaded, Failing

\* A removal that crosses nothing leaves the user on a page with tasks while any
\* match (AnalysisResultList.tsx:146-196): the page handleHide goes to was chosen
\* from what the click saw, and is looked at after the server has hidden the
\* tasks and the answer has come back.
THEOREM NoEmptyPage == Spec => []EmptyPageNeedsCrossing
<1>1. ASSUME PageState, Paging, Quiet, ~crossed, ~raced, shown.rows = {}
      PROVE  Hits(criteria) = {}
    <2>1. criteria \in Criteria /\ criteria.page \in Nat \ {0} /\ criteria.size \in Nat \ {0}
        BY <1>1, StateFacts, EditedCriteria
    <2>2. failures = 0 /\ hides = {} /\ loads = {} /\ ~loading
        BY <1>1 DEF Quiet, PageState, PageConsistent, SpinnerHasLoad
    <2>3. InRange(criteria) /\ shown = Answer(shown.id, criteria)
        BY <1>1, <2>2 DEF Paging, Untouched
    <2>4. RowsOf(criteria) = {}
        BY <1>1, <2>1, <2>3, AnswerFacts
    <2>5. Slice(Hits(criteria), criteria.page, criteria.size) = {}
        BY <2>4 DEF RowsOf
    <2>6. IsFiniteSet(Hits(criteria)) /\ Cardinality(Hits(criteria)) \in Nat
        BY <2>1, AnswerFacts
    <2>7. ~((criteria.page - 1) * criteria.size < Cardinality(Hits(criteria)))
        <3>1. Cardinality(Slice(Hits(criteria), criteria.page, criteria.size)) = 0
            BY <2>5, FS_EmptySet
        <3>2. (criteria.page - 1) * criteria.size < Cardinality(Hits(criteria))
                => Cardinality(Slice(Hits(criteria), criteria.page, criteria.size)) >= 1
            BY <2>1, HitsAreNumbers, SliceSize
        <3> QED
            BY <3>1, <3>2
    <2>8. CASE criteria.page > 1
        BY <2>3, <2>7, <2>8 DEF InRange
    <2>9. CASE ~(criteria.page > 1)
        <3>1. criteria.page - 1 = 0
            BY <2>1, <2>9
        <3>2. (criteria.page - 1) * criteria.size = 0
            BY <2>1, <3>1
        <3>3. Cardinality(Hits(criteria)) = 0
            BY <2>6, <2>7, <3>2
        <3> QED
            BY <2>6, <3>3, FS_EmptySet
    <2> QED
        BY <2>8, <2>9
<1>2. Init => PageState /\ ListCurrent /\ Paging
    BY PageInit, CurrentInit, PagingInit
<1>3. PageState /\ ListCurrent /\ Paging /\ [Next]_vars
        => (PageState /\ ListCurrent /\ Paging)'
    BY PageStep, CurrentStep, PagingStep
<1>4. PageState /\ ListCurrent /\ Paging => EmptyPageNeedsCrossing
    BY <1>1 DEF EmptyPageNeedsCrossing
<1> QED
    BY <1>2, <1>3, <1>4, PTL DEF Spec
=============================================================================
