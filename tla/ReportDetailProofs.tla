------------------------- MODULE ReportDetailProofs -------------------------
(***************************************************************************)
(* Proofs about ReportDetail, for any tasks, any reports and any bounds:   *)
(* the state of the page at every moment, whose report it shows, and what  *)
(* it shows of the report's text.                                          *)
(***************************************************************************)
EXTENDS ReportDetail, FiniteSetTheorems, SequenceTheorems,
        WellFoundedInduction, TLAPS

----------------------------------------------------------------------------
(* Least and greatest numbers.                                             *)
Less == {ss \in Nat \X Nat : ss[1] < ss[2]}

LEMMA LessWellFounded == IsWellFoundedOn(Less, Nat)
  BY NatLessThanWellFounded DEF OpToRel, Less

LEMMA Least ==
    ASSUME NEW S \in SUBSET Nat, S # {}
    PROVE  \E x \in S : \A y \in S : x <= y
<1>2. \E x \in S : \A y \in S : <<y, x>> \notin Less
  BY LessWellFounded, WFMin
<1>3. ASSUME NEW x \in Nat, NEW y \in Nat, y < x PROVE <<y, x>> \in Less
  BY <1>3 DEF Less
<1>4. PICK x \in S : \A y \in S : <<y, x>> \notin Less BY <1>2
<1>5. ASSUME NEW y \in S PROVE x <= y
  <2>1. x \in Nat /\ y \in Nat OBVIOUS
  <2>2. ~(y < x) BY <2>1, <1>3, <1>4
  <2> QED BY <2>1, <2>2
<1> QED BY <1>5

LEMMA MinLeast ==
    ASSUME NEW S \in SUBSET Nat, S # {}
    PROVE  Min(S) \in S /\ \A y \in S : Min(S) <= y
BY Least DEF Min

LEMMA MinIs ==
    ASSUME NEW S \in SUBSET Nat, NEW m \in S, \A y \in S : m <= y
    PROVE  Min(S) = m
<1>1. Min(S) \in S /\ Min(S) <= m BY MinLeast
<1>2. m \in Nat /\ Min(S) \in Nat /\ m <= Min(S) BY <1>1
<1> QED BY <1>1, <1>2

LEMMA MaxGreatest ==
    ASSUME NEW n \in Nat, NEW S \in SUBSET (0..n), S # {}
    PROVE  Max(S) \in S /\ \A y \in S : y <= Max(S)
<1> DEFINE T == {k \in Nat : \A y \in S : y <= k}
<1>1. PICK k \in T : \A j \in T : k <= j
  <2>1. n \in T OBVIOUS
  <2> QED BY <2>1, Least
<1>2. k \in S
  <2> SUFFICES ASSUME k \notin S PROVE FALSE OBVIOUS
  <2>1. \A y \in S : y <= k - 1 /\ y \in Nat OBVIOUS
  <2>2. k - 1 \in Nat
    <3>1. PICK y \in S : TRUE OBVIOUS
    <3> QED BY <2>1, <3>1
  <2>3. k - 1 \in T BY <2>1, <2>2
  <2> QED BY <2>3, <1>1
<1>3. \E x \in S : \A y \in S : x >= y BY <1>1, <1>2
<1> QED BY <1>3 DEF Max

----------------------------------------------------------------------------
(* The text that Normalize makes.                                          *)
\* One step of FlattenSeq's recursive function.
Flat(g, seqs, n) == [i \in 1..n |-> IF i = 1 THEN seqs[i] ELSE g[i - 1] \o seqs[i]]

LEMMA FlatExists ==
    ASSUME NEW seqs, NEW n \in Nat
    PROVE  \E g : g = Flat(g, seqs, n)
<1> DEFINE Bad == {k \in Nat : ~ \E g : g = Flat(g, seqs, k)}
<1> SUFFICES ASSUME Bad # {} PROVE FALSE OBVIOUS
<1>1. PICK k \in Bad : \A j \in Bad : k <= j BY Least
<1>2. CASE k = 0
  <2> DEFINE g == [i \in 1..0 |-> 0]
  <2>1. g = Flat(g, seqs, 0) BY DEF Flat
  <2> QED BY <2>1, <1>2
<1>3. CASE k # 0
  <2>1. k - 1 \in Nat /\ k - 1 \notin Bad BY <1>1, <1>3
  <2>2. PICK g : g = Flat(g, seqs, k - 1) BY <2>1
  <2> DEFINE h == [i \in 1..k |-> IF i = 1 THEN seqs[i] ELSE
                                  IF i = k THEN g[k - 1] \o seqs[k] ELSE g[i]]
  <2>3. \A i \in 1..k : i # 1 => h[i - 1] = g[i - 1]
    <3> SUFFICES ASSUME NEW i \in 1..k, i # 1 PROVE h[i - 1] = g[i - 1] OBVIOUS
    <3>1. i - 1 \in 1..k - 1 /\ i - 1 \in 1..k /\ i - 1 # k OBVIOUS
    <3>2. g[i - 1] = IF i - 1 = 1 THEN seqs[i - 1] ELSE g[i - 1 - 1] \o seqs[i - 1]
      BY <2>2, <3>1 DEF Flat
    <3> QED BY <3>1, <3>2
  <2>4. \A i \in 1..k :
           h[i] = IF i = 1 THEN seqs[i] ELSE h[i - 1] \o seqs[i]
    <3> SUFFICES ASSUME NEW i \in 1..k
                 PROVE  h[i] = IF i = 1 THEN seqs[i] ELSE h[i - 1] \o seqs[i]
      OBVIOUS
    <3>1. CASE i = 1 BY <3>1
    <3>2. CASE i = k /\ i # 1 BY <3>2, <2>3
    <3>3. CASE i # k /\ i # 1
      <4>1. i \in 1..k - 1 BY <3>3
      <4>2. g[i] = g[i - 1] \o seqs[i] BY <2>2, <4>1, <3>3 DEF Flat
      <4> QED BY <4>2, <3>3, <2>3
    <3> QED BY <3>1, <3>2, <3>3
  <2>5. h = Flat(h, seqs, k)
    <3> HIDE DEF h
    <3>1. h = [i \in 1..k |-> h[i]] BY DEF h
    <3> QED BY <3>1, <2>4 DEF Flat
  <2> QED BY <2>5, <1>1
<1> QED BY <1>2, <1>3

LEMMA FlatTyped ==
    ASSUME NEW S, NEW seqs \in Seq(Seq(S)), NEW f, f = Flat(f, seqs, Len(seqs)),
           NEW n \in 1..Len(seqs)
    PROVE  f[n] \in Seq(S)
<1> DEFINE Bad == {k \in 1..Len(seqs) : f[k] \notin Seq(S)}
<1> SUFFICES ASSUME Bad # {} PROVE FALSE OBVIOUS
<1>0. Bad \in SUBSET Nat OBVIOUS
<1>1. PICK k \in Bad : \A j \in Bad : k <= j BY <1>0, Least
<1>2. seqs[k] \in Seq(S) BY <1>1
<1>3. f[k] = IF k = 1 THEN seqs[k] ELSE f[k - 1] \o seqs[k] BY <1>1 DEF Flat
<1>4. CASE k = 1 BY <1>1, <1>2, <1>3, <1>4
<1>5. CASE k # 1
  <2>1. k - 1 \in 1..Len(seqs) /\ k - 1 \notin Bad BY <1>1, <1>5
  <2>2. f[k - 1] \in Seq(S) BY <2>1
  <2>3. f[k - 1] \o seqs[k] \in Seq(S) BY <2>2, <1>2, ConcatProperties
  <2> QED BY <2>3, <1>3, <1>5, <1>1
<1> QED BY <1>4, <1>5

LEMMA FlattenTyped ==
    ASSUME NEW S, NEW seqs \in Seq(Seq(S))
    PROVE  FlattenSeq(seqs) \in Seq(S)
<1> DEFINE f == CHOOSE g : g = Flat(g, seqs, Len(seqs))
<1>1. f = Flat(f, seqs, Len(seqs)) BY FlatExists
<1>2. CASE Len(seqs) = 0
  <2>1. FlattenSeq(seqs) = seqs BY <1>2 DEF FlattenSeq
  <2>2. seqs = <<>> BY <1>2, EmptySeq
  <2> QED BY <2>1, <2>2
<1>3. CASE Len(seqs) # 0
  <2>1. FlattenSeq(seqs) = f[Len(seqs)] BY <1>3 DEF FlattenSeq, Flat
  <2> HIDE DEF f
  <2> QED BY <2>1, <1>1, <1>3, FlatTyped
<1> QED BY <1>2, <1>3

\* Of sequences of length one FlattenSeq makes the sequence of their elements.
LEMMA FlattenSingles ==
    ASSUME NEW S, NEW k \in Seq(S), NEW seqs \in Seq(Seq(S)), Len(seqs) = Len(k),
           Len(k) # 0, \A i \in 1..Len(k) : seqs[i] = <<k[i]>>
    PROVE  FlattenSeq(seqs) = k
<1> DEFINE f == CHOOSE g : g = Flat(g, seqs, Len(seqs))
           n == Len(k)
<1>1. n \in Nat /\ n \in 1..n OBVIOUS
<1>2. f = Flat(f, seqs, Len(seqs)) BY <1>1, FlatExists
<1>3. FlattenSeq(seqs) = f[n] BY DEF FlattenSeq, Flat
<1> HIDE DEF f, n
<1>4. ASSUME NEW m \in 1..n
      PROVE  f[m] = IF m = 1 THEN seqs[m] ELSE f[m - 1] \o seqs[m]
  <2>1. m \in 1..Len(seqs) BY DEF n
  <2> QED BY <1>2, <2>1 DEF Flat
<1> DEFINE Good(m) ==
             f[m] \in Seq(S) /\ Len(f[m]) = m /\ \A j \in 1..m : f[m][j] = k[j]
           Bad == {m \in 1..n : ~Good(m)}
<1>5. Bad = {}
  <2> SUFFICES ASSUME Bad # {} PROVE FALSE OBVIOUS
  <2>1. Bad \in SUBSET Nat BY <1>1
  <2>2. PICK m \in Bad : \A j \in Bad : m <= j BY <2>1, Least
  <2>3. m \in 1..n /\ m \in Nat /\ k[m] \in S /\ seqs[m] = <<k[m]>>
    BY <2>2, <1>1 DEF n
  <2>4. CASE m = 1
    <3>1. f[m] = <<k[1]>> BY <1>4, <2>3, <2>4
    <3>2. Good(m) BY <3>1, <2>3, <2>4
    <3> QED BY <3>2, <2>2
  <2>5. CASE m # 1
    <3> DEFINE p == f[m - 1]
    <3>1. m - 1 \in 1..n /\ m - 1 \notin Bad BY <1>1, <2>2, <2>3, <2>5
    <3>2. Good(m - 1) BY <3>1
    <3>3. p \in Seq(S) /\ Len(p) = m - 1 /\ \A j \in 1..m - 1 : p[j] = k[j] BY <3>2
    <3>4. f[m] = p \o <<k[m]>> BY <1>4, <2>3, <2>5
    <3> HIDE DEF p
    <3>5. <<k[m]>> \in Seq(S) /\ Len(<<k[m]>>) = 1 BY <2>3
    <3>6. /\ f[m] \in Seq(S) /\ Len(f[m]) = m
          /\ \A j \in 1..m : f[m][j] = IF j <= m - 1 THEN p[j] ELSE <<k[m]>>[j - (m - 1)]
      BY <2>3, <3>3, <3>4, <3>5, ConcatProperties
    <3>7. ASSUME NEW j \in 1..m PROVE f[m][j] = k[j]
      <4>1. CASE j <= m - 1
        <5>1. j \in 1..m - 1 BY <4>1, <2>3
        <5> QED BY <5>1, <4>1, <3>3, <3>6
      <4>2. CASE ~(j <= m - 1)
        <5>1. j = m BY <4>2, <2>3
        <5>2. j - (m - 1) = 1 BY <5>1, <2>3
        <5>3. f[m][j] = <<k[m]>>[1] BY <4>2, <5>2, <3>6
        <5> QED BY <5>1, <5>3
      <4> QED BY <4>1, <4>2
    <3>8. Good(m) BY <3>6, <3>7
    <3> QED BY <3>8, <2>2
  <2> QED BY <2>4, <2>5
<1>6. Good(n) BY <1>1, <1>5
<1>7. f[n] = k BY <1>6, SeqEqual DEF n
<1> QED BY <1>3, <1>7

LEMMA NormalizeTyped ==
    ASSUME NEW w \in Seq(Written)
    PROVE  Normalize(w) \in Seq(Kind)
<1> DEFINE pieces == [i \in DOMAIN w |-> Cut(w[i])]
<1>1. ASSUME NEW i \in 1..Len(w) PROVE Cut(w[i]) \in Seq(Kind)
  <2>0. w[i] \in Written BY ElementOfSeq
  <2>1. w[i].kind \in Kind BY <2>0 DEF Written
  <2>2. {"plain", "subsection", "group"} \subseteq Kind BY DEF Kind, Heading
  <2> QED BY <2>1, <2>2 DEF Cut
<1>2. pieces \in Seq(Seq(Kind))
  <2>1. DOMAIN w = 1..Len(w) /\ Len(w) \in Nat OBVIOUS
  <2>2. pieces \in [1..Len(w) -> Seq(Kind)] BY <1>1, <2>1
  <2> QED BY <2>1, <2>2
<1> HIDE DEF pieces
<1>3. FlattenSeq(pieces) \in Seq(Kind) BY <1>2, FlattenTyped
<1> QED BY <1>3 DEF Normalize, pieces

\* What is not cut arrives as it was written.
LEMMA GluedArrives ==
    ASSUME NEW w \in Seq(Written), Glued(w), w # <<>>
    PROVE  Normalize(w) = Kinds(w) /\ Kinds(w) \in Seq(Kind) /\ DOMAIN Kinds(w) = DOMAIN w
<1> DEFINE pieces == [i \in DOMAIN w |-> Cut(w[i])]
           k == Kinds(w)
<1>1. Len(w) \in Nat /\ Len(w) # 0 /\ DOMAIN w = 1..Len(w) BY EmptySeq
<1>2. ASSUME NEW i \in 1..Len(w)
      PROVE  w[i].kind \in Kind /\ Cut(w[i]) = <<w[i].kind>> /\ Cut(w[i]) \in Seq(Kind)
  <2>1. w[i] \in Written BY ElementOfSeq
  <2>2. w[i].glued \/ w[i].kind \notin {"group", "entry"} BY <1>1 DEF Glued
  <2>3. w[i].kind \in Kind /\ Cut(w[i]) = <<w[i].kind>> BY <2>1, <2>2 DEF Cut, Written
  <2> QED BY <2>3
<1>3. k = [i \in 1..Len(w) |-> w[i].kind] BY <1>1 DEF Kinds
<1>4. k \in [1..Len(w) -> Kind] BY <1>2, <1>3
<1>5. k \in Seq(Kind) /\ Len(k) = Len(w) BY <1>1, <1>3, <1>4
<1>6. pieces \in [1..Len(w) -> Seq(Kind)]
  <2>1. \A i \in 1..Len(w) : Cut(w[i]) \in Seq(Kind) BY <1>2
  <2> QED BY <1>1, <2>1
<1>7. pieces \in Seq(Seq(Kind)) /\ Len(pieces) = Len(w) BY <1>1, <1>6
<1>8. \A i \in 1..Len(w) : pieces[i] = <<k[i]>> BY <1>1, <1>2, <1>3
<1> HIDE DEF k, pieces
<1>9. FlattenSeq(pieces) = k BY <1>1, <1>5, <1>7, <1>8, FlattenSingles
<1>10. DOMAIN k = DOMAIN w BY <1>1, <1>3
<1> QED BY <1>5, <1>9, <1>10 DEF Normalize, pieces, k

----------------------------------------------------------------------------
(* Lines of a text: the last one of a set, and those that stand under one. *)
LEMMA LatestFacts ==
    ASSUME NEW n \in Nat, NEW S \in SUBSET (1..n)
    PROVE  /\ Latest(S) \in Nat /\ \A j \in S : j <= Latest(S)
           /\ Latest(S) # 0 => Latest(S) \in S
<1>1. CASE S = {} BY <1>1 DEF Latest
<1>2. CASE S # {}
  <2>1. S \in SUBSET (0..n) OBVIOUS
  <2>2. Max(S) \in S /\ \A j \in S : j <= Max(S) BY <1>2, <2>1, MaxGreatest
  <2>3. Latest(S) = Max(S) BY <1>2 DEF Latest
  <2>4. Max(S) \in 1..n BY <2>2
  <2> QED BY <2>2, <2>3, <2>4
<1> QED BY <1>1, <1>2

LEMMA AboveFacts ==
    ASSUME NEW n \in Nat, NEW S \in SUBSET (1..n), NEW i \in Nat
    PROVE  /\ Above(i, S) \in Nat /\ \A j \in S : j < i => j <= Above(i, S)
           /\ Above(i, S) # 0 => Above(i, S) \in S /\ Above(i, S) < i
<1> DEFINE T == {j \in S : j < i}
<1>1. T \in SUBSET (1..n) OBVIOUS
<1>2. /\ Latest(T) \in Nat /\ \A j \in T : j <= Latest(T)
      /\ Latest(T) # 0 => Latest(T) \in T
  BY <1>1, LatestFacts
<1>3. Above(i, S) = Latest(T) BY DEF Above
<1> QED BY <1>2, <1>3

LEMMA AboveIs ==
    ASSUME NEW n \in Nat, NEW S \in SUBSET (1..n), NEW i \in Nat,
           NEW s \in S, s < i, \A j \in S : j < i => j <= s
    PROVE  Above(i, S) = s
<1>1. /\ Above(i, S) \in Nat /\ s <= Above(i, S)
      /\ Above(i, S) # 0 => Above(i, S) \in S /\ Above(i, S) < i
  BY AboveFacts
<1>2. s \in 1..n OBVIOUS
<1>3. Above(i, S) \in S /\ Above(i, S) < i BY <1>1, <1>2
<1>4. Above(i, S) <= s BY <1>3
<1> QED BY <1>1, <1>2, <1>4

LEMMA UnderFacts ==
    ASSUME NEW n \in Nat, NEW S, NEW starts \in SUBSET (1..n),
           NEW s \in starts, NEW x \in Under(S, s, starts), x \in Nat
    PROVE  /\ s < x /\ x \in S /\ x \notin starts
           /\ \A j \in starts : j < x => j <= s
<1>1. x \in S \ starts /\ Above(x, starts) = s BY DEF Under
<1>2. s \in 1..n OBVIOUS
<1>3. /\ \A j \in starts : j < x => j <= Above(x, starts)
      /\ Above(x, starts) # 0 => Above(x, starts) < x
  BY AboveFacts
<1>4. s # 0 BY <1>2
<1> QED BY <1>1, <1>3, <1>4

LEMMA UnderIs ==
    ASSUME NEW n \in Nat, NEW S, NEW starts \in SUBSET (1..n),
           NEW s \in starts, NEW x \in S \ starts, x \in Nat, s < x,
           \A j \in starts : j < x => j <= s
    PROVE  x \in Under(S, s, starts)
BY AboveIs DEF Under

LEMMA LinesFacts ==
    ASSUME NEW text \in Seq(Kind), NEW K
    PROVE  /\ Len(text) \in Nat /\ DOMAIN text = 1..Len(text)
           /\ Lines(text, K) \in SUBSET (1..Len(text))
BY DEF Lines

\* A section is an interval of lines without headings, below its own heading.
LEMMA SectionFacts ==
    ASSUME NEW text \in Seq(Kind), NEW name \in Heading,
           NEW x \in Section(text, name)
    PROVE  \E m \in Lines(text, {name}) :
             /\ m < x /\ x \in 1..Len(text)
             /\ Section(text, name) \subseteq (m + 1)..Len(text)
             /\ \A j \in (m + 1)..x :
                   j \in Section(text, name) /\ text[j] \notin Heading
<1> DEFINE n == Len(text)
           named == Lines(text, {name})
           H == Lines(text, Heading)
           m == Max(named)
<1>1. n \in Nat /\ DOMAIN text = 1..n /\ H \in SUBSET (1..n) /\ named \in SUBSET (1..n)
  BY LinesFacts
<1>2. named # {} /\ Section(text, name) = Under(1..n, m, H)
  <2>1. Section(text, name) # {} OBVIOUS
  <2> QED BY <2>1, <1>1 DEF Section
<1>3. m \in named
  <2> HIDE DEF named, n
  <2>1. named \in SUBSET (0..n) BY <1>1
  <2> QED BY <1>1, <1>2, <2>1, MaxGreatest
<1>4. named \subseteq H BY DEF Lines
<1>5. \A j \in 1..n : text[j] \in Heading <=> j \in H BY <1>1 DEF Lines
<1> HIDE DEF n, named, H, m
<1>6. m \in H /\ m \in 1..n BY <1>3, <1>4, <1>1
<1>7. ASSUME NEW y \in Section(text, name)
      PROVE  y \in 1..n /\ m < y /\ y \notin H /\ \A j \in H : j < y => j <= m
  <2>1. y \in Under(1..n, m, H) BY <1>2
  <2>2. y \in 1..n BY <2>1 DEF Under
  <2>3. y \in Nat BY <2>2, <1>1
  <2>4. Above(y, H) = m /\ y \notin H BY <2>1 DEF Under
  <2>5. /\ \A j \in H : j < y => j <= Above(y, H)
        /\ Above(y, H) # 0 => Above(y, H) \in H /\ Above(y, H) < y
    BY <2>3, <1>1, AboveFacts
  <2>6. m # 0 BY <1>1, <1>6
  <2> QED BY <2>2, <2>4, <2>5, <2>6
<1>8. ASSUME NEW j \in (m + 1)..x
      PROVE  j \in Section(text, name) /\ text[j] \notin Heading
  <2>1. x \in 1..n /\ x \notin H /\ \A k \in H : k < x => k <= m BY <1>7
  <2>2. j \in 1..n /\ m < j /\ j <= x /\ j \in Nat BY <2>1, <1>6, <1>1
  <2>3. j \notin H BY <2>1, <2>2, <1>6
  <2>4. \A k \in H : k < j => k <= m BY <2>1, <2>2, <1>1
  <2>5. j \in (1..n) \ H BY <2>2, <2>3
  <2>6. j \in Under(1..n, m, H) BY <2>2, <2>5, <2>4, <1>1, <1>6, UnderIs
  <2> QED BY <2>6, <2>3, <2>2, <1>2, <1>5
<1>9. Section(text, name) \subseteq (m + 1)..n BY <1>7, <1>6
<1>10. m < x /\ x \in 1..n BY <1>7
<1> QED BY <1>3, <1>8, <1>9, <1>10 DEF named, n

----------------------------------------------------------------------------
(* The items of a report.                                                  *)
DetailHeads(text) == Section(text, "details") \cap Lines(text, {"group"})
GroupLines(text, g) == Under(Section(text, "details"), g, DetailHeads(text))
Full(text) == {g \in DetailHeads(text) : Says(text, GroupLines(text, g)) = {}}
ItemLines(text) == UNION {GroupLines(text, g) : g \in Full(text)}
Entries(text) == ItemLines(text) \cap Lines(text, {"entry"})
Starts(text) ==
    Entries(text) \cup {g \in Full(text) : g + 1 \in ItemLines(text) \ Entries(text)}

LEMMA GroupsAre ==
    ASSUME NEW text
    PROVE  Groups(text) = [g \in DetailHeads(text) |-> GroupLines(text, g)]
BY DEF Groups, DetailHeads, GroupLines

LEMMA ItemsAre ==
    ASSUME NEW text
    PROVE  Items(text) =
             [s \in Starts(text) |-> Under(ItemLines(text), s, Starts(text))]
<1> DEFINE groups == Groups(text)
           full == {g \in DOMAIN groups : Says(text, groups[g]) = {}}
           lines == UNION {groups[g] : g \in full}
<1>1. /\ DOMAIN groups = DetailHeads(text)
      /\ \A g \in DetailHeads(text) : groups[g] = GroupLines(text, g)
  BY GroupsAre
<1>2. full = Full(text) BY <1>1 DEF Full
<1>3. lines = ItemLines(text) BY <1>1, <1>2 DEF ItemLines, Full
<1> QED BY <1>2, <1>3 DEF Items, Starts, Entries

LEMMA DetailFacts ==
    ASSUME NEW text \in Seq(Kind)
    PROVE  /\ Len(text) \in Nat /\ Section(text, "details") \subseteq 1..Len(text)
           /\ DetailHeads(text) \in SUBSET (1..Len(text))
           /\ ItemLines(text) \subseteq Section(text, "details")
           /\ ItemLines(text) \cap DetailHeads(text) = {}
           /\ Starts(text) \in SUBSET (1..Len(text))
           /\ Starts(text) \subseteq Section(text, "details")
           /\ Starts(text) \subseteq Lines(text, {"group", "entry"})
<1>1. Len(text) \in Nat OBVIOUS
<1>2. Section(text, "details") \subseteq 1..Len(text)
  BY SectionFacts DEF Heading
<1>3. DetailHeads(text) \subseteq Section(text, "details") BY DEF DetailHeads
<1>4. /\ ItemLines(text) \subseteq Section(text, "details")
      /\ ItemLines(text) \cap DetailHeads(text) = {}
  BY DEF ItemLines, GroupLines, Under
<1>5. Starts(text) \subseteq Section(text, "details")
  BY <1>3, <1>4 DEF Starts, Entries, Full
<1>6. Starts(text) \subseteq Lines(text, {"group", "entry"})
  BY DEF Starts, Entries, Full, DetailHeads, Lines
<1> QED BY <1>1, <1>2, <1>3, <1>4, <1>5, <1>6

\* A line of the details between a line of an item and the group above it
\* belongs to an item too.
LEMMA LinesConvex ==
    ASSUME NEW text \in Seq(Kind), NEW x \in ItemLines(text)
    PROVE  \E g \in Full(text) :
             /\ g < x
             /\ \A j \in (g + 1)..x : j \in ItemLines(text)
<1> DEFINE n == Len(text)
           D == Section(text, "details")
           heads == DetailHeads(text)
<1>1. /\ n \in Nat /\ D \subseteq 1..n /\ heads \in SUBSET (1..n) /\ heads \subseteq D
  BY DetailFacts DEF DetailHeads
<1>2. PICK g \in Full(text) : x \in GroupLines(text, g) BY DEF ItemLines
<1>3. g \in heads BY DEF Full
<1>4. x \in D BY <1>2 DEF GroupLines, Under
<1>5. PICK m \in 1..n : /\ D \subseteq (m + 1)..n
                        /\ \A j \in (m + 1)..x : j \in D
  BY <1>4, SectionFacts, LinesFacts DEF Heading
<1> HIDE DEF n, D, heads
<1>6. x \in Nat /\ g \in Nat /\ m \in Nat BY <1>1, <1>3, <1>4
<1>7. x \in Under(D, g, heads) BY <1>2 DEF GroupLines, D, heads
<1>8. g < x /\ \A j \in heads : j < x => j <= g
  BY <1>1, <1>3, <1>6, <1>7, UnderFacts
<1>9. ASSUME NEW j \in (g + 1)..x PROVE j \in ItemLines(text)
  <2>1. j \in Nat /\ g < j /\ j <= x BY <1>6
  <2>2. m < g BY <1>1, <1>3, <1>5, <1>6
  <2>3. j \in D BY <1>5, <1>6, <2>1, <2>2
  <2>4. CASE j = x BY <2>4
  <2>5. CASE j # x
    <3>0. j < x BY <2>1, <2>5, <1>6
    <3>1. j \in D \ heads BY <1>6, <1>8, <2>1, <2>3, <3>0
    <3>2. \A k \in heads : k < j => k <= g
      <4> SUFFICES ASSUME NEW k \in heads, k < j PROVE k <= g OBVIOUS
      <4>1. k \in 1..n BY <1>1
      <4>2. k \in Nat BY <4>1, <1>1
      <4> QED BY <4>2, <1>6, <1>8, <2>1
    <3>3. j \in Under(D, g, heads) BY <1>1, <1>3, <2>1, <3>1, <3>2, UnderIs
    <3> QED BY <3>3, <1>2 DEF ItemLines, GroupLines, D, heads
  <2> QED BY <2>4, <2>5
<1> QED BY <1>8, <1>9

\* From the start of an item to any of its lines no other heading comes, and
\* every line between them is one of the item's.
LEMMA ItemConvex ==
    ASSUME NEW text \in Seq(Kind), NEW s \in Starts(text),
           NEW x \in Under(ItemLines(text), s, Starts(text))
    PROVE  /\ x \in 1..Len(text) /\ s \in 1..Len(text) /\ s < x
           /\ \A j \in (s + 1)..x :
                /\ text[j] \notin Heading \cup {"group", "entry"}
                /\ j \in Under(ItemLines(text), s, Starts(text))
<1> DEFINE n == Len(text)
           D == Section(text, "details")
           heads == DetailHeads(text)
           lines == ItemLines(text)
           starts == Starts(text)
           entries == Entries(text)
<1>1. /\ n \in Nat /\ D \subseteq 1..n /\ heads \in SUBSET (1..n) /\ heads \subseteq D
      /\ lines \subseteq D /\ lines \cap heads = {}
      /\ starts \in SUBSET (1..n) /\ starts \subseteq D
      /\ heads = {j \in D : text[j] = "group"}
      /\ entries = {j \in lines : text[j] = "entry"}
      /\ starts = entries \cup {g \in Full(text) : g + 1 \in lines \ entries}
  BY DetailFacts, LinesFacts DEF DetailHeads, Entries, Lines, Starts
<1>2. x \in lines BY DEF Under
<1>3. x \in D BY <1>1, <1>2
<1>4. PICK m \in 1..n : /\ D \subseteq (m + 1)..n
                        /\ \A j \in (m + 1)..x : j \in D /\ text[j] \notin Heading
  BY <1>3, SectionFacts, LinesFacts DEF Heading
<1>5. PICK g \in Full(text) : g < x /\ \A j \in (g + 1)..x : j \in lines
  BY <1>2, LinesConvex
<1>6. g \in heads BY DEF Full
<1> HIDE DEF n, D, heads, lines, starts, entries
<1>7. x \in Nat /\ g \in Nat /\ m \in Nat /\ s \in Nat /\ x \in 1..n /\ s \in 1..n
  <2>1. s \in starts BY DEF starts
  <2> QED BY <2>1, <1>1, <1>3, <1>6
<1>8. x \in Under(lines, s, starts) /\ s \in starts BY DEF lines, starts
<1>9. s < x /\ x \notin starts /\ \A j \in starts : j < x => j <= s
  <2>1. n \in Nat /\ starts \in SUBSET (1..n) BY <1>1
  <2>2. x \in Nat BY <1>7
  <2> QED BY <2>1, <2>2, <1>8, UnderFacts
<1>10. g <= s
  <2>1. g + 1 \in lines BY <1>5, <1>7
  <2>2. CASE g + 1 \in entries
    <3>1. g + 1 \in starts BY <1>1, <2>2
    <3>2. g + 1 # x BY <3>1, <1>9
    <3>3. g + 1 < x BY <3>2, <1>5, <1>7
    <3>4. g + 1 <= s BY <3>1, <3>3, <1>9
    <3> QED BY <3>4, <1>7
  <2>3. CASE g + 1 \notin entries
    <3>1. g \in starts BY <1>1, <2>1, <2>3, <1>5
    <3> QED BY <3>1, <1>5, <1>9
  <2> QED BY <2>2, <2>3
<1>11. ASSUME NEW j \in (s + 1)..x
       PROVE  /\ text[j] \notin Heading \cup {"group", "entry"}
              /\ j \in Under(lines, s, starts)
  <2>1. j \in Nat /\ s < j /\ g < j /\ j <= x BY <1>7, <1>10
  <2>2. j \in lines BY <2>1, <1>5, <1>7
  <2>3. j \in D /\ j \notin heads BY <2>2, <1>1
  <2>4. text[j] # "group" BY <2>3, <1>1
  <2>5. j \notin starts
    <3>1. CASE j = x BY <3>1, <1>9
    <3>2. CASE j # x
      <4>1. j < x BY <3>2, <2>1, <1>7
      <4> QED BY <4>1, <2>1, <1>7, <1>9
    <3> QED BY <3>1, <3>2
  <2>6. text[j] # "entry" BY <2>2, <2>5, <1>1
  <2>7. j \in (m + 1)..x
    <3>1. s \in D BY <1>1, <1>8
    <3>2. m < s BY <3>1, <1>4, <1>7
    <3> QED BY <3>2, <2>1, <1>7
  <2>8. text[j] \notin Heading BY <2>7, <1>4
  <2>9. \A k \in starts : k < j => k <= s
    <3> SUFFICES ASSUME NEW k \in starts, k < j PROVE k <= s OBVIOUS
    <3>1. k \in 1..n BY <1>1
    <3>2. k \in Nat BY <3>1, <1>1
    <3> QED BY <3>2, <1>7, <1>9, <2>1
  <2>10. j \in lines \ starts BY <2>2, <2>5
  <2>11. j \in Under(lines, s, starts)
    BY <1>1, <1>8, <2>1, <2>9, <2>10, UnderIs
  <2> QED BY <2>4, <2>6, <2>8, <2>11
<1> QED BY <1>7, <1>9, <1>11 DEF n, lines, starts

LEMMA FieldFacts ==
    ASSUME NEW text \in Seq(Kind), NEW body \in SUBSET (1..Len(text)), NEW kind,
           Field(text, body, kind) # 0
    PROVE  /\ Field(text, body, kind) \in Left(text, body) \cap Lines(text, {kind})
           /\ \A j \in Left(text, body) \cap Lines(text, {kind}) :
                j <= Field(text, body, kind)
<1> DEFINE S == Left(text, body) \cap Lines(text, {kind})
<1>1. Len(text) \in Nat /\ S \in SUBSET (1..Len(text)) BY LinesFacts
<1>2. Field(text, body, kind) = Latest(S) BY DEF Field
<1> HIDE DEF S
<1>3. Latest(S) \in S /\ \A j \in S : j <= Latest(S)
  BY <1>1, <1>2, LatestFacts
<1> QED BY <1>2, <1>3 DEF S

\* What stands before a line that no point has taken was not taken either.
LEMMA LeftConvex ==
    ASSUME NEW text \in Seq(Kind), NEW body \in SUBSET (1..Len(text)),
           NEW x \in Left(text, body), NEW j \in body, j <= x
    PROVE  j \in Left(text, body)
<1> DEFINE points == body \cap Lines(text, {"point"})
           n == Len(text)
<1>1. n \in Nat /\ points \in SUBSET (1..n) BY LinesFacts
<1>2. x \in body /\ Above(x, points) = 0 BY DEF Left
<1> HIDE DEF points
<1>3. x \in Nat /\ j \in Nat BY <1>1, <1>2
<1>4. /\ \A p \in points : p < x => p <= Above(x, points)
      /\ Above(j, points) \in Nat
      /\ Above(j, points) # 0 => Above(j, points) \in points /\ Above(j, points) < j
  BY <1>1, <1>3, AboveFacts
<1>5. Above(j, points) = 0
  <2> SUFFICES ASSUME Above(j, points) # 0 PROVE FALSE OBVIOUS
  <2>1. Above(j, points) < x BY <1>3, <1>4
  <2>2. Above(j, points) <= 0 BY <2>1, <1>2, <1>4
  <2> QED BY <2>2, <1>4
<1> QED BY <1>5 DEF Left, points

LEMMA RiskUnderStatement ==
    ASSUME NEW text \in Seq(Kind), NEW i \in DOMAIN Items(text)
    PROVE  LET heads == Lines(text, Heading \cup {"group", "entry"})
               statements == Lines(text, {"sql"})
               s == Field(text, Items(text)[i], "sql")
               r == Field(text, Items(text)[i], "risk")
           IN  s # 0 /\ r # 0 =>
                 \/ Above(r, statements \cup heads) = s
                 \/ s > r /\ Above(s, heads) = Above(r, heads)
<1> DEFINE n == Len(text)
           heads == Lines(text, Heading \cup {"group", "entry"})
           statements == Lines(text, {"sql"})
           body == Items(text)[i]
           s == Field(text, body, "sql")
           r == Field(text, body, "risk")
<1> SUFFICES ASSUME s # 0, r # 0
             PROVE  \/ Above(r, statements \cup heads) = s
                    \/ s > r /\ Above(s, heads) = Above(r, heads)
  OBVIOUS
<1>1. i \in Starts(text) /\ body = Under(ItemLines(text), i, Starts(text))
  BY ItemsAre
<1>2. \A x \in body :
        /\ x \in 1..n /\ i \in 1..n /\ i < x
        /\ \A j \in (i + 1)..x :
             text[j] \notin Heading \cup {"group", "entry"} /\ j \in body
  BY <1>1, ItemConvex
<1>3. /\ n \in Nat /\ DOMAIN text = 1..n
      /\ heads \in SUBSET (1..n) /\ statements \in SUBSET (1..n)
      /\ heads = {j \in 1..n : text[j] \in Heading \cup {"group", "entry"}}
      /\ statements = {j \in 1..n : text[j] = "sql"}
  BY LinesFacts DEF Lines
<1>4. i \in heads
  BY <1>1, DetailFacts DEF Lines
<1> HIDE DEF n, body, heads, statements
<1>5. body \in SUBSET (1..Len(text)) BY <1>2 DEF n
<1>6. /\ s \in Left(text, body) /\ text[s] = "sql"
      /\ \A j \in Left(text, body) \cap Lines(text, {"sql"}) : j <= s
  BY <1>5, FieldFacts DEF Lines
<1>7. r \in Left(text, body) /\ text[r] = "risk"
  BY <1>5, FieldFacts DEF Lines
<1>8. s \in body /\ r \in body BY <1>6, <1>7 DEF Left
<1> HIDE DEF s, r
<1>9. s \in Nat /\ r \in Nat /\ i \in Nat /\ s \in 1..n /\ r \in 1..n /\ i < s /\ i < r
  BY <1>2, <1>3, <1>8
<1>10. ASSUME NEW x \in body PROVE Above(x, heads) = i
  <2>1. x \in 1..n /\ i < x BY <1>2
  <2>2. x \in Nat BY <2>1, <1>3
  <2>3. \A j \in heads : j < x => j <= i
    <3> SUFFICES ASSUME NEW j \in heads, j < x, ~(j <= i) PROVE FALSE OBVIOUS
    <3>1. j \in 1..n BY <1>3
    <3>2. j \in (i + 1)..x BY <3>1, <2>2, <1>3, <1>9
    <3> QED BY <3>2, <1>2, <1>3
  <2> QED BY <2>1, <2>2, <2>3, <1>3, <1>4, AboveIs
<1>11. CASE s > r BY <1>11, <1>10, <1>8
<1>12. CASE s < r
  <2> DEFINE S == statements \cup heads
  <2>1. s \in S BY <1>3, <1>6, <1>9
  <2>2. S \in SUBSET (1..n) BY <1>3
  <2>3. \A j \in S : j < r => j <= s
    <3> SUFFICES ASSUME NEW j \in S, j < r, ~(j <= s) PROVE FALSE OBVIOUS
    <3>1. j \in 1..n BY <2>2
    <3>2. j \in (i + 1)..r /\ s < j BY <3>1, <1>3, <1>9
    <3>3. text[j] \notin Heading \cup {"group", "entry"} /\ j \in body
      BY <3>2, <1>2, <1>8
    <3>4. text[j] = "sql" BY <3>3, <1>3
    <3>5. j \in Left(text, body) BY <3>2, <3>3, <1>5, <1>7, LeftConvex
    <3>6. j \in Lines(text, {"sql"}) BY <3>1, <3>4, <1>3 DEF Lines
    <3> QED BY <3>2, <3>5, <3>6, <1>6
  <2> HIDE DEF S
  <2>4. Above(r, S) = s BY <2>1, <2>2, <2>3, <1>3, <1>9, <1>12, AboveIs
  <2> QED BY <2>4 DEF S
<1>13. s # r BY <1>6, <1>7
<1> QED BY <1>9, <1>11, <1>12, <1>13

----------------------------------------------------------------------------
(* Reports in the workflow's format.                                       *)

\* The advice starts at a, and so: the places of the headings and of the table.
Parts(text, a) ==
    /\ a \in 8..Len(text) - 3
    /\ text[2] = "overview" /\ text[4] = "levels" /\ text[6] = "details"
    /\ text[7] = "group" /\ text[a] = "advice"
    /\ \A j \in 1..Len(text) :
         /\ text[j] = "title" => j = 1
         /\ text[j] = "plain" => j = 3
         /\ text[j] = "bullet" => j = 5
         /\ j \in {1, 3, 5} <=> text[j] \in {"title", "plain", "bullet"}
         /\ j \in {2, 4, 6, a} <=> text[j] \in Heading
         /\ j > a <=> text[j] \in {"row", "rule"}
         /\ j = a + 2 <=> text[j] = "rule"
    /\ \A j \in 8..a - 1 :
         /\ text[j] = "none" => text[j - 1] = "group"
         /\ text[j - 1] = "none" => text[j] = "group"
         /\ text[j] = "sql" => text[j - 1] = "entry"
         /\ text[j] = "risk" => text[j - 1] = "sql"

LEMMA FormatPairs ==
    ASSUME NEW k, NEW l, <<k, l>> \in Format
    PROVE  /\ k = "title" <=> l = "overview"
           /\ k = "overview" <=> l = "plain"
           /\ k = "plain" <=> l = "levels"
           /\ k = "levels" <=> l = "bullet"
           /\ k = "bullet" <=> l = "details"
           /\ k = "details" => l = "group"
           /\ k = "entry" <=> l = "sql"
           /\ k = "sql" <=> l = "risk"
           /\ k = "none" => l \in {"group", "advice"}
           /\ l = "none" => k = "group"
           /\ k \in {"advice", "row", "rule"} <=> l \in {"row", "rule"}
           /\ k = "advice" => l = "row"
           /\ l \notin {"title", "subsection"}
BY SMT DEF Format

LEMMA FirstLines ==
    ASSUME NEW text \in Seq(Kind), WellFormed(text)
    PROVE  /\ Len(text) \in Nat /\ Len(text) > 7
           /\ \A j \in 2..Len(text) : <<text[j - 1], text[j]>> \in Format
           /\ text[1] = "title" /\ text[2] = "overview" /\ text[3] = "plain"
           /\ text[4] = "levels" /\ text[5] = "bullet" /\ text[6] = "details"
           /\ text[7] = "group"
<1> DEFINE n == Len(text)
<1>1. n \in Nat /\ n > 0 BY DEF WellFormed
<1>2. text[1] = "title" /\ text[n] = "row" BY DEF WellFormed
<1>3. ASSUME NEW j \in 2..n PROVE <<text[j - 1], text[j]>> \in Format
  <2>1. j - 1 \in 1..n - 1 BY <1>1
  <2>2. <<text[j - 1], text[j - 1 + 1]>> \in Format BY <2>1 DEF WellFormed
  <2>3. j - 1 + 1 = j OBVIOUS
  <2> QED BY <2>2, <2>3
<1> HIDE DEF n
<1>4. n > 1 BY <1>1, <1>2
<1>5. text[2] = "overview"
  <2>1. 2 \in 2..n BY <1>1, <1>4
  <2>2. <<text[1], text[2]>> \in Format BY <1>3, <2>1
  <2> QED BY <2>2, <1>2, FormatPairs
<1>6. n > 2 BY <1>1, <1>2, <1>4, <1>5
<1>7. text[3] = "plain"
  <2>1. 3 \in 2..n BY <1>1, <1>6
  <2>2. <<text[2], text[3]>> \in Format BY <1>3, <2>1
  <2> QED BY <2>2, <1>5, FormatPairs
<1>8. n > 3 BY <1>1, <1>2, <1>6, <1>7
<1>9. text[4] = "levels"
  <2>1. 4 \in 2..n BY <1>1, <1>8
  <2>2. <<text[3], text[4]>> \in Format BY <1>3, <2>1
  <2> QED BY <2>2, <1>7, FormatPairs
<1>10. n > 4 BY <1>1, <1>2, <1>8, <1>9
<1>11. text[5] = "bullet"
  <2>1. 5 \in 2..n BY <1>1, <1>10
  <2>2. <<text[4], text[5]>> \in Format BY <1>3, <2>1
  <2> QED BY <2>2, <1>9, FormatPairs
<1>12. n > 5 BY <1>1, <1>2, <1>10, <1>11
<1>13. text[6] = "details"
  <2>1. 6 \in 2..n BY <1>1, <1>12
  <2>2. <<text[5], text[6]>> \in Format BY <1>3, <2>1
  <2> QED BY <2>2, <1>11, FormatPairs
<1>14. n > 6 BY <1>1, <1>2, <1>12, <1>13
<1>15. text[7] = "group"
  <2>1. 7 \in 2..n BY <1>1, <1>14
  <2>2. <<text[6], text[7]>> \in Format BY <1>3, <2>1
  <2> QED BY <2>2, <1>13, FormatPairs
<1>16. n > 7 BY <1>1, <1>2, <1>14, <1>15
<1> QED
  BY <1>1, <1>2, <1>3, <1>5, <1>7, <1>9, <1>11, <1>13, <1>15, <1>16 DEF n

\* The table is the rest of the text from its first row on.
LEMMA TablePlace ==
    ASSUME NEW text \in Seq(Kind), WellFormed(text)
    PROVE  \E a \in 8..Len(text) - 3 :
             /\ text[a] = "advice"
             /\ \A j \in 1..Len(text) :
                  /\ text[j] = "advice" => j = a
                  /\ j > a <=> text[j] \in {"row", "rule"}
                  /\ j = a + 2 <=> text[j] = "rule"
<1> DEFINE n == Len(text)
           Rows == {j \in 1..n : text[j] \in {"row", "rule"}}
<1>1. /\ n \in Nat /\ n > 7 /\ \A j \in 2..n : <<text[j - 1], text[j]>> \in Format
      /\ text[1] = "title" /\ text[2] = "overview" /\ text[3] = "plain"
      /\ text[4] = "levels" /\ text[5] = "bullet" /\ text[6] = "details"
      /\ text[7] = "group"
  BY FirstLines
<1>2. /\ text[n] = "row" /\ text[n - 1] # "advice"
      /\ \A j \in 1..n : text[j] = "rule" <=> j > 2 /\ text[j - 2] = "advice"
  <2>1. DOMAIN text = 1..n BY LinesFacts
  <2> HIDE DEF n
  <2>2. n = Len(text) BY DEF n
  <2> QED BY <2>1, <2>2 DEF WellFormed
<1> HIDE DEF n
<1>3. n \in Rows /\ Rows \in SUBSET Nat BY <1>1, <1>2
<1>4. PICK p \in Rows : \A j \in Rows : p <= j BY <1>3, Least
<1>5. p \in 8..n BY <1>1, <1>4
<1> DEFINE a == p - 1
<1>6. a \in 7..n - 1 /\ a \in Nat BY <1>5, <1>1
<1>7. text[a] = "advice"
  <2>1. p \in 2..n BY <1>5, <1>1
  <2>2. text[a] \in {"advice", "row", "rule"}
    <3>1. <<text[p - 1], text[p]>> \in Format BY <2>1, <1>1
    <3>2. text[p] \in {"row", "rule"} BY <1>4
    <3> QED BY <3>1, <3>2, FormatPairs
  <2>3. a \notin Rows BY <1>4, <1>6, <1>5
  <2>4. a \in 1..n BY <1>6, <1>1
  <2> QED BY <2>2, <2>3, <2>4
<1> HIDE DEF a
<1>8. \A j \in (a + 1)..n : text[j] \in {"row", "rule"}
  <2> DEFINE Bad == {j \in (a + 1)..n : text[j] \notin {"row", "rule"}}
  <2> SUFFICES ASSUME Bad # {} PROVE FALSE OBVIOUS
  <2>1. Bad \in SUBSET Nat BY <1>6
  <2>2. PICK j \in Bad : \A k \in Bad : j <= k BY <2>1, Least
  <2>3. j \in 2..n /\ j - 1 \in a..n /\ j - 1 \notin Bad /\ j \in Nat
    BY <2>2, <1>6, <1>1
  <2>4. j - 1 = a \/ j - 1 \in (a + 1)..n BY <2>3, <1>6
  <2>5. text[j - 1] \in {"advice", "row", "rule"} BY <2>3, <2>4, <1>7
  <2>6. <<text[j - 1], text[j]>> \in Format BY <2>3, <1>1
  <2>7. text[j] \in {"row", "rule"} BY <2>5, <2>6, FormatPairs
  <2> QED BY <2>2, <2>7
<1>9. \A j \in 1..a : text[j] \notin {"row", "rule"}
  <2> SUFFICES ASSUME NEW j \in 1..a, text[j] \in {"row", "rule"} PROVE FALSE
    OBVIOUS
  <2>1. j \in Rows BY <1>6, <1>1
  <2>2. p <= j BY <2>1, <1>4
  <2>3. p = a + 1 BY <1>5, <1>1 DEF a
  <2> QED BY <2>2, <2>3, <1>6
<1>10. ASSUME NEW j \in 1..n, text[j] = "advice" PROVE j = a
  <2>1. ~(j > a) BY <1>8, <1>10, <1>6, <1>1
  <2>2. CASE j < a
    <3>1. j + 1 \in 2..n /\ j + 1 \in 1..a /\ j + 1 - 1 = j BY <2>2, <1>6, <1>1
    <3>2. <<text[j], text[j + 1]>> \in Format BY <3>1, <1>1
    <3>3. text[j + 1] = "row" BY <3>2, <1>10, FormatPairs
    <3> QED BY <3>1, <3>3, <1>9
  <2> QED BY <2>1, <2>2, <1>6, <1>1
<1>11. \A j \in 1..n : j > a <=> text[j] \in {"row", "rule"}
  <2> SUFFICES ASSUME NEW j \in 1..n PROVE j > a <=> text[j] \in {"row", "rule"}
    OBVIOUS
  <2>1. j \in (a + 1)..n \/ j \in 1..a BY <1>6, <1>1
  <2>2. CASE j \in (a + 1)..n BY <2>2, <1>8, <1>6, <1>1
  <2>3. CASE j \in 1..a BY <2>3, <1>9, <1>6, <1>1
  <2> QED BY <2>1, <2>2, <2>3
<1>12. a + 1 \in 1..n /\ a + 1 # n
  <2>1. a + 1 \in 1..n BY <1>6, <1>1
  <2>2. a + 1 = n => n - 1 = a BY <1>6, <1>1
  <2> QED BY <2>1, <2>2, <1>2, <1>7
<1>13. a + 2 \in 1..n /\ text[a + 2] = "rule"
  <2> DEFINE b == a + 2
  <2>1. b \in 1..n /\ b > 2 /\ b - 2 = a BY <1>12, <1>6, <1>1
  <2> HIDE DEF b
  <2>2. text[b] = "rule" BY <2>1, <1>2, <1>7
  <2> QED BY <2>1, <2>2 DEF b
<1>14. a + 2 # n BY <1>13, <1>2
<1>15. a # 7 BY <1>1, <1>7
<1>16. a \in 8..n - 3 BY <1>6, <1>12, <1>13, <1>14, <1>15, <1>1
<1>17. ASSUME NEW j \in 1..n, text[j] = "rule" PROVE j = a + 2
  <2>1. j > 2 /\ text[j - 2] = "advice" BY <1>2, <1>17
  <2>2. j - 2 \in 1..n BY <2>1, <1>1
  <2>3. j - 2 = a BY <2>1, <2>2, <1>10
  <2> QED BY <2>3, <2>2, <1>6, <1>1
<1> QED BY <1>7, <1>10, <1>11, <1>13, <1>16, <1>17 DEF n

LEMMA WellFormedParts ==
    ASSUME NEW text \in Seq(Kind), WellFormed(text)
    PROVE  \E a : Parts(text, a)
<1> DEFINE n == Len(text)
<1>1. /\ n \in Nat /\ n > 7 /\ \A j \in 2..n : <<text[j - 1], text[j]>> \in Format
      /\ text[1] = "title" /\ text[2] = "overview" /\ text[3] = "plain"
      /\ text[4] = "levels" /\ text[5] = "bullet" /\ text[6] = "details"
      /\ text[7] = "group"
  BY FirstLines
<1>2. PICK a \in 8..n - 3 :
        /\ text[a] = "advice"
        /\ \A j \in 1..n : /\ text[j] = "advice" => j = a
                           /\ j > a <=> text[j] \in {"row", "rule"}
                           /\ j = a + 2 <=> text[j] = "rule"
  BY TablePlace
<1> HIDE DEF n
<1>4. ASSUME NEW j \in 1..n, j # 1
      PROVE  /\ j - 1 \in 1..n /\ j \in Nat /\ <<text[j - 1], text[j]>> \in Format
             /\ text[j] \notin {"title", "subsection"}
  <2>1. j \in 2..n BY <1>4, <1>1
  <2>2. j - 1 \in 1..n /\ j \in Nat BY <2>1, <1>1
  <2>3. <<text[j - 1], text[j]>> \in Format BY <2>1, <1>1
  <2>4. text[j] \notin {"title", "subsection"} BY <2>3, FormatPairs
  <2> QED BY <2>2, <2>3, <2>4
<1>5. \A j \in 1..n : text[j] = "title" => j = 1 BY <1>4
<1>6. ASSUME NEW j \in 1..n, text[j] = "overview" PROVE j = 2
  <2>1. j # 1 BY <1>1, <1>6
  <2>2. <<text[j - 1], text[j]>> \in Format /\ j - 1 \in 1..n /\ j \in Nat
    BY <2>1, <1>4
  <2>3. text[j - 1] = "title" BY <2>2, <1>6, FormatPairs
  <2>4. j - 1 = 1 BY <2>2, <2>3, <1>5
  <2> QED BY <2>2, <2>4
<1>7. ASSUME NEW j \in 1..n, text[j] = "plain" PROVE j = 3
  <2>1. j # 1 BY <1>1, <1>7
  <2>2. <<text[j - 1], text[j]>> \in Format /\ j - 1 \in 1..n /\ j \in Nat
    BY <2>1, <1>4
  <2>3. text[j - 1] = "overview" BY <2>2, <1>7, FormatPairs
  <2>4. j - 1 = 2 BY <2>2, <2>3, <1>6
  <2> QED BY <2>2, <2>4
<1>8. ASSUME NEW j \in 1..n, text[j] = "levels" PROVE j = 4
  <2>1. j # 1 BY <1>1, <1>8
  <2>2. <<text[j - 1], text[j]>> \in Format /\ j - 1 \in 1..n /\ j \in Nat
    BY <2>1, <1>4
  <2>3. text[j - 1] = "plain" BY <2>2, <1>8, FormatPairs
  <2>4. j - 1 = 3 BY <2>2, <2>3, <1>7
  <2> QED BY <2>2, <2>4
<1>9. ASSUME NEW j \in 1..n, text[j] = "bullet" PROVE j = 5
  <2>1. j # 1 BY <1>1, <1>9
  <2>2. <<text[j - 1], text[j]>> \in Format /\ j - 1 \in 1..n /\ j \in Nat
    BY <2>1, <1>4
  <2>3. text[j - 1] = "levels" BY <2>2, <1>9, FormatPairs
  <2>4. j - 1 = 4 BY <2>2, <2>3, <1>8
  <2> QED BY <2>2, <2>4
<1>10. ASSUME NEW j \in 1..n, text[j] = "details" PROVE j = 6
  <2>1. j # 1 BY <1>1, <1>10
  <2>2. <<text[j - 1], text[j]>> \in Format /\ j - 1 \in 1..n /\ j \in Nat
    BY <2>1, <1>4
  <2>3. text[j - 1] = "bullet" BY <2>2, <1>10, FormatPairs
  <2>4. j - 1 = 5 BY <2>2, <2>3, <1>9
  <2> QED BY <2>2, <2>4
<1>11. \A j \in 1..n : j \in {1, 3, 5} <=> text[j] \in {"title", "plain", "bullet"}
  BY <1>1, <1>5, <1>7, <1>9
<1>12. \A j \in 1..n : text[j] # "subsection" BY <1>1, <1>4
<1>13. \A j \in 1..n : j \in {2, 4, 6, a} <=> text[j] \in Heading
  BY <1>1, <1>2, <1>6, <1>8, <1>10, <1>12 DEF Heading
<1>14. ASSUME NEW j \in 8..a - 1
       PROVE  /\ text[j] = "none" => text[j - 1] = "group"
              /\ text[j - 1] = "none" => text[j] = "group"
              /\ text[j] = "sql" => text[j - 1] = "entry"
              /\ text[j] = "risk" => text[j - 1] = "sql"
  <2>1. j \in 1..n /\ j # 1 /\ j # a BY <1>1, <1>2
  <2>2. <<text[j - 1], text[j]>> \in Format BY <2>1, <1>4
  <2>3. text[j] # "advice" BY <2>1, <1>2
  <2> QED BY <2>2, <2>3, FormatPairs
<1> QED
  BY <1>1, <1>2, <1>5, <1>7, <1>9, <1>11, <1>13, <1>14 DEF Parts, n

LEMMA SectionIs ==
    ASSUME NEW text \in Seq(Kind), NEW name \in Heading,
           NEW m \in 1..Len(text), text[m] = name,
           \A j \in 1..Len(text) : text[j] = name => j = m,
           NEW x \in 1..Len(text), text[x] \notin Heading, m < x,
           \A j \in 1..Len(text) : text[j] \in Heading /\ j < x => j <= m
    PROVE  x \in Section(text, name)
<1> DEFINE n == Len(text)
           named == Lines(text, {name})
           H == Lines(text, Heading)
<1>1. n \in Nat /\ DOMAIN text = 1..n /\ H \in SUBSET (1..n) BY LinesFacts
<1>2. named = {m} BY <1>1 DEF Lines
<1>3. Max({m}) = m
  <2>1. m \in Nat BY <1>1
  <2> QED BY <2>1 DEF Max
<1>4. H = {j \in 1..n : text[j] \in Heading} BY <1>1 DEF Lines
<1>5. Section(text, name) = Under(1..n, m, H)
  BY <1>1, <1>2, <1>3 DEF Section
<1> HIDE DEF H
<1>6. m \in H /\ x \in (1..n) \ H /\ x \in Nat BY <1>1, <1>4
<1>7. \A j \in H : j < x => j <= m BY <1>4
<1>8. x \in Under(1..n, m, H) BY <1>1, <1>6, <1>7, UnderIs
<1> QED BY <1>5, <1>8

\* The sections of a report in the workflow's format.
LEMMA SectionsAre ==
    ASSUME NEW text \in Seq(Kind), NEW a, Parts(text, a)
    PROVE  /\ Len(text) \in Nat /\ a \in Nat
           /\ 3 \in Section(text, "overview") /\ 5 \in Section(text, "levels")
           /\ Section(text, "details") = 7..a - 1
           /\ Section(text, "advice") = (a + 1)..Len(text)
<1> DEFINE n == Len(text)
<1>1. n \in Nat /\ a \in 8..n - 3 /\ a \in Nat BY DEF Parts
<1>2. /\ text[2] = "overview" /\ text[4] = "levels"
      /\ text[6] = "details" /\ text[a] = "advice"
  BY DEF Parts
<1>3. \A j \in 1..n : j \in {2, 4, 6, a} <=> text[j] \in Heading BY DEF Parts
<1>4. {"overview", "levels", "details", "advice"} \subseteq Heading BY DEF Heading
<1>5. \A j \in 1..n : /\ text[j] = "overview" => j = 2
                      /\ text[j] = "levels" => j = 4
                      /\ text[j] = "details" => j = 6
                      /\ text[j] = "advice" => j = a
  <2> SUFFICES ASSUME NEW j \in 1..n,
                      text[j] \in {"overview", "levels", "details", "advice"}
               PROVE  /\ text[j] = "overview" => j = 2
                      /\ text[j] = "levels" => j = 4
                      /\ text[j] = "details" => j = 6
                      /\ text[j] = "advice" => j = a
    OBVIOUS
  <2>1. j \in {2, 4, 6, a} BY <1>3, <1>4
  <2> QED BY <2>1, <1>2
<1> HIDE DEF n
<1>6. 3 \in Section(text, "overview")
  <2>1. 2 \in 1..n /\ 3 \in 1..n /\ 2 < 3 /\ 3 \notin {2, 4, 6, a} BY <1>1
  <2>2. text[3] \notin Heading BY <2>1, <1>3
  <2>3. \A j \in 1..n : text[j] \in Heading /\ j < 3 => j <= 2 BY <1>1
  <2>4. "overview" \in Heading BY <1>4
  <2> QED BY <2>1, <2>2, <2>3, <2>4, <1>2, <1>5, SectionIs DEF n
<1>7. 5 \in Section(text, "levels")
  <2>1. 4 \in 1..n /\ 5 \in 1..n /\ 4 < 5 /\ 5 \notin {2, 4, 6, a} BY <1>1
  <2>2. text[5] \notin Heading BY <2>1, <1>3
  <2>3. \A j \in 1..n : text[j] \in Heading /\ j < 5 => j <= 4 BY <1>1
  <2>4. "levels" \in Heading BY <1>4
  <2> QED BY <2>1, <2>2, <2>3, <2>4, <1>2, <1>5, SectionIs DEF n
<1>8. ASSUME NEW x \in 7..a - 1 PROVE x \in Section(text, "details")
  <2>1. 6 \in 1..n /\ x \in 1..n /\ x \in Nat /\ 6 < x /\ x \notin {2, 4, 6, a} BY <1>1
  <2>2. text[x] \notin Heading BY <2>1, <1>3
  <2>3. \A j \in 1..n : text[j] \in Heading /\ j < x => j <= 6
    <3> SUFFICES ASSUME NEW j \in 1..n, text[j] \in Heading, j < x PROVE j <= 6
      OBVIOUS
    <3>1. j \in {2, 4, 6, a} BY <1>3
    <3>2. x < a BY <1>1
    <3>3. j # a BY <3>2, <2>1, <1>1
    <3> QED BY <3>1, <3>3
  <2>4. "details" \in Heading BY <1>4
  <2> QED BY <2>1, <2>2, <2>3, <2>4, <1>2, <1>5, SectionIs DEF n
<1>9. ASSUME NEW x \in Section(text, "details") PROVE x \in 7..a - 1
  <2>1. PICK m \in Lines(text, {"details"}) :
           m < x /\ x \in 1..n /\ \A j \in (m + 1)..x : text[j] \notin Heading
    BY <1>4, SectionFacts DEF n
  <2>2. m = 6
    <3>1. m \in 1..n /\ text[m] = "details" BY LinesFacts DEF Lines, n
    <3> QED BY <3>1, <1>5
  <2>3. ~(x >= a)
    <3> SUFFICES ASSUME x >= a PROVE FALSE OBVIOUS
    <3>1. a \in (m + 1)..x BY <2>1, <2>2, <1>1
    <3>2. "advice" \in Heading BY <1>4
    <3> QED BY <3>1, <3>2, <2>1, <1>2
  <2> QED BY <2>1, <2>2, <2>3, <1>1
<1>10. ASSUME NEW x \in (a + 1)..n PROVE x \in Section(text, "advice")
  <2>1. a \in 1..n /\ x \in 1..n /\ x \in Nat /\ a < x /\ x \notin {2, 4, 6, a} BY <1>1
  <2>2. text[x] \notin Heading BY <2>1, <1>3
  <2>3. \A j \in 1..n : text[j] \in Heading /\ j < x => j <= a
    <3> SUFFICES ASSUME NEW j \in 1..n, text[j] \in Heading, j < x PROVE j <= a
      OBVIOUS
    <3>1. j \in {2, 4, 6, a} BY <1>3
    <3> QED BY <3>1, <1>1
  <2>4. "advice" \in Heading BY <1>4
  <2> QED BY <2>1, <2>2, <2>3, <2>4, <1>2, <1>5, SectionIs DEF n
<1>11. ASSUME NEW x \in Section(text, "advice") PROVE x \in (a + 1)..n
  <2>1. PICK m \in Lines(text, {"advice"}) : m < x /\ x \in 1..n
    BY <1>4, SectionFacts DEF n
  <2>2. m = a
    <3>1. m \in 1..n /\ text[m] = "advice" BY LinesFacts DEF Lines, n
    <3> QED BY <3>1, <1>5
  <2> QED BY <2>1, <2>2, <1>1
<1> QED BY <1>1, <1>6, <1>7, <1>8, <1>9, <1>10, <1>11 DEF n

\* Of its table every line but the one under the header is shown.
LEMMA RowsShown ==
    ASSUME NEW text \in Seq(Kind), NEW a, Parts(text, a),
           NEW x \in 1..Len(text), text[x] = "row"
    PROVE  x \in TableShown(text)
<1> DEFINE n == Len(text)
           table == Section(text, "advice") \cap Lines(text, {"row", "rule"})
           body == table \ {Min(table)}
<1>1. n \in Nat /\ a \in 8..n - 3 /\ a \in Nat BY DEF Parts
<1>2. \A j \in 1..n : /\ j > a <=> text[j] \in {"row", "rule"}
                      /\ j = a + 2 <=> text[j] = "rule"
  BY DEF Parts
<1>3. table = (a + 1)..n
  <2>1. Section(text, "advice") = (a + 1)..n BY SectionsAre
  <2>2. \A j \in (a + 1)..n : j \in 1..n /\ text[j] \in {"row", "rule"} BY <1>1, <1>2
  <2>3. (a + 1)..n \subseteq Lines(text, {"row", "rule"})
    BY <2>2, LinesFacts DEF Lines
  <2> QED BY <2>1, <2>3
<1> HIDE DEF n, table
<1>4. Min(table) = a + 1
  <2>1. table \in SUBSET Nat /\ a + 1 \in table /\ \A j \in table : a + 1 <= j
    BY <1>1, <1>3
  <2> QED BY <2>1, MinIs
<1>5. body = (a + 2)..n BY <1>1, <1>3, <1>4
<1> HIDE DEF body
<1>6. Min(body) = a + 2
  <2>1. body \in SUBSET Nat /\ a + 2 \in body /\ \A j \in body : a + 2 <= j
    BY <1>1, <1>5
  <2> QED BY <2>1, MinIs
<1>7. ~(Cardinality(table) < 3)
  <2>1. a + 1 \in Int /\ n \in Int BY <1>1
  <2>2. Cardinality((a + 1)..n) = IF a + 1 > n THEN 0 ELSE n - (a + 1) + 1
    BY <2>1, FS_Interval
  <2> QED BY <2>2, <1>1, <1>3
<1>8. x \in table \ {Min(body)}
  <2>1. x > a /\ x # a + 2 BY <1>2 DEF n
  <2>2. x \in (a + 1)..n BY <2>1, <1>1 DEF n
  <2> QED BY <2>1, <2>2, <1>3, <1>6
<1> QED BY <1>7, <1>8 DEF TableShown, table, body

\* The group a line of the details stands under.
LEMMA GroupAbove ==
    ASSUME NEW text \in Seq(Kind), NEW a, Parts(text, a),
           NEW x \in 8..a - 1, text[x] # "group"
    PROVE  \E g \in DetailHeads(text) :
             /\ g < x /\ x \in GroupLines(text, g)
             /\ \A h \in DetailHeads(text) : h < x => h <= g
<1> DEFINE D == Section(text, "details")
           heads == DetailHeads(text)
           g == Above(x, heads)
<1>1. Len(text) \in Nat /\ a \in Nat /\ a < Len(text) BY DEF Parts
<1>2. D = 7..a - 1 BY SectionsAre
<1>3. heads \in SUBSET (1..Len(text)) BY DetailFacts
<1>4. heads = {h \in 7..a - 1 : text[h] = "group"}
  BY <1>1, <1>2, LinesFacts DEF DetailHeads, Lines
<1>5. 7 \in heads /\ 7 < x /\ x \in Nat BY <1>1, <1>4 DEF Parts
<1>6. x \in D \ heads BY <1>1, <1>2, <1>4
<1> HIDE DEF heads
<1>7. /\ g \in Nat /\ 7 <= g /\ \A h \in heads : h < x => h <= g
      /\ g # 0 => g \in heads /\ g < x
  BY <1>1, <1>3, <1>5, AboveFacts
<1>8. x \in Under(D, g, heads) BY <1>6 DEF Under
<1> QED BY <1>7, <1>8 DEF GroupLines, heads

\* Only the line after a group's heading says that the group is empty.
LEMMA NoneFollowsGroup ==
    ASSUME NEW text \in Seq(Kind), NEW a, Parts(text, a),
           NEW g \in DetailHeads(text), NEW y \in Says(text, GroupLines(text, g))
    PROVE  y = g + 1 /\ g \in Nat /\ y \in 8..a - 1
<1> DEFINE heads == DetailHeads(text)
<1>1. Len(text) \in Nat /\ a \in Nat /\ a < Len(text) /\ a >= 8 BY DEF Parts
<1>2. Section(text, "details") = 7..a - 1 BY SectionsAre
<1>3. heads \in SUBSET (1..Len(text)) /\ heads = {h \in 7..a - 1 : text[h] = "group"}
  BY <1>1, <1>2, LinesFacts, DetailFacts DEF DetailHeads, Lines
<1>4. y \in Under(7..a - 1, g, heads) /\ text[y] = "none"
  BY <1>2 DEF Says, GroupLines, Lines
<1>5. y \in 7..a - 1 BY <1>4 DEF Under
<1>6. y \in 8..a - 1 BY <1>1, <1>4, <1>5 DEF Parts
<1>7. text[y - 1] = "group" BY <1>4, <1>6 DEF Parts
<1>8. y - 1 \in heads /\ y - 1 < y /\ y \in Nat BY <1>1, <1>3, <1>6, <1>7
<1> HIDE DEF heads
<1>9. g \in heads BY DEF heads
<1>10. g < y /\ \A h \in heads : h < y => h <= g
  <2>1. y \in Nat /\ Len(text) \in Nat /\ heads \in SUBSET (1..Len(text))
    BY <1>1, <1>3, <1>8
  <2>2. Above(y, heads) = g BY <1>4 DEF Under
  <2>3. /\ \A h \in heads : h < y => h <= Above(y, heads)
        /\ Above(y, heads) # 0 => Above(y, heads) < y
    BY <2>1, AboveFacts
  <2>4. g # 0 BY <2>1, <1>9
  <2> QED BY <2>2, <2>3, <2>4
<1>11. g \in Nat BY <1>1, <1>3, <1>9
<1>12. y - 1 <= g BY <1>8, <1>10
<1> QED BY <1>6, <1>8, <1>10, <1>11, <1>12

LEMMA NoneShown ==
    ASSUME NEW text \in Seq(Kind), NEW a, Parts(text, a),
           NEW x \in 8..a - 1, text[x] = "none"
    PROVE  x \in GroupsShown(text)
<1>1. PICK g \in DetailHeads(text) : x \in GroupLines(text, g)
  BY GroupAbove
<1>2. Len(text) \in Nat /\ a \in Nat /\ a < Len(text) BY DEF Parts
<1>3. x \in Says(text, GroupLines(text, g))
  BY <1>1, <1>2, LinesFacts DEF Says, Lines
<1>4. Says(text, GroupLines(text, g)) = {x} /\ x \in Nat
  <2>1. \A y \in Says(text, GroupLines(text, g)) : y = g + 1 BY NoneFollowsGroup
  <2> DEFINE S == Says(text, GroupLines(text, g))
  <2>2. \A y \in S : y = x BY <2>1, <1>3
  <2> HIDE DEF S
  <2>3. S = {x} BY <2>2, <1>3 DEF S
  <2> QED BY <2>3, <1>2 DEF S
<1>5. Min({x}) = x BY <1>4, MinIs
<1>6. g \in DOMAIN Groups(text) /\ Groups(text)[g] = GroupLines(text, g)
  BY GroupsAre
<1> QED BY <1>4, <1>5, <1>6 DEF GroupsShown

\* Every other line of the details belongs to an item, but a group's heading.
LEMMA LinesOfItems ==
    ASSUME NEW text \in Seq(Kind), NEW a, Parts(text, a),
           NEW x \in 8..a - 1, text[x] \notin {"group", "none"}
    PROVE  x \in ItemLines(text)
<1>1. PICK g \in DetailHeads(text) :
        /\ g < x /\ x \in GroupLines(text, g)
        /\ \A h \in DetailHeads(text) : h < x => h <= g
  BY GroupAbove
<1>2. Len(text) \in Nat /\ a \in Nat /\ a < Len(text) /\ x \in Nat BY DEF Parts
<1>3. Says(text, GroupLines(text, g)) = {}
  <2> SUFFICES ASSUME NEW y \in Says(text, GroupLines(text, g)) PROVE FALSE
    OBVIOUS
  <2>1. y = g + 1 /\ g \in Nat /\ y \in 8..a - 1 BY NoneFollowsGroup
  <2>2. text[y] = "none" BY DEF Says, Lines
  <2>3. y < x BY <2>1, <2>2, <1>1, <1>2
  <2> DEFINE z == y + 1
  <2>4. z \in 8..a - 1 /\ z - 1 = y /\ z <= x BY <2>1, <2>3, <1>2
  <2> HIDE DEF z
  <2>5. text[z] = "group" BY <2>2, <2>4 DEF Parts
  <2>6. z < x /\ z \in 7..a - 1 /\ z \in 1..Len(text)
    BY <2>4, <2>5, <1>2
  <2>7. z \in DetailHeads(text)
    BY <2>5, <2>6, SectionsAre, LinesFacts DEF DetailHeads, Lines
  <2>8. z <= g BY <2>6, <2>7, <1>1
  <2> QED BY <2>8, <2>1, <2>4
<1> QED BY <1>1, <1>3 DEF ItemLines, Full

LEMMA EntriesStart ==
    ASSUME NEW text \in Seq(Kind), NEW a, Parts(text, a),
           NEW x \in 8..a - 1, text[x] = "entry"
    PROVE  x \in Starts(text)
<1>1. x \in ItemLines(text) BY LinesOfItems
<1>2. x \in 1..Len(text) BY DEF Parts
<1> QED BY <1>1, <1>2, LinesFacts DEF Starts, Entries, Lines

\* Any other line stands under the start of its item.
LEMMA UnderStart ==
    ASSUME NEW text \in Seq(Kind), NEW a, Parts(text, a),
           NEW x \in 8..a - 1, text[x] \notin {"group", "none", "entry"}
    PROVE  \E s \in Starts(text) : x \in Under(ItemLines(text), s, Starts(text))
<1> DEFINE starts == Starts(text)
           s == Above(x, starts)
<1>1. x \in ItemLines(text) BY LinesOfItems
<1>2. Len(text) \in Nat /\ a \in Nat /\ a < Len(text) /\ x \in Nat BY DEF Parts
<1>3. PICK g \in Full(text) : g < x /\ \A j \in (g + 1)..x : j \in ItemLines(text)
  BY <1>1, LinesConvex
<1>4. g \in Nat
  <2>1. g \in 1..Len(text) BY DetailFacts DEF Full
  <2> QED BY <2>1, <1>2
<1>5. starts \in SUBSET (1..Len(text)) /\ starts \subseteq Lines(text, {"group", "entry"})
  BY DetailFacts
<1>6. x \notin starts BY <1>5 DEF Lines
<1>7. \E k \in starts : k < x
  <2>1. g + 1 \in ItemLines(text) BY <1>3, <1>4, <1>2
  <2>2. CASE g + 1 \in Entries(text)
    <3>1. g + 1 \in starts BY <2>2 DEF Starts
    <3>2. g + 1 # x BY <3>1, <1>6
    <3>3. g + 1 < x BY <3>2, <1>2, <1>3, <1>4
    <3> QED BY <3>1, <3>3
  <2>3. CASE g + 1 \notin Entries(text)
    <3>1. g \in starts BY <2>1, <2>3 DEF Starts
    <3> QED BY <3>1, <1>3
  <2> QED BY <2>2, <2>3
<1> HIDE DEF starts
<1>8. PICK k \in starts : k < x BY <1>7
<1>9. /\ s \in Nat /\ k <= s
      /\ s # 0 => s \in starts
  BY <1>2, <1>5, <1>8, AboveFacts
<1>10. k # 0 /\ k \in Nat BY <1>2, <1>5, <1>8
<1>11. s \in starts
  <2> HIDE DEF s
  <2> QED BY <1>9, <1>10
<1>12. x \in Under(ItemLines(text), s, starts) BY <1>1, <1>6 DEF Under
<1> HIDE DEF s
<1> QED BY <1>11, <1>12 DEF starts

\* Of an item, a line that is its only one of its kind, and above its points,
\* is the one that its field shows.
LEMMA FieldIs ==
    ASSUME NEW text \in Seq(Kind), NEW body \in SUBSET (1..Len(text)), NEW kind,
           NEW x \in Left(text, body), text[x] = kind,
           \A y \in body : text[y] = kind => y = x
    PROVE  Field(text, body, kind) = x /\ x # 0
<1>1. Len(text) \in Nat /\ DOMAIN text = 1..Len(text) BY LinesFacts
<1>2. Left(text, body) \subseteq body BY DEF Left
<1>3. Left(text, body) \cap Lines(text, {kind}) = {x} BY <1>1, <1>2 DEF Lines
<1>4. x \in 1..Len(text) /\ x \in Nat /\ x # 0
  <2>1. x \in body BY <1>2
  <2>2. x \in 1..Len(text) BY <2>1
  <2> QED BY <2>2, <1>1
<1>5. Latest({x}) = x
  <2>1. {x} \in SUBSET (1..Len(text)) BY <1>4
  <2>2. Latest({x}) \in Nat /\ x <= Latest({x}) /\ (Latest({x}) # 0 => Latest({x}) \in {x})
    BY <1>1, <2>1, LatestFacts
  <2> QED BY <2>2, <1>4
<1> QED BY <1>3, <1>4, <1>5 DEF Field

\* What an item shows is shown with its group.
LEMMA ItemShown ==
    ASSUME NEW text, NEW s \in Starts(text),
           NEW x \in Item(text, Under(ItemLines(text), s, Starts(text)))
    PROVE  x \in GroupsShown(text)
<1>1. /\ s \in DOMAIN Items(text)
      /\ Items(text)[s] = Under(ItemLines(text), s, Starts(text))
  BY ItemsAre
<1> QED BY <1>1 DEF GroupsShown

\* A line under the start of an item, when no point is between them.
LEMMA AbovePoints ==
    ASSUME NEW text \in Seq(Kind), NEW s \in Starts(text),
           NEW x \in Under(ItemLines(text), s, Starts(text)),
           \A j \in (s + 1)..x - 1 : text[j] # "point"
    PROVE  x \in Left(text, Under(ItemLines(text), s, Starts(text)))
<1> DEFINE body == Under(ItemLines(text), s, Starts(text))
           points == body \cap Lines(text, {"point"})
<1>1. Len(text) \in Nat /\ points \in SUBSET (1..Len(text)) BY LinesFacts
<1>2. \A y \in body : y \in 1..Len(text) /\ s \in 1..Len(text) /\ s < y
  BY ItemConvex
<1>3. x \in Nat /\ s \in Nat BY <1>1, <1>2
<1>4. \A p \in points : text[p] = "point" /\ p \in body BY DEF Lines
<1> HIDE DEF points, body
<1>5. /\ Above(x, points) \in Nat
      /\ Above(x, points) # 0 => Above(x, points) \in points /\ Above(x, points) < x
  BY <1>1, <1>3, AboveFacts
<1>6. ~ \E p \in points : p < x
  <2> SUFFICES ASSUME NEW p \in points, p < x PROVE FALSE OBVIOUS
  <2>1. text[p] = "point" /\ p \in 1..Len(text) /\ s < p BY <1>2, <1>4
  <2>2. p \in (s + 1)..x - 1 BY <2>1, <1>1, <1>3
  <2> QED BY <2>1, <2>2
<1>7. Above(x, points) = 0 BY <1>5, <1>6
<1>8. x \in body BY DEF body
<1> QED BY <1>7, <1>8 DEF Left, points, body

LEMMA SqlShown ==
    ASSUME NEW text \in Seq(Kind), NEW a, Parts(text, a),
           NEW x \in 8..a - 1, text[x] = "sql"
    PROVE  x \in GroupsShown(text)
<1>1. Len(text) \in Nat /\ a \in Nat /\ a < Len(text) /\ x \in Nat BY DEF Parts
<1>2. \A j \in 8..a - 1 : text[j] = "sql" => text[j - 1] = "entry" BY DEF Parts
<1>3. text[7] = "group" BY DEF Parts
<1>4. x - 1 \in 8..a - 1 BY <1>1, <1>2, <1>3
<1>5. x - 1 \in Starts(text) BY <1>2, <1>4, EntriesStart
<1>6. PICK s \in Starts(text) : x \in Under(ItemLines(text), s, Starts(text))
  BY UnderStart
<1> DEFINE body == Under(ItemLines(text), s, Starts(text))
<1>7. \A y \in body : /\ y \in 1..Len(text) /\ s \in 1..Len(text) /\ s < y
                      /\ \A j \in (s + 1)..y : text[j] # "entry"
  BY ItemConvex
<1>8. body \subseteq 7..a - 1
  <2>1. body \subseteq ItemLines(text) BY DEF Under
  <2> QED BY <2>1, DetailFacts, SectionsAre
<1>9. text[s] \in {"group", "entry"} BY DetailFacts DEF Lines
<1> HIDE DEF body
<1>10. ASSUME NEW y \in body, text[y] = "sql" PROVE y - 1 = s /\ y \in Nat /\ s \in Nat
  <2>1. y \in Nat /\ s \in Nat /\ s < y BY <1>1, <1>7
  <2>2. y \in 8..a - 1 BY <1>1, <1>3, <1>8, <1>10
  <2>3. text[y - 1] = "entry" BY <2>2, <1>2, <1>10
  <2>4. y - 1 \notin (s + 1)..y BY <2>3, <1>7
  <2> QED BY <2>1, <2>4
<1>11. x \in body BY <1>6 DEF body
<1>12. x - 1 = s /\ s \in Nat BY <1>10, <1>11
<1>13. \A y \in body : text[y] = "sql" => y = x
  <2> SUFFICES ASSUME NEW y \in body, text[y] = "sql" PROVE y = x OBVIOUS
  <2>1. y - 1 = s /\ y \in Nat BY <1>10
  <2> QED BY <2>1, <1>1, <1>12
<1>14. x \in Left(text, body)
  <2>1. \A j \in (s + 1)..x - 1 : text[j] # "point" BY <1>1, <1>12
  <2> QED BY <2>1, <1>6, AbovePoints DEF body
<1>15. body \in SUBSET (1..Len(text)) BY <1>7
<1>16. Field(text, body, "sql") = x /\ x # 0 BY <1>13, <1>14, <1>15, FieldIs
<1>17. x \in Item(text, body) BY <1>16 DEF Item
<1> QED BY <1>17, ItemShown DEF body

LEMMA RiskShown ==
    ASSUME NEW text \in Seq(Kind), NEW a, Parts(text, a),
           NEW x \in 8..a - 1, text[x] = "risk"
    PROVE  x \in GroupsShown(text)
<1>1. Len(text) \in Nat /\ a \in Nat /\ a < Len(text) /\ x \in Nat BY DEF Parts
<1>2. \A j \in 8..a - 1 : /\ text[j] = "sql" => text[j - 1] = "entry"
                          /\ text[j] = "risk" => text[j - 1] = "sql"
  BY DEF Parts
<1>3. text[7] = "group" BY DEF Parts
<1>6. PICK s \in Starts(text) : x \in Under(ItemLines(text), s, Starts(text))
  BY UnderStart
<1> DEFINE body == Under(ItemLines(text), s, Starts(text))
<1>7. \A y \in body : /\ y \in 1..Len(text) /\ s \in 1..Len(text) /\ s < y
                      /\ \A j \in (s + 1)..y : text[j] # "entry"
  BY ItemConvex
<1>8. body \subseteq 7..a - 1
  <2>1. body \subseteq ItemLines(text) BY DEF Under
  <2> QED BY <2>1, DetailFacts, SectionsAre
<1>9. text[s] \in {"group", "entry"} BY DetailFacts DEF Lines
<1> HIDE DEF body
<1>10. ASSUME NEW y \in body, text[y] = "risk"
       PROVE  /\ y - 2 = s /\ y \in Nat /\ s \in Nat /\ text[y - 1] = "sql"
  <2>1. y \in Nat /\ s \in Nat /\ s < y BY <1>1, <1>7
  <2>2. y \in 8..a - 1 BY <1>1, <1>3, <1>8, <1>10
  <2> DEFINE q == y - 1
  <2>3. text[q] = "sql" BY <2>2, <1>2, <1>10
  <2>4. q \in 7..a - 1 BY <2>2, <1>1
  <2> HIDE DEF q
  <2>5. q \in 8..a - 1 BY <2>3, <2>4, <1>1, <1>3
  <2>6. text[q - 1] = "entry" BY <2>3, <2>5, <1>2
  <2>7. q - 1 \notin (s + 1)..y BY <2>6, <1>7
  <2>8. q # s BY <2>3, <1>9
  <2>9. y - 2 = s BY <2>1, <2>7, <2>8 DEF q
  <2> QED BY <2>1, <2>3, <2>9 DEF q
<1>11. x \in body BY <1>6 DEF body
<1>12. x - 2 = s /\ s \in Nat /\ text[x - 1] = "sql" BY <1>10, <1>11
<1>13. \A y \in body : text[y] = "risk" => y = x
  <2> SUFFICES ASSUME NEW y \in body, text[y] = "risk" PROVE y = x OBVIOUS
  <2>1. y - 2 = s /\ y \in Nat BY <1>10
  <2> QED BY <2>1, <1>1, <1>12
<1>14. x \in Left(text, body)
  <2>1. \A j \in (s + 1)..x - 1 : j = x - 1 BY <1>1, <1>12
  <2>2. \A j \in (s + 1)..x - 1 : text[j] # "point" BY <2>1, <1>12
  <2> QED BY <2>2, <1>6, AbovePoints DEF body
<1>15. body \in SUBSET (1..Len(text)) BY <1>7
<1>16. Field(text, body, "risk") = x /\ x # 0 BY <1>13, <1>14, <1>15, FieldIs
<1>17. x \in Item(text, body) BY <1>16 DEF Item
<1> QED BY <1>17, ItemShown DEF body

LEMMA PointShown ==
    ASSUME NEW text \in Seq(Kind), NEW a, Parts(text, a),
           NEW x \in 8..a - 1, text[x] = "point"
    PROVE  x \in GroupsShown(text)
<1>1. PICK s \in Starts(text) : x \in Under(ItemLines(text), s, Starts(text))
  BY UnderStart
<1>2. x \notin Lines(text, {"sql", "risk", "result"}) BY DEF Lines
<1>3. x \in Item(text, Under(ItemLines(text), s, Starts(text)))
  BY <1>1, <1>2 DEF Item
<1> QED BY <1>3, ItemShown

LEMMA ShownWhole ==
    ASSUME NEW text \in Seq(Kind), WellFormed(text),
           NEW x \in DOMAIN text \ Lines(text, Heading \cup {"result", "rule"})
    PROVE  x \in Shown(text)
<1>1. PICK a : Parts(text, a) BY WellFormedParts
<1> DEFINE n == Len(text)
<1>2. n \in Nat /\ a \in Nat /\ a < n /\ a >= 8 /\ x \in 1..n /\ x \in Nat
  BY <1>1, LinesFacts DEF Parts
<1>3. text[x] \in Kind /\ text[x] \notin Heading \cup {"result", "rule"}
  BY <1>2, ElementOfSeq DEF Lines
<1>4. Structured(text)
  <2>1. 2 \in 1..n /\ text[2] \in Heading BY <1>1, <1>2 DEF Parts, Heading
  <2>2. 2 \in Lines(text, Heading) BY <2>1, LinesFacts DEF Lines
  <2> QED BY <2>2 DEF Structured
<1>5. x \in Lines(text, {text[x]}) BY <1>2, LinesFacts DEF Lines
<1>6. CASE text[x] = "title"
  <2> DEFINE titles == Lines(text, {"title"})
  <2>1. x = 1 /\ \A j \in titles : j = 1
    BY <1>1, <1>2, <1>6, LinesFacts DEF Parts, Lines
  <2>2. titles \in SUBSET (1..n) BY LinesFacts
  <2> HIDE DEF titles
  <2>3. Above(x, titles) # 0 => Above(x, titles) \in titles /\ Above(x, titles) < x
    BY <1>2, <2>2, AboveFacts
  <2>4. Above(x, titles) = 0 BY <2>1, <2>3
  <2> QED BY <2>4, <1>4, <1>5, <1>6 DEF Shown, titles
<1>7. CASE text[x] = "plain"
  <2>1. x = 3 BY <1>1, <1>2, <1>7 DEF Parts
  <2> QED BY <2>1, <1>1, <1>4, SectionsAre DEF Shown
<1>8. CASE text[x] = "bullet"
  <2>1. x = 5 BY <1>1, <1>2, <1>8 DEF Parts
  <2>2. x \in Lines(text, {"sql", "risk", "result", "bullet"})
    BY <1>2, <1>8, LinesFacts DEF Lines
  <2>3. x \in Section(text, "levels") BY <2>1, <1>1, SectionsAre
  <2> QED BY <2>2, <2>3, <1>4 DEF Shown
<1>9. CASE text[x] = "row"
  <2>1. x \in TableShown(text) BY <1>1, <1>2, <1>9, RowsShown
  <2> QED BY <2>1, <1>4 DEF Shown
<1>10. CASE text[x] \in {"group", "none", "entry", "sql", "risk", "point"}
  <2>1. x \notin {1, 2, 3, 4, 5, 6, a} /\ ~(x > a)
    <3>1. /\ x \in {1, 3, 5} <=> text[x] \in {"title", "plain", "bullet"}
          /\ x \in {2, 4, 6, a} <=> text[x] \in Heading
          /\ x > a <=> text[x] \in {"row", "rule"}
      BY <1>1, <1>2 DEF Parts
    <3>2. text[x] \notin {"title", "plain", "bullet", "row", "rule"} BY <1>10
    <3> QED BY <3>1, <3>2, <1>3
  <2>2. x \in 7..a - 1 BY <2>1, <1>2
  <2>3. x \in GroupsShown(text)
    <3>1. CASE text[x] = "group"
      <4>1. x \in DetailHeads(text)
        BY <2>2, <3>1, <1>1, <1>5, SectionsAre DEF DetailHeads
      <4> QED BY <4>1, GroupsAre DEF GroupsShown
    <3>2. CASE text[x] # "group"
      <4>1. x \in 8..a - 1
        <5>1. text[7] = "group" BY <1>1 DEF Parts
        <5> QED BY <5>1, <2>2, <3>2, <1>2
      <4>2. CASE text[x] = "entry"
        <5>1. x \in DOMAIN Items(text) BY <4>1, <4>2, <1>1, EntriesStart, ItemsAre
        <5> QED BY <5>1 DEF GroupsShown
      <4> QED
        BY <4>1, <4>2, <3>2, <1>1, <1>10, NoneShown, SqlShown, RiskShown, PointShown
    <3> QED BY <3>1, <3>2
  <2> QED BY <2>3, <1>4 DEF Shown
<1> QED BY <1>3, <1>6, <1>7, <1>8, <1>9, <1>10 DEF Kind

----------------------------------------------------------------------------
(* Bags.                                                                   *)
LEMMA EmptyBagFacts == IsABag(EmptyBag) /\ BagToSet(EmptyBag) = {}
BY DEF IsABag, EmptyBag, BagToSet, SetToBag

LEMMA AddOne ==
    ASSUME NEW B, IsABag(B), NEW r
    PROVE  /\ IsABag(B (+) SetToBag({r}))
           /\ BagToSet(B (+) SetToBag({r})) = BagToSet(B) \cup {r}
BY DEF IsABag, BagToSet, (+), SetToBag

LEMMA TakeOne ==
    ASSUME NEW B, IsABag(B), NEW r
    PROVE  /\ IsABag(B (-) SetToBag({r}))
           /\ BagToSet(B (-) SetToBag({r})) \subseteq BagToSet(B)
           /\ BagToSet(B) \ {r} \subseteq BagToSet(B (-) SetToBag({r}))
<1> DEFINE C == [e \in DOMAIN B |-> IF e \in {r} THEN B[e] - 1 ELSE B[e]]
           D == {d \in DOMAIN B : C[d] > 0}
<1>1. B (-) SetToBag({r}) = [e \in D |-> C[e]] BY DEF (-), SetToBag
<1>2. B \in [DOMAIN B -> {n \in Nat : n > 0}] BY DEF IsABag
<1>3. \A e \in DOMAIN B : B[e] \in Nat /\ B[e] > 0 BY <1>2
<1>4. \A e \in DOMAIN B : C[e] \in Nat BY <1>3
<1>5. [e \in D |-> C[e]] \in [D -> {n \in Nat : n > 0}] BY <1>4
<1>6. DOMAIN B \ {r} \subseteq D BY <1>3
<1> HIDE DEF C, D
<1>7. D \subseteq DOMAIN B BY DEF D
<1> QED BY <1>1, <1>5, <1>6, <1>7 DEF IsABag, BagToSet

----------------------------------------------------------------------------
(* The page.                                                               *)

\* What is shown is of the address, or the answer that will replace it is on
\* its way, unless a request failed or an answer for another address was shown.
OwnReport ==
    open /\ ~late /\ failures = 0 /\ detail # NoDetail =>
        \/ detail.task = taskId
        \/ \E r \in BagToSet(requests) : r.task = taskId

NotFoundExplained ==
    open /\ detail = NoDetail /\ ~loading => fresh \/ failures > 0

\* A task that ended stays as it was: what a request found ended, and what the
\* page shows of it, is what the server has.
Stored ==
    /\ \A r \in BagToSet(requests) : r.was \in Ended => status[r.task] = r.was
    /\ detail # NoDetail /\ detail.status \in Ended =>
          /\ status[detail.task] = detail.status
          /\ detail = Detail(detail.task, detail.status)

IInv ==
    /\ TypeOK /\ DOMAIN written = Task
    /\ SpinnerHasLoad /\ NotFoundExplained /\ OwnReport /\ Stored

Status == {"pending"} \cup Ended

LEMMA WrittenTyped == ASSUME IInv, NEW t \in Task PROVE written[t] \in Seq(Written)
<1> DEFINE Texts == Seq(Written)
<1>1. <<>> \in Texts BY EmptySeq
<1>2. ReportsOf \in [Task -> SUBSET Texts] BY DetailAssumption
<1>3. written[t] \in ReportsOf[t] \cup {<<>>} BY DEF IInv, TypeOK
<1> HIDE DEF Texts
<1>4. written[t] \in Texts BY <1>1, <1>2, <1>3
<1> QED BY <1>4 DEF Texts

LEMMA DetailTyped ==
    ASSUME IInv, NEW t \in Task, NEW s \in Status
    PROVE  Detail(t, s) \in Reply /\ Detail(t, s).task = t /\ Detail(t, s) # NoDetail
<1>1. Normalize(written[t]) \in Seq(Kind) BY WrittenTyped, NormalizeTyped
<1>2. Detail(t, s) \in Reply BY <1>1 DEF Detail, Reply, Status
<1>3. NoDetail \notin Reply BY DetailAssumption DEF Reply, Ended
<1> QED BY <1>2, <1>3 DEF Detail

LEMMA SendAdds ==
    ASSUME IInv, NEW t \in Task, NEW silent \in BOOLEAN, NEW B, IsABag(B),
           BagToSet(B) \subseteq Request, Send(t, silent, B)
    PROVE  /\ IsABag(requests') /\ BagToSet(requests') \subseteq Request
           /\ BagToSet(B) \subseteq BagToSet(requests')
           /\ \E r \in BagToSet(requests') : r.task = t /\ r.silent = silent
           /\ \A r \in BagToSet(requests') \ BagToSet(B) : r.was = status[r.task]
<1> DEFINE r == [task |-> t, silent |-> silent, was |-> status[t]]
<1>1. r \in Request BY DEF IInv, TypeOK, Request
<1>2. requests' = B (+) SetToBag({r}) BY DEF Send
<1>3. r.task = t /\ r.silent = silent /\ r.was = status[r.task] OBVIOUS
<1> HIDE DEF r
<1>4. IsABag(requests') /\ BagToSet(requests') = BagToSet(B) \cup {r}
  BY <1>2, AddOne
<1> QED BY <1>1, <1>3, <1>4

\* What the server has, what is shown, and what requests found, unless new.
LEMMA StoredRemains ==
    ASSUME IInv, UNCHANGED server, detail' \in {detail, NoDetail},
           \A r \in BagToSet(requests') \ BagToSet(requests) : r.was = status[r.task]
    PROVE  (DOMAIN written = Task)' /\ Stored'
<1>1. UNCHANGED <<status, written>> BY DEF server
<1>2. \A r \in BagToSet(requests') : r.was \in Ended => status'[r.task] = r.was
  BY <1>1 DEF IInv, Stored
<1>3. ASSUME detail' # NoDetail, detail'.status \in Ended
      PROVE  /\ status'[detail'.task] = detail'.status
             /\ detail' = Detail(detail.task, detail.status)'
  <2>1. detail' = detail /\ detail = Detail(detail.task, detail.status)
    BY <1>3 DEF IInv, Stored
  <2>2. Detail(detail.task, detail.status)' = Detail(detail.task, detail.status)
    BY <1>1, <2>1 DEF Detail
  <2>3. status[detail.task] = detail.status BY <1>3, <2>1 DEF IInv, Stored
  <2> QED BY <1>1, <2>1, <2>2, <2>3
<1> QED BY <1>1, <1>2, <1>3 DEF IInv, Stored

LEMMA Initially == Init => IInv
<1> SUFFICES ASSUME Init PROVE IInv OBVIOUS
<1> USE DEF Init
<1>1. 0 \in 0..MaxFailures /\ 0 \in 0..MaxJumps BY DetailAssumption
<1>2. IsABag(requests) /\ BagToSet(requests) \subseteq Request
  BY EmptyBagFacts
<1>3. status \in [Task -> {"pending"} \cup Ended]
  BY DEF Ended
<1>4. TypeOK BY <1>1, <1>2, <1>3 DEF TypeOK
<1> QED
  BY <1>4, EmptyBagFacts
  DEF IInv, SpinnerHasLoad, NotFoundExplained, OwnReport, Stored

LEMMA EndKeeps ==
    ASSUME IInv, NEW t \in Task, NEW s \in Ended, NEW w \in ReportsOf[t] \cup {<<>>},
           End(t, s, w)
    PROVE  IInv'
<1> USE DEF IInv
<1>1. UNCHANGED <<open, fresh, taskId, detail, loading, requests, failures, late,
                jumps>>
  BY DEF End, page, history
<1>2. status' \in [Task -> {"pending"} \cup Ended] BY DEF End, TypeOK
<1>3. \A u \in Task : written'[u] \in ReportsOf[u] \cup {<<>>}
  <2> SUFFICES ASSUME NEW u \in Task
               PROVE  written'[u] \in ReportsOf[u] \cup {<<>>}
    OBVIOUS
  <2>1. written'[u] = IF u = t THEN w ELSE written[u] BY DEF End
  <2> QED BY <2>1 DEF TypeOK
<1>4. TypeOK' BY <1>1, <1>2, <1>3 DEF TypeOK
<1>5. (DOMAIN written = Task)' BY DEF End
<1>6. ASSUME NEW u \in Task, status[u] \in Ended
      PROVE  status'[u] = status[u] /\ written'[u] = written[u]
  <2>1. u # t BY <1>6 DEF End, Ended
  <2> QED BY <2>1 DEF End, TypeOK
<1>7. \A r \in BagToSet(requests') : r.was \in Ended => status'[r.task] = r.was
  <2> SUFFICES ASSUME NEW r \in BagToSet(requests), r.was \in Ended
               PROVE  status'[r.task] = r.was
    BY <1>1
  <2>1. r.task \in Task /\ status[r.task] = r.was BY DEF TypeOK, Request, Stored
  <2> QED BY <1>6, <2>1
<1>8. ASSUME detail # NoDetail, detail.status \in Ended
      PROVE  /\ status'[detail.task] = detail.status
             /\ detail = Detail(detail.task, detail.status)'
  <2>1. detail.task \in Task BY <1>8 DEF TypeOK, Reply
  <2>2. status[detail.task] = detail.status BY <1>8 DEF Stored
  <2>3. detail = Detail(detail.task, detail.status) BY <1>8 DEF Stored
  <2>4. /\ status'[detail.task] = detail.status
        /\ written'[detail.task] = written[detail.task]
    BY <1>6, <1>8, <2>1, <2>2
  <2>5. Detail(detail.task, detail.status)' = Detail(detail.task, detail.status)
    BY <1>1, <2>4 DEF Detail
  <2> QED BY <1>1, <2>3, <2>4, <2>5
<1>9. Stored' BY <1>1, <1>7, <1>8 DEF Stored
<1> QED BY <1>1, <1>4, <1>5, <1>9 DEF SpinnerHasLoad, NotFoundExplained, OwnReport

LEMMA MountKeeps == ASSUME IInv, Mount PROVE IInv'
<1>1. TypeOK' BY EmptyBagFacts DEF TypeOK, Mount, server, history, IInv
<1>2. (DOMAIN written = Task)' /\ Stored' BY EmptyBagFacts, StoredRemains DEF Mount
<1> QED
  BY <1>1, <1>2 DEF Mount, IInv, SpinnerHasLoad, NotFoundExplained, OwnReport

LEMMA LoadFirstKeeps == ASSUME IInv, LoadFirst PROVE IInv'
<1>1. Send(taskId, FALSE, requests) /\ taskId \in Task
  BY DEF LoadFirst, IInv, TypeOK
<1>2. /\ IsABag(requests') /\ BagToSet(requests') \subseteq Request
      /\ \E r \in BagToSet(requests') : r.task = taskId /\ r.silent = FALSE
      /\ \A r \in BagToSet(requests') \ BagToSet(requests) : r.was = status[r.task]
  BY <1>1, SendAdds DEF IInv, TypeOK
<1>3. TypeOK' BY <1>2 DEF TypeOK, LoadFirst, server, history, IInv
<1>4. SpinnerHasLoad' BY <1>2 DEF SpinnerHasLoad
<1>5. OwnReport' BY <1>2 DEF OwnReport, LoadFirst
<1>6. (DOMAIN written = Task)' /\ Stored' BY <1>2, StoredRemains DEF LoadFirst
<1> QED BY <1>3, <1>4, <1>5, <1>6 DEF LoadFirst, IInv, NotFoundExplained

LEMMA JumpKeeps == ASSUME IInv, NEW t \in Task, Jump(t) PROVE IInv'
<1>1. Send(t, FALSE, requests) BY DEF Jump
<1>2. /\ IsABag(requests') /\ BagToSet(requests') \subseteq Request
      /\ \E r \in BagToSet(requests') : r.task = t /\ r.silent = FALSE
      /\ \A r \in BagToSet(requests') \ BagToSet(requests) : r.was = status[r.task]
  BY <1>1, SendAdds DEF IInv, TypeOK
<1>3. jumps' \in 0..MaxJumps
  BY DetailAssumption DEF Jump, IInv, TypeOK
<1>4. TypeOK' BY <1>2, <1>3 DEF TypeOK, Jump, server, IInv
<1>5. SpinnerHasLoad' BY <1>2 DEF SpinnerHasLoad
<1>6. OwnReport' BY <1>2 DEF OwnReport, Jump
<1>7. (DOMAIN written = Task)' /\ Stored' BY <1>2, StoredRemains DEF Jump
<1> QED BY <1>4, <1>5, <1>6, <1>7 DEF Jump, IInv, NotFoundExplained

LEMMA RefreshKeeps == ASSUME IInv, Refresh PROVE IInv'
<1>1. Send(taskId, FALSE, requests) /\ taskId \in Task
  BY DEF Refresh, IInv, TypeOK
<1>2. /\ IsABag(requests') /\ BagToSet(requests') \subseteq Request
      /\ \E r \in BagToSet(requests') : r.task = taskId /\ r.silent = FALSE
      /\ \A r \in BagToSet(requests') \ BagToSet(requests) : r.was = status[r.task]
  BY <1>1, SendAdds DEF IInv, TypeOK
<1>3. TypeOK' BY <1>2 DEF TypeOK, Refresh, server, history, IInv
<1>4. SpinnerHasLoad' BY <1>2 DEF SpinnerHasLoad
<1>5. OwnReport' BY <1>2 DEF OwnReport, Refresh
<1>6. (DOMAIN written = Task)' /\ Stored' BY <1>2, StoredRemains DEF Refresh
<1> QED BY <1>3, <1>4, <1>5, <1>6 DEF Refresh, IInv, NotFoundExplained

LEMMA PollKeeps == ASSUME IInv, Poll PROVE IInv'
<1>1. Send(taskId, TRUE, requests) /\ taskId \in Task
  BY DEF Poll, IInv, TypeOK
<1>2. /\ IsABag(requests') /\ BagToSet(requests') \subseteq Request
      /\ BagToSet(requests) \subseteq BagToSet(requests')
      /\ \A r \in BagToSet(requests') \ BagToSet(requests) : r.was = status[r.task]
  BY <1>1, SendAdds DEF IInv, TypeOK
<1>3. TypeOK' BY <1>2 DEF TypeOK, Poll, server, history, IInv
<1>4. SpinnerHasLoad' BY <1>2 DEF SpinnerHasLoad, Poll, IInv
<1>5. OwnReport' BY <1>2 DEF OwnReport, Poll, IInv, history
<1>6. (DOMAIN written = Task)' /\ Stored' BY <1>2, StoredRemains DEF Poll
<1> QED BY <1>3, <1>4, <1>5, <1>6 DEF Poll, history, IInv, NotFoundExplained

LEMMA UnmountKeeps == ASSUME IInv, Unmount PROVE IInv'
<1>1. TypeOK' BY EmptyBagFacts DEF TypeOK, Unmount, server, history, IInv
<1>2. (DOMAIN written = Task)' /\ Stored' BY EmptyBagFacts, StoredRemains DEF Unmount
<1> QED
  BY <1>1, <1>2
  DEF Unmount, IInv, SpinnerHasLoad, NotFoundExplained, OwnReport

LEMMA SettledKeeps ==
    ASSUME IInv, NEW r \in BagToSet(requests), Settled(r)
    PROVE  /\ IsABag(requests') /\ BagToSet(requests') \subseteq Request
           /\ BagToSet(requests') \subseteq BagToSet(requests)
           /\ loading' \in BOOLEAN /\ SpinnerHasLoad'
<1>1. /\ IsABag(requests') /\ BagToSet(requests') \subseteq BagToSet(requests)
      /\ BagToSet(requests) \ {r} \subseteq BagToSet(requests')
  BY TakeOne DEF Settled, IInv, TypeOK
<1>2. SpinnerHasLoad' BY <1>1 DEF Settled, SpinnerHasLoad, IInv
<1> QED BY <1>1, <1>2 DEF Settled, IInv, TypeOK

LEMMA AnsweredKeeps ==
    ASSUME IInv, NEW r \in BagToSet(requests), Answered(r)
    PROVE  IInv'
<1>1. r.task \in Task /\ r.was \in Status /\ status[r.task] \in Status
  BY DEF IInv, TypeOK, Request, Status
<1>2. detail' \in Reply /\ detail'.task = r.task /\ detail' # NoDetail
  BY <1>1, DetailTyped DEF Answered
<1>3. /\ IsABag(requests') /\ BagToSet(requests') \subseteq Request
      /\ BagToSet(requests') \subseteq BagToSet(requests)
      /\ loading' \in BOOLEAN /\ SpinnerHasLoad'
  BY SettledKeeps DEF Answered
<1>4. TypeOK' BY <1>2, <1>3 DEF IInv, TypeOK, Answered, server
<1>5. OwnReport' BY <1>2 DEF OwnReport, Answered
<1>6. UNCHANGED <<status, written>> BY DEF Answered, server
<1>7. PICK s \in {r.was, status[r.task]} : detail' = Detail(r.task, s) BY DEF Answered
<1>8. detail'.status = s /\ detail'.task = r.task BY <1>7 DEF Detail
<1>9. Detail(r.task, s)' = Detail(r.task, s) BY <1>6 DEF Detail
<1>10. s \in Ended => status[r.task] = s BY DEF IInv, Stored
<1>11. \A q \in BagToSet(requests') : q.was \in Ended => status'[q.task] = q.was
  BY <1>3, <1>6 DEF IInv, Stored
<1>12. Stored' BY <1>6, <1>7, <1>8, <1>9, <1>10, <1>11 DEF Stored
<1> QED BY <1>2, <1>3, <1>4, <1>5, <1>6, <1>12 DEF IInv, NotFoundExplained, Answered

LEMMA FailedKeeps ==
    ASSUME IInv, NEW r \in BagToSet(requests), Failed(r)
    PROVE  IInv'
<1>1. /\ IsABag(requests') /\ BagToSet(requests') \subseteq Request
      /\ BagToSet(requests') \subseteq BagToSet(requests)
      /\ loading' \in BOOLEAN /\ SpinnerHasLoad'
  BY SettledKeeps DEF Failed
<1>2. failures' \in 0..MaxFailures /\ failures' > 0
  BY DetailAssumption DEF IInv, TypeOK, Failed
<1>3. TypeOK' BY <1>1, <1>2 DEF IInv, TypeOK, Failed, server
<1>4. (DOMAIN written = Task)' /\ Stored' BY <1>1, StoredRemains DEF Failed
<1> QED BY <1>1, <1>2, <1>3, <1>4 DEF IInv, NotFoundExplained, OwnReport

LEMMA Steps == IInv /\ [Next]_vars => IInv'
<1> SUFFICES ASSUME IInv, [Next]_vars PROVE IInv' OBVIOUS
<1>1. ASSUME NEW t \in Task, End(t, "failed", <<>>) PROVE IInv'
  BY <1>1, EndKeeps DEF Ended
<1>2. ASSUME NEW t \in Task, NEW w \in ReportsOf[t] \cup {<<>>}, End(t, "completed", w)
      PROVE  IInv'
  BY <1>2, EndKeeps DEF Ended
<1>3. ASSUME NEW t \in Task, Jump(t) PROVE IInv' BY <1>3, JumpKeeps
<1>4. ASSUME NEW t \in Task, Settle(t) PROVE IInv'
  BY <1>4, AnsweredKeeps, FailedKeeps DEF Settle
<1>5. CASE Mount BY <1>5, MountKeeps
<1>10. CASE LoadFirst BY <1>10, LoadFirstKeeps
<1>6. CASE Refresh BY <1>6, RefreshKeeps
<1>7. CASE Poll BY <1>7, PollKeeps
<1>8. CASE Unmount BY <1>8, UnmountKeeps
<1>9. CASE UNCHANGED vars
  <2>1. (DOMAIN written = Task)' /\ Stored' BY <1>9, StoredRemains DEF vars, page
  <2> QED
    BY <1>9, <2>1
    DEF vars, server, page, history, IInv, TypeOK, SpinnerHasLoad,
        NotFoundExplained, OwnReport
<1> QED BY <1>1, <1>2, <1>3, <1>4, <1>5, <1>6, <1>7, <1>8, <1>9,
          <1>10 DEF Next

LEMMA Invariance == Spec => []IInv
BY Initially, Steps, PTL DEF Spec

(* The page's state at every moment: no spinner without its request, and    *)
(* no "not found" without a spinner between the effect that loads and the   *)
(* first failed request.                                                    *)
THEOREM PageStaysConsistent == Spec => []PageConsistent
<1>1. IInv => PageConsistent
  BY DEF IInv, PageConsistent, NotFoundExplained, NotFoundNeedsFailure, Screen
<1> QED BY Invariance, <1>1, PTL

(* With everything answered, the report on the page is that of its address, *)
(* unless a late answer for another address was shown.                      *)
THEOREM WrongReportExplained == Spec => []WrongReportNeedsLateAnswer
<1>1. IInv => WrongReportNeedsLateAnswer
  BY EmptyBagFacts DEF IInv, OwnReport, WrongReportNeedsLateAnswer
<1> QED BY Invariance, <1>1, PTL

LEMMA ShownReport ==
    ASSUME IInv, Screen = "parts"
    PROVE  detail.report \in Seq(Kind)
BY DEF Screen, IInv, TypeOK, Reply

(* A report in the workflow's format is shown whole, but for its headings,  *)
(* the line under a table's header, and what stands on the result lines     *)
(* themselves: if it is in that format when it reaches the page, or was     *)
(* written so, with its headings glued, by the workflow of a task that      *)
(* ended.                                                                   *)
THEOREM ReportsShownWhole == Spec => []WellFormedShown
<1>1. IInv => ArrivedShown
  BY ShownReport, ShownWhole DEF ArrivedShown
<1>2. IInv => GluedShown
  <2> DEFINE w == written[detail.task]
             k == Kinds(w)
  <2> SUFFICES ASSUME IInv, detail # NoDetail, detail.status = "completed",
                      WellFormed(k), Glued(w),
                      NEW x \in DOMAIN w \ Lines(k, Heading \cup {"result", "rule"})
               PROVE  x \in Shown(detail.report)
    BY DEF GluedShown
  <2>1. detail.task \in Task /\ detail = Detail(detail.task, "completed")
    BY DEF IInv, TypeOK, Stored, Reply, Ended
  <2>2. detail.report = Normalize(w) BY <2>1 DEF Detail
  <2>3. w \in Seq(Written) BY <2>1, WrittenTyped
  <2>4. w # <<>>
    <3>1. SUFFICES ASSUME w = <<>> PROVE FALSE OBVIOUS
    <3>2. k = <<>> BY <3>1 DEF Kinds
    <3> QED BY <3>2 DEF WellFormed
  <2> HIDE DEF w
  <2>5. Normalize(w) = k /\ k \in Seq(Kind) /\ DOMAIN k = DOMAIN w
    BY <2>3, <2>4, GluedArrives
  <2> HIDE DEF k
  <2>6. x \in Shown(k) BY <2>5, ShownWhole
  <2> QED BY <2>2, <2>5, <2>6
<1>3. IInv => WellFormedShown BY <1>1, <1>2 DEF WellFormedShown
<1> QED BY Invariance, <1>3, PTL

(* The risk beside a statement is the one the report gives for it, unless   *)
(* its heading has two statements, or the risk before the statement.        *)
THEOREM RisksOfTheirStatements == Spec => []RiskOfItsStatement
<1>1. IInv => RiskOfItsStatement
  <2> SUFFICES ASSUME IInv, Screen = "parts",
                      NEW i \in DOMAIN Items(detail.report)
               PROVE  LET text == detail.report
                          heads == Lines(text, Heading \cup {"group", "entry"})
                          statements == Lines(text, {"sql"})
                          s == Field(text, Items(text)[i], "sql")
                          r == Field(text, Items(text)[i], "risk")
                      IN  s # 0 /\ r # 0 =>
                            \/ Above(r, statements \cup heads) = s
                            \/ s > r /\ Above(s, heads) = Above(r, heads)
    BY DEF RiskOfItsStatement
  <2>1. detail.report \in Seq(Kind) BY ShownReport
  <2> QED BY <2>1, RiskUnderStatement
<1> QED BY Invariance, <1>1, PTL
=============================================================================
