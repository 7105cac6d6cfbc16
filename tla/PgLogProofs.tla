------------------------------ MODULE PgLogProofs ------------------------------
(***************************************************************************)
(* Proofs about the log of a PostgreSQL server on its way: about LogTail,  *)
(* which reads it, and PgPairing, which pairs its rows.  For any numbers   *)
(* of files, lines, crashes and faults the thread leaves no line of a file *)
(* behind it, unless the file has a reused inode number or a checkpoint    *)
(* could not be written.  For any pids, categories of statement, losses    *)
(* and expiries: what the two dictionaries of PgConsumer hold, whose       *)
(* duration a document gets, and that they implement the pairing the       *)
(* consumer loop relies on.                                                *)
(***************************************************************************)
EXTENDS LogTail, PgPairing, TLAPS

(* PgPairing.                                                              *)

\* The statement a pid is running.
Current(s) == running[s[1]] # "none" /\ s[2] = begun[s[1]]

\* A statement that began, and is over.
Ended(s) == s[2] <= begun[s[1]] /\ ~Current(s)

\* What a pid runs has begun.
RunningBegun == \A p \in Pid : running[p] # "none" => begun[p] >= 1

\* Only statements that began are kept, dropped or written: the next one of a
\* pid is new to all tables.
NamesBegun ==
    /\ \A s \in pendingSql \cup dropped : s[2] <= begun[s[1]]
    /\ \A d \in docs : d.sql[2] <= begun[d.sql[1]]

\* A dictionary holds one SQL of a pid.
OnePerPid == \A s, t \in pendingSql : s[1] = t[1] => s = t

\* SQL is kept beyond its end only if its duration did not come.
KeptCurrent == \A s \in pendingSql : Current(s) \/ s \in unfinished

\* What was written is not kept, nor is a duration that was spent.
WrittenGone ==
    \A d \in docs : d.sql \notin pendingSql /\ d.cost \cap pendingDuration = {}

\* Durations are of statements that are over.
CostsEnded == \A d \in docs : \A c \in d.cost : Ended(c)

\* A duration waits only after a row of its pid was lost, ignored or late.
WaitingMuddled == \A c \in pendingDuration : Ended(c) /\ c[1] \in muddled

Tables ==
    /\ NamesBegun /\ OnePerPid /\ KeptCurrent /\ WrittenGone /\ CostsEnded
    /\ WaitingMuddled /\ OneSideWaits /\ SpentOnce /\ DroppedNeverFinished
    /\ WrongCostExplained

\* The SQL a pid runs is kept, unless a row of the pid was lost, ignored or late.
CleanKept ==
    \A p \in Pid : running[p] # "none" /\ p \notin muddled
                        => \E s \in pendingSql : s[1] = p /\ Current(s)

IInv == TypeOK /\ RunningBegun /\ CleanKept /\ Tables

\* The invariant holds before the first row.
LEMMA InitInv == Init => IInv
    BY PgAssumption
       DEF Init, IInv, TypeOK, RunningBegun, CleanKept, Tables, NamesBegun, OnePerPid,
           KeptCurrent, WrittenGone, CostsEnded, WaitingMuddled, OneSideWaits, SpentOnce,
           DroppedNeverFinished, WrongCostExplained, At

-----------------------------------------------------------------------------
(* What a row of statement s does to the dictionaries.                     *)

\* The SQL is kept, in the place of what its pid had.
Keeps(s) ==
    /\ pendingSql' = (pendingSql \ At(pendingSql, s[1])) \cup {s}
    /\ pendingDuration' = Without(pendingDuration, s[1])
    /\ dropped' = dropped \cup At(pendingSql, s[1])
    /\ docs' = docs

\* The SQL becomes a document at once.
Writes(s, cost) ==
    /\ pendingSql' = pendingSql \ At(pendingSql, s[1])
    /\ pendingDuration' \subseteq pendingDuration /\ pendingDuration' \cap cost = {}
    /\ dropped' = dropped \cup At(pendingSql, s[1])
    /\ docs' = docs \cup {[sql |-> s, cost |-> cost]}

\* The duration of s completes the SQL h.
Completes(s, h) ==
    /\ h \in At(pendingSql, s[1])
    /\ pendingSql' = pendingSql \ {h}
    /\ pendingDuration' = pendingDuration /\ dropped' = dropped
    /\ docs' = docs \cup {[sql |-> h, cost |-> {s}]}

\* The duration of s waits.
Waits(s) ==
    /\ At(pendingSql, s[1]) = {}
    /\ pendingDuration' = Without(pendingDuration, s[1]) \cup {s}
    /\ pendingSql' = pendingSql /\ dropped' = dropped /\ docs' = docs

\* The SQL of a pid, popped, is the one SQL it had.
LEMMA AtMostOneAt ==
    ASSUME OnePerPid, NEW p
    PROVE  At(pendingSql, p) \subseteq pendingSql /\ \A s, t \in At(pendingSql, p) : s = t
    BY DEF OnePerPid, At

\* SQL alone is kept, or takes the duration that waits for it.
LEMMA SqlRowEffect ==
    ASSUME OneSideWaits, NEW s \in Statement, SqlRow(s)
    PROVE  \/ Keeps(s)
           \/ /\ Writes(s, At(pendingDuration, s[1]))
              /\ At(pendingSql, s[1]) = {} /\ At(pendingDuration, s[1]) # {}
<1>1. s[1] \in Pid
    BY DEF Statement
<1>2. CASE At(pendingSql, s[1]) = {}
    <2>1. DurationLeft(s[1]) = pendingDuration
        BY <1>2 DEF DurationLeft
    <2>2. CASE At(pendingDuration, s[1]) = {}
        <3>1. Without(pendingDuration, s[1]) = pendingDuration
            BY <2>2 DEF Without
        <3> QED
            BY <2>1, <2>2, <3>1 DEF SqlRow, DropPending, Keeps, Without
    <2>3. CASE At(pendingDuration, s[1]) # {}
        BY <1>2, <2>1, <2>3 DEF SqlRow, DropPending, Build, Writes, Without
    <2> QED
        BY <2>2, <2>3
<1>3. CASE At(pendingSql, s[1]) # {}
    <2>1. DurationLeft(s[1]) = Without(pendingDuration, s[1])
        BY <1>3 DEF DurationLeft
    <2>2. At(Without(pendingDuration, s[1]), s[1]) = {}
        BY DEF Without, At
    <2> QED
        BY <2>1, <2>2 DEF SqlRow, DropPending, Keeps, Without
<1> QED
    BY <1>2, <1>3

\* A duration alone completes the SQL of its pid, or waits.
LEMMA DurationRowEffect ==
    ASSUME OnePerPid, NEW s \in Statement, DurationRow(s)
    PROVE  Waits(s) \/ \E h \in At(pendingSql, s[1]) : Completes(s, h)
<1>1. CASE At(pendingSql, s[1]) = {}
    BY <1>1 DEF DurationRow, Waits
<1>2. ASSUME At(pendingSql, s[1]) # {}
      PROVE  \E h \in At(pendingSql, s[1]) : Completes(s, h)
    <2>1. PICK h \in At(pendingSql, s[1]) : docs' = docs \cup {[sql |-> h, cost |-> {s}]}
        BY <1>2 DEF DurationRow, Build
    <2>2. At(pendingSql, s[1]) = {h}
        BY AtMostOneAt
    <2>3. /\ pendingSql' = pendingSql \ {h} /\ pendingDuration' = pendingDuration
          /\ dropped' = dropped
        BY <1>2, <2>2 DEF DurationRow, Without
    <2> QED
        BY <2>1, <2>3 DEF Completes
<1> QED
    BY <1>1, <1>2

\* SQL and duration in one row are a document.
LEMMA WholeRowEffect ==
    ASSUME NEW s \in Statement, s \notin pendingDuration, WholeRow(s)
    PROVE  Writes(s, {s})
    BY DEF WholeRow, DropPending, DurationLeft, Build, Writes, Without

-----------------------------------------------------------------------------
(* The invariant of the tables, row by row.                                *)

\* A step of statement s: it begins, ends, or both; the others go on.
Moves(s) ==
    /\ s[2] <= begun'[s[1]]
    /\ s \notin pendingDuration /\ \A d \in docs : s \notin d.cost
    /\ \A t \in Statement \ {s} : t[2] <= begun[t[1]] =>
           t[2] <= begun'[t[1]] /\ (Current(t)' <=> Current(t))
    /\ muddled \subseteq muddled' /\ unfinished \subseteq unfinished'

\* It begins: no table knows it, and its pid runs nothing.
Begins(s) == s[2] > begun[s[1]] /\ running[s[1]] = "none"

\* What no row touches stays as the tables' invariant wants it.
LEMMA OthersKept ==
    ASSUME TypeOK, Tables, NEW s \in Statement, Moves(s)
    PROVE  /\ pendingSql \subseteq Statement /\ dropped \subseteq Statement
           /\ \A t \in (pendingSql \cup dropped) \ {s} : t[2] <= begun'[t[1]]
           /\ \A d \in docs : d.sql[2] <= begun'[d.sql[1]]
           /\ \A d \in docs : d.sql \in Statement /\ \A c \in d.cost : Ended(c)'
           /\ \A c \in pendingDuration : Ended(c)' /\ c[1] \in muddled' /\ c \in Statement
           /\ \A t \in pendingSql \ {s} : Current(t)' \/ t \in unfinished'
           /\ \A d \in docs : d.cost \subseteq {d.sql} \/ d.sql[1] \in muddled'
           /\ dropped \subseteq unfinished'
<1>1. /\ pendingSql \subseteq Statement /\ dropped \subseteq Statement
      /\ pendingDuration \subseteq Statement
      /\ \A d \in docs : d.sql \in Statement /\ d.cost \subseteq Statement
    BY DEF TypeOK, Document
<1>2. \A c \in Statement \ {s} : Ended(c) => Ended(c)'
    BY DEF Moves, Ended
<1>3. \A t \in (pendingSql \cup dropped) \ {s} : t[2] <= begun'[t[1]]
    BY <1>1 DEF Tables, NamesBegun, Moves
<1>4. \A d \in docs : d.sql[2] <= begun'[d.sql[1]]
    BY <1>1 DEF Tables, NamesBegun, Moves
<1>5. \A d \in docs : \A c \in d.cost : Ended(c)'
    BY <1>1, <1>2 DEF Tables, CostsEnded, Moves
<1>6. \A c \in pendingDuration : Ended(c)' /\ c[1] \in muddled'
    BY <1>1, <1>2 DEF Tables, WaitingMuddled, Moves
<1>7. \A t \in pendingSql \ {s} : Current(t)' \/ t \in unfinished'
    BY <1>1 DEF Tables, NamesBegun, KeptCurrent, Moves
<1>8. /\ \A d \in docs : d.cost \subseteq {d.sql} \/ d.sql[1] \in muddled'
      /\ dropped \subseteq unfinished'
    BY DEF Tables, WrongCostExplained, DroppedNeverFinished, Moves
<1> QED
    BY <1>1, <1>3, <1>4, <1>5, <1>6, <1>7, <1>8

\* The SQL of a statement that begins is kept: what it overwrites never ended well.
LEMMA KeepsInv ==
    ASSUME TypeOK, Tables, NEW s \in Statement, Moves(s), Begins(s), Keeps(s), Current(s)'
    PROVE  Tables'
<1>1. NamesBegun'
    BY OthersKept DEF Keeps, At, NamesBegun, Moves
<1>2. OnePerPid'
    BY DEF Tables, OnePerPid, Keeps, At
<1>3. KeptCurrent'
    BY OthersKept DEF Keeps, At, KeptCurrent
<1>4. WrittenGone'
    <2>1. \A d \in docs : d.sql # s
        BY DEF TypeOK, Tables, NamesBegun, Begins, Document, Statement
    <2> QED
        BY <2>1 DEF Tables, WrittenGone, Keeps, Without
<1>5. CostsEnded'
    BY OthersKept DEF Keeps, CostsEnded
<1>6. WaitingMuddled'
    BY OthersKept DEF Keeps, Without, WaitingMuddled
<1>7. OneSideWaits'
    BY DEF Tables, OneSideWaits, Keeps, Without, At
<1>8. SpentOnce'
    BY DEF Tables, SpentOnce, Keeps
<1>9. DroppedNeverFinished'
    <2>1. At(pendingSql, s[1]) \subseteq unfinished
        BY DEF Tables, KeptCurrent, Current, Begins, At
    <2> QED
        BY <2>1, OthersKept DEF Keeps, DroppedNeverFinished, Moves
<1>10. WrongCostExplained'
    BY OthersKept DEF Keeps, WrongCostExplained
<1> QED
    BY <1>1, <1>2, <1>3, <1>4, <1>5, <1>6, <1>7, <1>8, <1>9, <1>10 DEF Tables

\* It is written, with its own duration or the one that waited for its pid.
LEMMA WritesInv ==
    ASSUME TypeOK, Tables, NEW s \in Statement, NEW cost, Moves(s), Begins(s), Writes(s, cost),
           \/ cost = {s} /\ Ended(s)'
           \/ cost \subseteq At(pendingDuration, s[1])
    PROVE  Tables'
<1> DEFINE doc == [sql |-> s, cost |-> cost]
<1>1. docs' = docs \cup {doc} /\ doc.sql = s /\ doc.cost = cost
    BY DEF Writes
<1> HIDE DEF doc
<1>2. At(pendingSql, s[1]) \subseteq unfinished
    BY DEF Tables, KeptCurrent, Current, Begins, At
<1>3. s \notin pendingSql /\ \A d \in docs : d.sql # s
    BY DEF TypeOK, Tables, NamesBegun, Begins, Document, Statement
<1>4. \A c \in cost : Ended(c)'
    BY OthersKept DEF At
<1>5. \A d \in docs : d.cost \cap cost = {}
    BY DEF Tables, WrittenGone, Moves, At
<1>6. NamesBegun'
    BY <1>1, <1>3, OthersKept DEF Writes, At, NamesBegun, Moves
<1>7. OnePerPid'
    BY DEF Tables, OnePerPid, Writes
<1>8. KeptCurrent'
    BY <1>3, OthersKept DEF Writes, KeptCurrent
<1>9. WrittenGone'
    BY <1>1, <1>3 DEF Tables, WrittenGone, Writes
<1>10. CostsEnded'
    BY <1>1, <1>4, OthersKept DEF CostsEnded
<1>11. WaitingMuddled'
    BY OthersKept DEF Writes, WaitingMuddled
<1>12. OneSideWaits'
    BY DEF Tables, OneSideWaits, Writes, At
<1>13. SpentOnce'
    BY <1>1, <1>3, <1>5 DEF Tables, SpentOnce
<1>14. DroppedNeverFinished'
    BY <1>2, OthersKept DEF Writes, DroppedNeverFinished, Moves
<1>15. WrongCostExplained'
    <2>1. cost \subseteq {s} \/ s[1] \in muddled'
        BY OthersKept DEF At
    <2> QED
        BY <1>1, <2>1, OthersKept DEF WrongCostExplained
<1> QED
    BY <1>6, <1>7, <1>8, <1>9, <1>10, <1>11, <1>12, <1>13, <1>14, <1>15 DEF Tables

\* The duration of a statement that is over completes the SQL h.
LEMMA CompletesInv ==
    ASSUME TypeOK, Tables, NEW s \in Statement, NEW h, Moves(s), Completes(s, h), Ended(s)',
           h = s \/ s[1] \in muddled'
    PROVE  Tables'
<1> DEFINE doc == [sql |-> h, cost |-> {s}]
<1>1. docs' = docs \cup {doc} /\ doc.sql = h /\ doc.cost = {s}
    BY DEF Completes
<1> HIDE DEF doc
<1>2. h \in pendingSql /\ h[1] = s[1] /\ \A t \in pendingSql' : t \in pendingSql /\ t[1] # s[1]
    BY DEF Tables, OnePerPid, Completes, At
<1>3. NamesBegun'
    BY <1>1, <1>2, OthersKept DEF Completes, NamesBegun, Moves, Tables, DroppedNeverFinished
<1>4. OnePerPid'
    BY <1>2 DEF Tables, OnePerPid
<1>5. KeptCurrent'
    BY <1>2, OthersKept DEF KeptCurrent
<1>6. WrittenGone'
    BY <1>1, <1>2 DEF Tables, WrittenGone, Completes, Moves
<1>7. CostsEnded'
    BY <1>1, OthersKept DEF CostsEnded
<1>8. WaitingMuddled'
    BY OthersKept DEF Completes, WaitingMuddled
<1>9. OneSideWaits'
    BY DEF Tables, OneSideWaits, Completes, At
<1>10. SpentOnce'
    BY <1>1, <1>2 DEF Tables, SpentOnce, WrittenGone, Moves
<1>11. DroppedNeverFinished'
    BY OthersKept DEF Completes, DroppedNeverFinished
<1>12. WrongCostExplained'
    BY <1>1, <1>2, OthersKept DEF WrongCostExplained
<1> QED
    BY <1>3, <1>4, <1>5, <1>6, <1>7, <1>8, <1>9, <1>10, <1>11, <1>12 DEF Tables

\* The duration of a statement that is over waits.
LEMMA WaitsInv ==
    ASSUME TypeOK, Tables, NEW s \in Statement, Moves(s), Waits(s), Ended(s)',
           s[1] \in muddled'
    PROVE  Tables'
<1>1. \A t \in pendingSql : t[1] # s[1]
    BY DEF Waits, At
<1>2. NamesBegun'
    BY OthersKept DEF Waits, NamesBegun, Moves
<1>3. OnePerPid' /\ SpentOnce'
    BY DEF Tables, OnePerPid, SpentOnce, Waits
<1>4. KeptCurrent'
    BY <1>1, OthersKept DEF Waits, KeptCurrent
<1>5. WrittenGone'
    BY DEF Tables, WrittenGone, Waits, Without, Moves
<1>6. CostsEnded'
    BY OthersKept DEF Waits, CostsEnded
<1>7. WaitingMuddled'
    BY OthersKept DEF Waits, Without, WaitingMuddled
<1>8. OneSideWaits'
    BY DEF Tables, OneSideWaits, Waits, Without, At
<1>9. DroppedNeverFinished' /\ WrongCostExplained'
    BY OthersKept DEF Waits, DroppedNeverFinished, WrongCostExplained
<1> QED
    BY <1>2, <1>3, <1>4, <1>5, <1>6, <1>7, <1>8, <1>9 DEF Tables

\* The row is ignored, or lost, or there is none.
LEMMA IgnoredInv ==
    ASSUME TypeOK, Tables, NEW s \in Statement, Moves(s), Ignored,
           s \in pendingSql => s \in unfinished'
    PROVE  Tables'
<1>1. NamesBegun'
    BY OthersKept DEF Ignored, NamesBegun, Moves
<1>2. OnePerPid' /\ SpentOnce' /\ WrittenGone' /\ OneSideWaits'
    BY DEF Tables, OnePerPid, SpentOnce, WrittenGone, OneSideWaits, Ignored, At
<1>3. KeptCurrent'
    BY OthersKept DEF Ignored, KeptCurrent
<1>4. CostsEnded' /\ WaitingMuddled'
    BY OthersKept DEF Ignored, CostsEnded, WaitingMuddled
<1>5. DroppedNeverFinished' /\ WrongCostExplained'
    BY OthersKept DEF Ignored, DroppedNeverFinished, WrongCostExplained
<1> QED
    BY <1>1, <1>2, <1>3, <1>4, <1>5 DEF Tables

-----------------------------------------------------------------------------
(* The steps.                                                              *)

\* The next statement of a pid is new, and it is the only one that moves when
\* it begins (or begins and ends at once).
LEMMA NextStatement ==
    ASSUME TypeOK, NamesBegun, CostsEnded, WaitingMuddled, NEW p \in Pid,
           running[p] = "none", begun[p] < MaxStatement,
           begun' = [begun EXCEPT ![p] = @ + 1],
           NEW status \in Category \cup {"none"},
           running' = [running EXCEPT ![p] = status],
           muddled \subseteq muddled', unfinished \subseteq unfinished'
    PROVE  \E s \in Statement :
              /\ s = <<p, begun[p] + 1>> /\ s[1] = p
              /\ Begins(s) /\ Moves(s)
              /\ s \notin pendingSql \cup {d.sql : d \in docs} \cup dropped
              /\ (Current(s)' <=> status # "none") /\ (status = "none" => Ended(s)')
              /\ begun' \in [Pid -> 0 .. MaxStatement]
              /\ running' \in [Pid -> Category \cup {"none"}]
              /\ begun'[p] >= 1 /\ running'[p] = status
              /\ \A q \in Pid \ {p} : begun'[q] = begun[q] /\ running'[q] = running[q]
<1>1. begun[p] \in 0 .. MaxStatement /\ begun[p] + 1 \in 1 .. MaxStatement
    BY PgAssumption DEF TypeOK
<1>2. PICK s \in Statement : s = <<p, begun[p] + 1>> /\ s[1] = p /\ s[2] = begun[p] + 1
    <2>1. <<p, begun[p] + 1>> \in Statement
        BY <1>1 DEF Statement
    <2> QED
        BY <2>1
<1>3. /\ begun' \in [Pid -> 0 .. MaxStatement]
      /\ running' \in [Pid -> Category \cup {"none"}]
      /\ begun'[p] = begun[p] + 1 /\ running'[p] = status
      /\ \A q \in Pid \ {p} : begun'[q] = begun[q] /\ running'[q] = running[q]
    BY <1>1 DEF TypeOK
<1>4. Begins(s)
    BY <1>1, <1>2 DEF Begins
<1>5. s \notin pendingDuration /\ \A d \in docs : s \notin d.cost
    BY <1>1, <1>2 DEF CostsEnded, WaitingMuddled, Ended
<1>6. ASSUME NEW t \in Statement \ {s}, t[2] <= begun[t[1]]
      PROVE  t[2] <= begun'[t[1]] /\ (Current(t)' <=> Current(t))
    <2>1. t[1] \in Pid /\ t[2] \in Nat
        BY DEF Statement
    <2>2. CASE t[1] = p
        <3>1. t[2] <= begun'[t[1]] /\ t[2] # begun'[t[1]]
            BY <1>1, <1>3, <1>6, <2>1, <2>2
        <3> QED
            BY <2>2, <3>1 DEF Current
    <2>3. CASE t[1] # p
        <3>1. begun'[t[1]] = begun[t[1]] /\ running'[t[1]] = running[t[1]]
            BY <1>3, <2>1, <2>3
        <3> QED
            BY <1>6, <3>1 DEF Current
    <2> QED
        BY <2>2, <2>3
<1>7. Moves(s)
    BY <1>1, <1>2, <1>3, <1>5, <1>6 DEF Moves
<1>8. s \notin pendingSql \cup {d.sql : d \in docs} \cup dropped
    BY <1>1, <1>2 DEF NamesBegun
<1>9. (Current(s)' <=> status # "none") /\ (status = "none" => Ended(s)')
    BY <1>1, <1>2, <1>3 DEF Current, Ended
<1> QED
    BY <1>1, <1>2, <1>3, <1>4, <1>7, <1>8, <1>9

\* The statement a pid runs is the only one that moves when it ends.
LEMMA LastStatement ==
    ASSUME TypeOK, RunningBegun, CostsEnded, WaitingMuddled, NEW p \in Pid,
           running[p] # "none", begun' = begun,
           running' = [running EXCEPT ![p] = "none"],
           muddled \subseteq muddled', unfinished \subseteq unfinished'
    PROVE  \E s \in Statement :
              /\ s = <<p, begun[p]>> /\ s[1] = p
              /\ Moves(s) /\ Current(s) /\ Ended(s)'
              /\ \A t \in Statement : t[1] = p /\ Current(t) => t = s
              /\ running' \in [Pid -> Category \cup {"none"}]
              /\ running'[p] = "none"
              /\ \A q \in Pid \ {p} : running'[q] = running[q]
<1>1. begun[p] \in 1 .. MaxStatement
    BY PgAssumption DEF TypeOK, RunningBegun
<1>2. PICK s \in Statement : s = <<p, begun[p]>> /\ s[1] = p /\ s[2] = begun[p]
    <2>1. <<p, begun[p]>> \in Statement
        BY <1>1 DEF Statement
    <2> QED
        BY <2>1
<1>3. /\ running' \in [Pid -> Category \cup {"none"}]
      /\ running'[p] = "none"
      /\ \A q \in Pid \ {p} : running'[q] = running[q]
    BY DEF TypeOK
<1>4. Current(s) /\ Ended(s)'
    BY <1>1, <1>2, <1>3 DEF Current, Ended
<1>5. s \notin pendingDuration /\ \A d \in docs : s \notin d.cost
    BY <1>4 DEF CostsEnded, WaitingMuddled, Ended
<1>6. \A t \in Statement : t[1] = p /\ Current(t) => t = s
    BY <1>2 DEF Current, Statement
<1>7. ASSUME NEW t \in Statement \ {s}
      PROVE  Current(t)' <=> Current(t)
    <2>1. t[1] \in Pid
        BY DEF Statement
    <2>2. CASE t[1] = p
        BY <1>3, <1>6, <2>2 DEF Current
    <2>3. CASE t[1] # p
        BY <1>3, <2>1, <2>3 DEF Current
    <2> QED
        BY <2>2, <2>3
<1>8. Moves(s)
    BY <1>1, <1>2, <1>5, <1>7 DEF Moves
<1> QED
    BY <1>2, <1>3, <1>4, <1>6, <1>8

\* A row stays within the types, and leaves the SQL of other pids.
LEMMA RowLeavesOthers ==
    ASSUME TypeOK, NEW s \in Statement, NEW cost \in SUBSET Statement,
           \/ Keeps(s) \/ Writes(s, cost) \/ Waits(s) \/ Ignored
           \/ \E h \in At(pendingSql, s[1]) : Completes(s, h)
    PROVE  /\ pendingSql' \in SUBSET Statement /\ pendingDuration' \in SUBSET Statement
           /\ docs' \in SUBSET Document /\ dropped' \in SUBSET Statement
           /\ \A t \in pendingSql : t[1] # s[1] => t \in pendingSql'
<1>1. CASE Keeps(s)
    BY <1>1 DEF TypeOK, Keeps, Without, At
<1>2. CASE Writes(s, cost)
    BY <1>2 DEF TypeOK, Writes, At, Document
<1>3. CASE Waits(s)
    BY <1>3 DEF TypeOK, Waits, Without, At
<1>4. CASE Ignored
    BY <1>4 DEF TypeOK, Ignored
<1>5. ASSUME NEW h \in At(pendingSql, s[1]), Completes(s, h)
      PROVE  /\ pendingSql' \in SUBSET Statement /\ pendingDuration' \in SUBSET Statement
             /\ docs' \in SUBSET Document /\ dropped' \in SUBSET Statement
             /\ \A t \in pendingSql : t[1] # s[1] => t \in pendingSql'
    BY <1>5 DEF TypeOK, Completes, At, Document
<1> QED
    BY <1>1, <1>2, <1>3, <1>4, <1>5

\* The SQL that other pids run is still kept.
LEMMA OthersClean ==
    ASSUME TypeOK, CleanKept, NamesBegun, NEW s \in Statement, Moves(s),
           \A t \in pendingSql : t[1] # s[1] => t \in pendingSql',
           NEW q \in Pid \ {s[1]}, running'[q] = running[q],
           running'[q] # "none", q \notin muddled'
    PROVE  \E t \in pendingSql' : t[1] = q /\ Current(t)'
<1>1. PICK t \in pendingSql : t[1] = q /\ Current(t)
    BY DEF CleanKept, Moves
<1>2. Current(t)'
    BY <1>1 DEF Moves, NamesBegun, TypeOK
<1> QED
    BY <1>1, <1>2

\* A statement starts.
LEMMA BeginInv ==
    ASSUME IInv, NEW p \in Pid, NEW cat \in Category, Begin(p, cat)
    PROVE  IInv'
<1>1. /\ TypeOK /\ RunningBegun /\ CleanKept /\ Tables /\ NamesBegun /\ OnePerPid
      /\ CostsEnded /\ WaitingMuddled /\ OneSideWaits
    BY DEF IInv, Tables
<1>2. /\ running[p] = "none" /\ begun[p] < MaxStatement /\ cat # "none"
      /\ begun' = [begun EXCEPT ![p] = @ + 1]
      /\ running' = [running EXCEPT ![p] = cat]
      /\ unfinished' = unfinished /\ expiries' = expiries /\ aged' = aged \cap pendingSql'
      /\ muddled' \in {muddled, muddled \cup {p}} /\ losses' \in 0 .. MaxLost
    BY <1>1, PgAssumption DEF Begin, Forget, Lose, Muddle, TypeOK
<1>3. PICK s \in Statement :
        /\ s = <<p, begun[p] + 1>> /\ s[1] = p
        /\ Begins(s) /\ Moves(s)
        /\ s \notin pendingSql
        /\ Current(s)'
        /\ begun' \in [Pid -> 0 .. MaxStatement]
        /\ running' \in [Pid -> Category \cup {"none"}]
        /\ begun'[p] >= 1 /\ running'[p] = cat
        /\ \A q \in Pid \ {p} : begun'[q] = begun[q] /\ running'[q] = running[q]
    BY <1>1, <1>2, NextStatement
<1>4. \/ cat = "business" /\ SqlRow(s) /\ muddled' = muddled
      \/ Ignored /\ p \in muddled'
    BY <1>3 DEF Begin, StatementRow, Muddle, Lose
<1> DEFINE waiting == At(pendingDuration, p)
<1>5. \/ Keeps(s)
      \/ Writes(s, waiting) /\ waiting # {}
      \/ Ignored /\ p \in muddled'
    BY <1>1, <1>3, <1>4, SqlRowEffect
<1>6. waiting \in SUBSET Statement
    BY <1>1 DEF At, TypeOK
<1>7. /\ pendingSql' \in SUBSET Statement /\ pendingDuration' \in SUBSET Statement
      /\ docs' \in SUBSET Document /\ dropped' \in SUBSET Statement
      /\ \A t \in pendingSql : t[1] # p => t \in pendingSql'
    BY <1>1, <1>3, <1>5, <1>6, RowLeavesOthers
<1>8. TypeOK'
    BY <1>1, <1>2, <1>3, <1>7 DEF TypeOK
<1>9. RunningBegun'
    BY <1>1, <1>3 DEF RunningBegun
<1>10. CleanKept'
    <2>1. ASSUME p \notin muddled'
          PROVE  \E t \in pendingSql' : t[1] = p /\ Current(t)'
        <3>1. waiting = {}
            BY <1>1, <1>2, <2>1 DEF WaitingMuddled, At
        <3>2. s \in pendingSql'
            BY <1>5, <2>1, <3>1 DEF Keeps
        <3> QED
            BY <1>3, <3>2
    <2>2. ASSUME NEW q \in Pid \ {p}, running'[q] # "none", q \notin muddled'
          PROVE  \E t \in pendingSql' : t[1] = q /\ Current(t)'
        BY <1>1, <1>3, <1>7, <2>2, OthersClean
    <2> QED
        BY <2>1, <2>2 DEF CleanKept
<1>11. Tables'
    <2>1. CASE Keeps(s)
        BY <1>1, <1>3, <2>1, KeepsInv
    <2>2. CASE Writes(s, waiting)
        BY <1>1, <1>3, <2>2, WritesInv
    <2>3. CASE Ignored
        BY <1>1, <1>3, <2>3, IgnoredInv
    <2> QED
        BY <1>5, <2>1, <2>2, <2>3
<1> QED
    BY <1>8, <1>9, <1>10, <1>11 DEF IInv

\* It ends, and logs its duration.
LEMMA FinishInv ==
    ASSUME IInv, NEW p \in Pid, Finish(p)
    PROVE  IInv'
<1>1. /\ TypeOK /\ RunningBegun /\ CleanKept /\ Tables /\ NamesBegun /\ OnePerPid
      /\ CostsEnded /\ WaitingMuddled
    BY DEF IInv, Tables
<1>2. /\ running[p] # "none" /\ begun' = begun
      /\ running' = [running EXCEPT ![p] = "none"]
      /\ expiries' = expiries /\ aged' = aged \cap pendingSql'
      /\ muddled' \in {muddled, muddled \cup {p}} /\ losses' \in 0 .. MaxLost
      /\ unfinished \subseteq unfinished'
    BY <1>1, PgAssumption DEF Finish, Forget, Lose, Muddle, TypeOK
<1>3. PICK s \in Statement :
        /\ s = <<p, begun[p]>> /\ s[1] = p
        /\ Moves(s) /\ Current(s) /\ Ended(s)'
        /\ \A t \in Statement : t[1] = p /\ Current(t) => t = s
        /\ running' \in [Pid -> Category \cup {"none"}]
        /\ running'[p] = "none"
        /\ \A q \in Pid \ {p} : running'[q] = running[q]
    BY <1>1, <1>2, LastStatement
<1>4. \/ DurationRow(s) /\ muddled' = muddled /\ unfinished' = unfinished
      \/ Ignored /\ unfinished' = unfinished \cup {s}
    BY <1>3 DEF Finish, Lose
<1>5. \/ Waits(s) /\ muddled' = muddled /\ unfinished' = unfinished
      \/ /\ \E h \in At(pendingSql, p) : Completes(s, h)
         /\ muddled' = muddled /\ unfinished' = unfinished
      \/ Ignored /\ unfinished' = unfinished \cup {s}
    BY <1>1, <1>3, <1>4, DurationRowEffect
<1>6. /\ pendingSql' \in SUBSET Statement /\ pendingDuration' \in SUBSET Statement
      /\ docs' \in SUBSET Document /\ dropped' \in SUBSET Statement
      /\ \A t \in pendingSql : t[1] # p => t \in pendingSql'
    BY <1>1, <1>3, <1>5, RowLeavesOthers
<1>7. TypeOK'
    BY <1>1, <1>2, <1>3, <1>5, <1>6 DEF TypeOK
<1>8. RunningBegun'
    BY <1>1, <1>2, <1>3 DEF RunningBegun
<1>9. CleanKept'
    <2>1. ASSUME NEW q \in Pid \ {p}, running'[q] # "none", q \notin muddled'
          PROVE  \E t \in pendingSql' : t[1] = q /\ Current(t)'
        BY <1>1, <1>3, <1>6, <2>1, OthersClean
    <2> QED
        BY <1>3, <2>1 DEF CleanKept
\* Unless its pid is muddled, the SQL that is kept for the pid is its own.
<1>10. p \in muddled \/ s \in At(pendingSql, p)
    BY <1>1, <1>2, <1>3 DEF CleanKept, At, TypeOK
<1>11. Tables'
    <2>1. CASE Waits(s)
        BY <1>1, <1>2, <1>3, <1>10, <2>1, WaitsInv DEF Waits
    <2>2. ASSUME NEW h \in At(pendingSql, p), Completes(s, h) PROVE Tables'
        <3>1. h = s \/ p \in muddled'
            BY <1>1, <1>2, <1>10, AtMostOneAt
        <3> QED
            BY <1>1, <1>3, <2>2, <3>1, CompletesInv
    <2>3. CASE Ignored /\ unfinished' = unfinished \cup {s}
        BY <1>1, <1>3, <2>3, IgnoredInv
    <2> QED
        BY <1>5, <2>1, <2>2, <2>3
<1> QED
    BY <1>7, <1>8, <1>9, <1>11 DEF IInv

\* It fails, and logs no duration.
LEMMA FailInv ==
    ASSUME IInv, NEW p \in Pid, Fail(p)
    PROVE  IInv'
<1>1. /\ TypeOK /\ RunningBegun /\ CleanKept /\ Tables /\ NamesBegun
      /\ CostsEnded /\ WaitingMuddled
    BY DEF IInv, Tables
<1>2. /\ running[p] # "none" /\ begun' = begun
      /\ running' = [running EXCEPT ![p] = "none"]
      /\ unfinished' = unfinished \cup {<<p, begun[p]>>}
      /\ UNCHANGED <<pendingSql, pendingDuration, aged, docs, dropped, muddled, expiries, losses>>
    BY DEF Fail, table
<1>3. PICK s \in Statement :
        /\ s = <<p, begun[p]>> /\ s[1] = p
        /\ Moves(s) /\ Current(s) /\ Ended(s)'
        /\ running' \in [Pid -> Category \cup {"none"}]
        /\ running'[p] = "none"
        /\ \A q \in Pid \ {p} : running'[q] = running[q]
    BY <1>1, <1>2, LastStatement
<1>4. TypeOK'
    BY <1>1, <1>2, <1>3 DEF TypeOK
<1>5. RunningBegun'
    BY <1>1, <1>2, <1>3 DEF RunningBegun
<1>6. CleanKept'
    <2>1. ASSUME NEW q \in Pid \ {p}, running'[q] # "none", q \notin muddled'
          PROVE  \E t \in pendingSql' : t[1] = q /\ Current(t)'
        BY <1>1, <1>2, <1>3, <2>1, OthersClean
    <2> QED
        BY <1>3, <2>1 DEF CleanKept
<1>7. Tables'
    BY <1>1, <1>2, <1>3, IgnoredInv DEF Ignored
<1> QED
    BY <1>4, <1>5, <1>6, <1>7 DEF IInv

\* It was logged when it ended, as one row.
LEMMA JoinedInv ==
    ASSUME IInv, NEW p \in Pid, NEW cat \in Category, Joined(p, cat)
    PROVE  IInv'
<1>1. /\ TypeOK /\ RunningBegun /\ CleanKept /\ Tables /\ NamesBegun /\ OnePerPid
      /\ CostsEnded /\ WaitingMuddled
    BY DEF IInv, Tables
<1>2. /\ running[p] = "none" /\ begun[p] < MaxStatement
      /\ begun' = [begun EXCEPT ![p] = @ + 1]
      /\ running' = running /\ running' = [running EXCEPT ![p] = "none"]
      /\ unfinished' = unfinished /\ expiries' = expiries /\ aged' = aged \cap pendingSql'
      /\ muddled' \in {muddled, muddled \cup {p}} /\ losses' \in 0 .. MaxLost
    BY <1>1, PgAssumption DEF Joined, Forget, Lose, Muddle, TypeOK
<1>3. PICK s \in Statement :
        /\ s = <<p, begun[p] + 1>> /\ s[1] = p
        /\ Begins(s) /\ Moves(s)
        /\ s \notin pendingSql
        /\ Ended(s)'
        /\ begun' \in [Pid -> 0 .. MaxStatement]
        /\ running' \in [Pid -> Category \cup {"none"}]
        /\ begun'[p] >= 1 /\ running'[p] = "none"
        /\ \A q \in Pid \ {p} : begun'[q] = begun[q] /\ running'[q] = running[q]
    BY <1>1, <1>2, NextStatement
<1>4. \/ WholeRow(s)
      \/ DurationRow(s) /\ p \in muddled'
      \/ Ignored
    BY <1>2, <1>3 DEF Joined, JoinedRow, Muddle, Lose
<1>5. \/ Writes(s, {s})
      \/ Waits(s) /\ p \in muddled'
      \/ (\E h \in At(pendingSql, p) : Completes(s, h)) /\ p \in muddled'
      \/ Ignored
    BY <1>1, <1>3, <1>4, WholeRowEffect, DurationRowEffect DEF Moves
<1>6. /\ pendingSql' \in SUBSET Statement /\ pendingDuration' \in SUBSET Statement
      /\ docs' \in SUBSET Document /\ dropped' \in SUBSET Statement
      /\ \A t \in pendingSql : t[1] # p => t \in pendingSql'
    <2>1. {s} \in SUBSET Statement
        OBVIOUS
    <2> QED
        BY <1>1, <1>3, <1>5, <2>1, RowLeavesOthers
<1>7. TypeOK'
    BY <1>1, <1>2, <1>3, <1>6 DEF TypeOK
<1>8. RunningBegun'
    BY <1>1, <1>3 DEF RunningBegun
<1>9. CleanKept'
    <2>1. ASSUME NEW q \in Pid \ {p}, running'[q] # "none", q \notin muddled'
          PROVE  \E t \in pendingSql' : t[1] = q /\ Current(t)'
        BY <1>1, <1>3, <1>6, <2>1, OthersClean
    <2> QED
        BY <1>3, <2>1 DEF CleanKept
<1>10. Tables'
    <2>1. CASE Writes(s, {s})
        BY <1>1, <1>3, <2>1, WritesInv
    <2>2. CASE Waits(s) /\ p \in muddled'
        BY <1>1, <1>3, <2>2, WaitsInv
    <2>3. ASSUME NEW h \in At(pendingSql, p), Completes(s, h), p \in muddled' PROVE Tables'
        BY <1>1, <1>3, <2>3, CompletesInv
    <2>4. CASE Ignored
        BY <1>1, <1>3, <2>4, IgnoredInv
    <2> QED
        BY <1>5, <2>1, <2>2, <2>3, <2>4
<1> QED
    BY <1>7, <1>8, <1>9, <1>10 DEF IInv

\* flush_pending finds no duration: SQL and duration of a pid never both wait.
LEMMA FlushEffect ==
    ASSUME TypeOK, OneSideWaits, FlushPending
    PROVE  /\ aged \subseteq pendingSql
           /\ docs' = docs \cup {[sql |-> s, cost |-> {}] : s \in aged}
           /\ pendingSql' = pendingSql \ aged /\ aged' = {}
           /\ pendingDuration' \subseteq pendingDuration
           /\ muddled \subseteq muddled' /\ \A s \in aged : s[1] \in muddled'
           /\ muddled' \in SUBSET Pid /\ expiries' \in 0 .. MaxExpiry
           /\ UNCHANGED <<begun, running, dropped, unfinished, losses>>
<1>1. aged \subseteq pendingSql /\ \A s \in aged : s[1] \in Pid
    BY DEF TypeOK, Statement
<1>2. \A s \in aged : At(pendingDuration, s[1]) = {}
    BY <1>1 DEF OneSideWaits, At
<1>3. {[sql |-> s, cost |-> At(pendingDuration, s[1])] : s \in aged}
        = {[sql |-> s, cost |-> {}] : s \in aged}
    BY <1>2
<1>4. muddled' = muddled \cup {s[1] : s \in aged} /\ muddled' \in SUBSET Pid
    BY <1>1 DEF FlushPending, TypeOK
<1>5. expiries' \in 0 .. MaxExpiry
    BY PgAssumption DEF FlushPending, TypeOK
<1> QED
    BY <1>1, <1>3, <1>4, <1>5 DEF FlushPending, server

\* flush_pending writes the SQL that waited too long.
LEMMA FlushPendingInv ==
    ASSUME IInv, FlushPending
    PROVE  IInv'
<1>1. /\ TypeOK /\ RunningBegun /\ CleanKept /\ NamesBegun /\ OnePerPid /\ KeptCurrent
      /\ WrittenGone /\ CostsEnded /\ WaitingMuddled /\ OneSideWaits /\ SpentOnce
      /\ DroppedNeverFinished /\ WrongCostExplained
    BY DEF IInv, Tables
<1>2. PICK new \in SUBSET Document :
        /\ docs' = docs \cup new
        /\ \A d \in new : d.sql \in aged /\ d.cost = {}
        /\ \A d, e \in new : d # e => d.sql # e.sql
    <2> DEFINE written == {[sql |-> s, cost |-> {}] : s \in aged}
    <2>1. aged \subseteq Statement
        BY <1>1 DEF TypeOK
    <2>2. /\ written \in SUBSET Document
          /\ \A d \in written : d.sql \in aged /\ d.cost = {}
          /\ \A d, e \in written : d # e => d.sql # e.sql
        BY <2>1 DEF Document
    <2>3. docs' = docs \cup written
        BY <1>1, FlushEffect
    <2> QED
        BY <2>2, <2>3
<1>3. /\ aged \subseteq pendingSql
      /\ pendingSql' = pendingSql \ aged /\ aged' = {}
      /\ pendingDuration' \subseteq pendingDuration
      /\ muddled \subseteq muddled' /\ \A s \in aged : s[1] \in muddled'
      /\ muddled' \in SUBSET Pid /\ expiries' \in 0 .. MaxExpiry
      /\ UNCHANGED <<begun, running, dropped, unfinished, losses>>
    BY <1>1, FlushEffect
<1>4. TypeOK' /\ RunningBegun'
    BY <1>1, <1>2, <1>3 DEF TypeOK, RunningBegun
<1>5. CleanKept'
    BY <1>1, <1>3 DEF CleanKept, Current
<1>6. NamesBegun' /\ OnePerPid' /\ KeptCurrent'
    BY <1>1, <1>2, <1>3 DEF NamesBegun, OnePerPid, KeptCurrent, Current
<1>7. WrittenGone'
    BY <1>1, <1>2, <1>3 DEF WrittenGone
<1>8. CostsEnded' /\ WaitingMuddled'
    BY <1>1, <1>2, <1>3 DEF CostsEnded, WaitingMuddled, Ended, Current
<1>9. OneSideWaits'
    BY <1>1, <1>3 DEF OneSideWaits, At
<1>10. SpentOnce'
    <2>1. \A d \in docs, e \in new : d.sql # e.sql
        BY <1>1, <1>2, <1>3 DEF WrittenGone
    <2> QED
        BY <1>1, <1>2, <2>1 DEF SpentOnce
<1>11. DroppedNeverFinished' /\ WrongCostExplained'
    BY <1>1, <1>2, <1>3 DEF DroppedNeverFinished, WrongCostExplained
<1> QED
    BY <1>4, <1>5, <1>6, <1>7, <1>8, <1>9, <1>10, <1>11 DEF IInv, Tables

\* Every step keeps the invariant.
LEMMA NextInv == IInv /\ [Next]_vars => IInv'
<1> SUFFICES ASSUME IInv, [Next]_vars PROVE IInv'
    OBVIOUS
<1>1. CASE TimeoutPasses \/ UNCHANGED vars
    <2>1. /\ UNCHANGED <<begun, running, pendingSql, pendingDuration, docs, dropped,
                         unfinished, muddled, expiries, losses>>
          /\ aged' \in {aged, pendingSql}
        BY <1>1 DEF TimeoutPasses, vars, server, table
    <2>2. TypeOK'
        BY <2>1 DEF IInv, TypeOK
    <2>3. RunningBegun' /\ CleanKept'
        BY <2>1 DEF IInv, RunningBegun, CleanKept, Current
    <2>4. NamesBegun' /\ OnePerPid' /\ KeptCurrent' /\ WrittenGone' /\ CostsEnded'
        BY <2>1 DEF IInv, Tables, NamesBegun, OnePerPid, KeptCurrent, WrittenGone, CostsEnded,
                    Current, Ended
    <2>5. /\ WaitingMuddled' /\ OneSideWaits' /\ SpentOnce' /\ DroppedNeverFinished'
          /\ WrongCostExplained'
        BY <2>1 DEF IInv, Tables, WaitingMuddled, OneSideWaits, SpentOnce, DroppedNeverFinished,
                    WrongCostExplained, Current, Ended, At
    <2> QED
        BY <2>2, <2>3, <2>4, <2>5 DEF IInv, Tables
<1> QED
    BY <1>1, BeginInv, FinishInv, FailInv, JoinedInv, FlushPendingInv DEF Next

\* The invariant holds in every reachable state.
THEOREM Invariance == Spec => []IInv
    BY InitInv, NextInv, PTL DEF Spec

\* The two dictionaries in every reachable state: SQL and duration of a pid never
\* both wait, no statement or duration is used twice, and the SQL that
\* _flush_pending throws away was never to get its duration.
THEOREM TablesStayConsistent == Spec => []TablesConsistent
<1>1. IInv => TablesConsistent
    BY DEF IInv, Tables, TablesConsistent
<1> QED
    BY <1>1, Invariance, PTL

\* A document whose query_time is another statement's is of a pid that had a row
\* lost, ignored or timed out: other pids cannot spoil it, nor can errors.
THEOREM WrongCostsExplained == Spec => []WrongCostExplained
<1>1. IInv => WrongCostExplained
    BY DEF IInv, Tables
<1> QED
    BY <1>1, Invariance, PTL

-----------------------------------------------------------------------------
(* The refinement of Pairing.                                              *)

\* What a pid has pending is at most one row, as the contract asks.
LEMMA OneGone ==
    ASSUME OnePerPid, NEW p
    PROVE  At(pendingSql, p) \in Abstract!AtMostOneOf(pendingSql)
<1>1. CASE At(pendingSql, p) = {}
    BY <1>1 DEF Abstract!AtMostOneOf
<1>2. ASSUME NEW h \in At(pendingSql, p)
      PROVE  At(pendingSql, p) \in Abstract!AtMostOneOf(pendingSql)
    <2>1. At(pendingSql, p) = {h} /\ h \in pendingSql
        BY AtMostOneAt
    <2> QED
        BY <2>1 DEF Abstract!AtMostOneOf
<1> QED
    BY <1>1, <1>2

\* The statements written, when documents are added.
LEMMA StatementsOfUnion ==
    ASSUME NEW D, NEW E
    PROVE  {d.sql : d \in D \cup E} = {d.sql : d \in D} \cup {d.sql : d \in E}
<1> QED
    BY Zenon

\* The same for one document.
LEMMA OneStatementMore ==
    ASSUME NEW D, NEW s, NEW cost
    PROVE  {d.sql : d \in D \cup {[sql |-> s, cost |-> cost]}} = {d.sql : d \in D} \cup {s}
<1> DEFINE doc == [sql |-> s, cost |-> cost]
<1>1. doc.sql = s
    OBVIOUS
<1> HIDE DEF doc
<1>2. {d.sql : d \in {doc}} = {doc.sql}
    BY Zenon
<1>3. {d.sql : d \in D \cup {doc}} = {d.sql : d \in D} \cup {s}
    BY <1>1, <1>2, StatementsOfUnion
<1> QED
    BY <1>3 DEF doc

\* A statement that begins, and keeps its SQL, is an "open" message.
LEMMA KeepsRefines ==
    ASSUME OnePerPid, NEW s \in Statement, Keeps(s),
           s \notin pendingSql \cup {d.sql : d \in docs} \cup dropped
    PROVE  Abstract!Next
<1>1. Abstract!Out((pendingSql \ At(pendingSql, s[1])) \cup {s}, {}, At(pendingSql, s[1]))
        \in Abstract!Outcomes("open", s, pendingSql)
    BY OneGone DEF Abstract!Outcomes, Abstract!OpenOutcomes
<1>2. Abstract!Process("open", s)
    BY <1>1 DEF Keeps, Abstract!Process, Abstract!Fresh, Abstract!Out
<1> QED
    BY <1>2 DEF Abstract!Next, Abstract!Kind

\* Taking the duration that waits for it, it is an "open" message as well.
LEMMA TakesRefines ==
    ASSUME NEW s \in Statement, NEW cost, Writes(s, cost), At(pendingSql, s[1]) = {},
           s \notin pendingSql \cup {d.sql : d \in docs} \cup dropped
    PROVE  Abstract!Next
<1>1. /\ pendingSql' = pendingSql /\ dropped' = dropped
      /\ {d.sql : d \in docs'} = {d.sql : d \in docs} \cup {s}
    BY OneStatementMore DEF Writes
<1>2. Abstract!Out(pendingSql, {s}, {}) \in Abstract!Outcomes("open", s, pendingSql)
    BY DEF Abstract!Outcomes, Abstract!OpenOutcomes
<1>3. Abstract!Process("open", s)
    BY <1>1, <1>2 DEF Abstract!Process, Abstract!Fresh, Abstract!Out
<1> QED
    BY <1>3 DEF Abstract!Next, Abstract!Kind

\* With its duration in the same row, it is a "whole" message.
LEMMA WholeRefines ==
    ASSUME OnePerPid, NEW s \in Statement, NEW cost, Writes(s, cost),
           s \notin pendingSql \cup {d.sql : d \in docs} \cup dropped
    PROVE  Abstract!Next
<1>1. {d.sql : d \in docs'} = {d.sql : d \in docs} \cup {s}
    BY OneStatementMore DEF Writes
<1>2. Abstract!Out(pendingSql \ At(pendingSql, s[1]), {s}, At(pendingSql, s[1]))
        \in Abstract!Outcomes("whole", s, pendingSql)
    BY OneGone DEF Abstract!Outcomes, Abstract!WholeOutcomes
<1>3. Abstract!Process("whole", s)
    BY <1>1, <1>2 DEF Writes, Abstract!Process, Abstract!Fresh, Abstract!Out
<1> QED
    BY <1>3 DEF Abstract!Next, Abstract!Kind

\* A duration alone is a "close" message, or changes nothing a client sees.
LEMMA DurationRefines ==
    ASSUME OnePerPid, NEW s \in Statement, DurationRow(s)
    PROVE  [Abstract!Next]_Abstract!vars
<1>1. CASE Waits(s)
    BY <1>1 DEF Waits, Abstract!vars
<1>2. ASSUME NEW h \in At(pendingSql, s[1]), Completes(s, h) PROVE Abstract!Next
    <2>1. /\ h \in pendingSql /\ pendingSql' = pendingSql \ {h} /\ dropped' = dropped
          /\ {d.sql : d \in docs'} = {d.sql : d \in docs} \cup {h}
        BY <1>2, OneStatementMore DEF Completes, At
    <2>2. Abstract!Out(pendingSql \ {h}, {h}, {}) \in Abstract!Outcomes("close", s, pendingSql)
        BY <2>1 DEF Abstract!Outcomes, Abstract!CloseOutcomes
    <2>3. Abstract!Process("close", s)
        BY <2>1, <2>2 DEF Abstract!Process, Abstract!SqlKind, Abstract!Out
    <2> QED
        BY <2>3 DEF Abstract!Next, Abstract!Kind
<1> QED
    BY <1>1, <1>2, DurationRowEffect

\* A statement starts.
LEMMA BeginRefines ==
    ASSUME IInv, NEW p \in Pid, NEW cat \in Category, Begin(p, cat)
    PROVE  [Abstract!Next]_Abstract!vars
<1>1. TypeOK /\ NamesBegun /\ OnePerPid /\ CostsEnded /\ WaitingMuddled /\ OneSideWaits
    BY DEF IInv, Tables
<1>2. PICK s \in Statement :
        /\ s = <<p, begun[p] + 1>>
        /\ s \notin pendingSql \cup {d.sql : d \in docs} \cup dropped
    BY <1>1, NextStatement DEF Begin, Muddle
<1>3. CASE Ignored
    BY <1>3 DEF Ignored, Abstract!vars
<1>4. CASE SqlRow(s)
    BY <1>1, <1>2, <1>4, SqlRowEffect, KeepsRefines, TakesRefines
<1> QED
    BY <1>2, <1>3, <1>4 DEF Begin, StatementRow, Lose

\* It ends.
LEMMA FinishRefines ==
    ASSUME IInv, NEW p \in Pid, Finish(p)
    PROVE  [Abstract!Next]_Abstract!vars
<1>1. TypeOK /\ RunningBegun /\ OnePerPid /\ CostsEnded /\ WaitingMuddled
    BY DEF IInv, Tables
<1>2. PICK s \in Statement : s = <<p, begun[p]>>
    BY <1>1, LastStatement DEF Finish, Muddle, server
<1>3. CASE Ignored
    BY <1>3 DEF Ignored, Abstract!vars
<1>4. CASE DurationRow(s)
    BY <1>1, <1>4, DurationRefines
<1> QED
    BY <1>2, <1>3, <1>4 DEF Finish, Lose

\* It was logged when it ended, as one row.
LEMMA JoinedRefines ==
    ASSUME IInv, NEW p \in Pid, NEW cat \in Category, Joined(p, cat)
    PROVE  [Abstract!Next]_Abstract!vars
<1>1. TypeOK /\ NamesBegun /\ OnePerPid /\ CostsEnded /\ WaitingMuddled
    BY DEF IInv, Tables
<1>2. running' = [running EXCEPT ![p] = "none"]
    BY <1>1 DEF Joined, TypeOK
<1>3. PICK s \in Statement :
        /\ s = <<p, begun[p] + 1>>
        /\ s \notin pendingSql \cup {d.sql : d \in docs} \cup dropped /\ Moves(s)
    BY <1>1, <1>2, NextStatement DEF Joined, Muddle
<1>4. CASE Ignored
    BY <1>4 DEF Ignored, Abstract!vars
<1>5. CASE DurationRow(s)
    BY <1>1, <1>5, DurationRefines
<1>6. CASE WholeRow(s)
    BY <1>1, <1>3, <1>6, WholeRowEffect, WholeRefines DEF Moves
<1> QED
    BY <1>3, <1>4, <1>5, <1>6 DEF Joined, JoinedRow, Lose

\* flush_pending is the contract's expiry.
LEMMA FlushPendingRefines ==
    ASSUME IInv, FlushPending
    PROVE  Abstract!Expire
<1>1. /\ aged \subseteq pendingSql /\ pendingSql' = pendingSql \ aged /\ dropped' = dropped
      /\ docs' = docs \cup {[sql |-> s, cost |-> {}] : s \in aged}
    BY FlushEffect DEF IInv, Tables
<1>2. {d.sql : d \in docs'} = {d.sql : d \in docs} \cup aged
    <2> DEFINE doc(s) == [sql |-> s, cost |-> {}]
    <2>1. ASSUME NEW s \in aged PROVE doc(s).sql = s
        OBVIOUS
    <2> HIDE DEF doc
    <2>2. {d.sql : d \in {doc(s) : s \in aged}} = aged
        BY <2>1, Zenon
    <2>3. {[sql |-> s, cost |-> {}] : s \in aged} = {doc(s) : s \in aged}
        BY DEF doc
    <2> QED
        BY <1>1, <2>2, <2>3, StatementsOfUnion
<1> QED
    BY <1>1, <1>2 DEF Abstract!Expire

\* Every step is one of the contract, or changes nothing it shows.
LEMMA StepRefines == IInv /\ [Next]_vars => [Abstract!Next]_Abstract!vars
<1> SUFFICES ASSUME IInv, [Next]_vars PROVE [Abstract!Next]_Abstract!vars
    OBVIOUS
<1>1. CASE TimeoutPasses \/ UNCHANGED vars
    BY <1>1 DEF TimeoutPasses, vars, table, Abstract!vars
<1>2. CASE FlushPending
    BY <1>2, FlushPendingRefines DEF Abstract!Next
<1>3. ASSUME NEW p \in Pid, Fail(p) PROVE UNCHANGED Abstract!vars
    BY <1>3 DEF Fail, table, Abstract!vars
<1> QED
    BY <1>1, <1>2, <1>3, BeginRefines, FinishRefines, JoinedRefines DEF Next

\* PgConsumer implements the pairing the consumer loop relies on: an SQL row is
\* kept, written or dropped, once, as PairingContract says.
THEOREM PairingImplemented == Spec => ImplementsPairing
<1>1. Init => Abstract!Init
    BY DEF Init, Abstract!Init
<1> QED
    BY <1>1, StepRefines, Invariance, PTL DEF Spec, ImplementsPairing, Abstract!Spec

-----------------------------------------------------------------------------
(* LogTail.                                                                *)

\* An inode number is that of the file's own count, or of a file before it; so
\* the next count is a number no file has had.
InodesCounted == \A g \in 1 .. Len(files) : files[g].inode <= g

\* The thread, its memory and its checkpoint know inodes of files only.
InodesKnown ==
    \A i \in {inode, saved, disk.inode} \ {None} :
        \E g \in 1 .. Len(files) : files[g].inode = i

\* While no file is at the path there may be another one.
RoomForFile == path = None => Len(files) < MaxFiles

\* Between stat and the next one the thread has an inode, and then a file.
HasFile ==
    /\ pc \in {"open", "read", "wait"} => inode # None
    /\ pc \in {"read", "wait"} => fh # None

\* The first p lines of file g, of size n, are there, and were sent.
SentUpTo(g, n, p, sent) == p <= n /\ \A k \in 1 .. p : <<g, k>> \in sent

\* The file at the path is the only one that ever had the inode i.
OnlyAtPath(i) == path # None /\ ~Reused(path) /\ files[path].inode = i

\* What names the file at the path has a position up to which it was sent.
DiskSent == OnlyAtPath(disk.inode)
                => SentUpTo(path, files[path].size, disk.position, Sent)

StatSent == pc = "stat" /\ OnlyAtPath(saved)
                => SentUpTo(path, files[path].size, pos, Sent)

OpenSent == pc = "open" /\ OnlyAtPath(inode)
                => SentUpTo(path, files[path].size, pos, Sent)

\* While it reads a file by that file's inode, it has sent what is behind it,
\* whether or not the file is still at the path.
Reading == pc \in {"read", "wait"}
ReadSent == Reading /\ inode = files[fh].inode /\ ~Reused(fh)
                => SentUpTo(fh, files[fh].size, pos, Sent)

\* A thread that has the inode of the file at the path has that file open.
ReadsPath == Reading /\ OnlyAtPath(inode) => fh = path

\* Without a checkpoint there is no position.
NoneIsStart ==
    /\ saved = None => pos = 0 /\ due
    /\ disk.inode = None => disk.position = 0

\* As long as every checkpoint was written.
PositionsSent ==
    /\ NoneIsStart /\ ReadsPath
    /\ DiskSent /\ StatSent /\ OpenSent /\ ReadSent

TailIInv ==
    /\ TailTypeOK /\ InodesCounted /\ InodesKnown /\ RoomForFile /\ HasFile
    /\ saveFaults = 0 => PositionsSent

-----------------------------------------------------------------------------
(* The files.                                                              *)

\* What is known of the files by their type.
LEMMA Files ==
    ASSUME TailTypeOK
    PROVE  /\ Len(files) \in Nat \ {0} /\ Len(files) <= MaxFiles /\ MaxFiles \in Nat
           /\ MaxSize \in Nat
           /\ \A g \in 1 .. Len(files) :
                 /\ files[g] \in [inode : Inode, size : 0 .. MaxSize]
                 /\ files[g].inode \in Inode /\ files[g].inode \in Nat \ {0}
                 /\ files[g].size \in 0 .. MaxSize /\ files[g].size \in Nat
           /\ path # None => path = Len(files) /\ path \in 1 .. Len(files)
           /\ fh # None => fh \in 1 .. Len(files)
<1>1. /\ Len(files) \in Nat \ {0} /\ Len(files) <= MaxFiles /\ MaxFiles \in Nat
      /\ MaxSize \in Nat
    <2>1. Len(files) \in 1 .. MaxFiles
        BY DEF TailTypeOK
    <2> QED
        BY <2>1, TailAssumption
<1>2. \A g \in 1 .. Len(files) : files[g] \in [inode : Inode, size : 0 .. MaxSize]
    <2> DEFINE File == [inode : Inode, size : 0 .. MaxSize]
    <2>1. files \in Seq(File)
        BY DEF TailTypeOK
    <2> HIDE DEF File
    <2>2. \A g \in 1 .. Len(files) : files[g] \in File
        BY <2>1
    <2> QED
        BY <2>2 DEF File
<1>3. \A g \in 1 .. Len(files) :
         /\ files[g].inode \in Inode /\ files[g].inode \in Nat \ {0}
         /\ files[g].size \in 0 .. MaxSize /\ files[g].size \in Nat
    BY <1>1, <1>2 DEF Inode
<1>4. /\ path # None => path = Len(files) /\ path \in 1 .. Len(files)
      /\ fh # None => fh \in 1 .. Len(files)
    BY <1>1 DEF TailTypeOK, None
<1> QED
    BY <1>1, <1>2, <1>3, <1>4

\* The invariant holds before the first step.
LEMMA TailInitInv == TailInit => TailIInv
<1> SUFFICES ASSUME TailInit PROVE TailIInv
    OBVIOUS
<1>1. /\ files = <<[inode |-> 1, size |-> 0]>> /\ Len(files) = 1
      /\ files[1] = [inode |-> 1, size |-> 0]
    BY DEF TailInit
<1>2. TailTypeOK
    <2>1. [inode |-> 1, size |-> 0] \in [inode : Inode, size : 0 .. MaxSize]
        BY TailAssumption DEF Inode
    <2>2. files \in Seq([inode : Inode, size : 0 .. MaxSize])
        BY <1>1, <2>1
    <2>3. [inode |-> None, position |-> 0] \in Checkpoint
        BY TailAssumption DEF Checkpoint
    <2>4. 1 \in 1 .. MaxFiles
        BY TailAssumption
    <2>5. /\ 0 \in 0 .. MaxSize /\ 0 \in 0 .. MaxCrashes /\ 0 \in 0 .. MaxSaveFaults
          /\ 0 \in 0 .. MaxSendFaults
        BY TailAssumption
    <2>6. /\ queue \subseteq Line /\ delivered \subseteq Line /\ refused \subseteq Line
          /\ killed \subseteq Line
        BY DEF TailInit
    <2>7. fh \in 0 .. Len(files) /\ inode \in Inode \cup {None} /\ saved \in Inode \cup {None}
        BY <1>1 DEF TailInit, None
    <2> QED
        BY <1>1, <2>2, <2>3, <2>4, <2>5, <2>6, <2>7 DEF TailInit, TailTypeOK
<1>3. InodesCounted /\ InodesKnown /\ RoomForFile /\ HasFile
    BY <1>1 DEF TailInit, InodesCounted, InodesKnown, RoomForFile, HasFile, None
<1>4. PositionsSent
    BY <1>1 DEF TailInit, PositionsSent, NoneIsStart, ReadsPath, DiskSent, StatSent, OpenSent,
                ReadSent, Reading, OnlyAtPath, SentUpTo, None
<1> QED
    BY <1>2, <1>3, <1>4 DEF TailIInv

-----------------------------------------------------------------------------
(* The log moves; the thread does not.                                     *)

\* The database writes a line.
LEMMA WriteInv ==
    ASSUME TailIInv, Write
    PROVE  TailIInv'
<1> DEFINE n == Len(files)
<1>1. TailTypeOK /\ n \in 1 .. n /\ n \in Nat
    BY Files DEF TailIInv
<1>2. /\ Len(files') = n
      /\ \A g \in 1 .. n : /\ files'[g].inode = files[g].inode
                           /\ files'[g].size \in 0 .. MaxSize
                           /\ files[g].size <= files'[g].size
      /\ files' \in Seq([inode : Inode, size : 0 .. MaxSize])
    <2> DEFINE longer == [files[n] EXCEPT !.size = @ + 1]
    <2>1. files' = [files EXCEPT ![n] = longer]
        BY DEF Write
    <2>2. /\ longer.inode = files[n].inode /\ longer.size = files[n].size + 1
          /\ longer \in [inode : Inode, size : 0 .. MaxSize]
        <3>1. files[n] \in [inode : Inode, size : 0 .. MaxSize] /\ files[n].size < MaxSize
            BY <1>1, Files DEF Write
        <3> QED
            BY <1>1, <3>1, Files
    <2> HIDE DEF longer
    <2>3. Len(files') = n /\ \A g \in 1 .. n : files'[g] = IF g = n THEN longer ELSE files[g]
        BY <1>1, <2>1 DEF TailTypeOK
    <2>4. files' \in Seq([inode : Inode, size : 0 .. MaxSize])
        BY <1>1, <2>1, <2>2 DEF TailTypeOK
    <2> QED
        BY <1>1, <2>2, <2>3, <2>4, Files
<1>3. UNCHANGED <<path, pc, fh, inode, pos, saved, due, disk, stopping, queue, delivered,
                  refused, killed, crashes, saveFaults, sendFaults>>
    BY DEF Write, memory, kafka, budget
<1>4. TailTypeOK'
    BY <1>1, <1>2, <1>3 DEF TailTypeOK
<1>5. InodesCounted' /\ InodesKnown' /\ RoomForFile' /\ HasFile'
    BY <1>2, <1>3 DEF TailIInv, InodesCounted, InodesKnown, RoomForFile, HasFile
<1>6. ASSUME NEW g \in 1 .. n, NEW p \in Nat, SentUpTo(g, files[g].size, p, Sent)
      PROVE  SentUpTo(g, files'[g].size, p, Sent')
    <2>1. Sent' = Sent
        BY <1>3 DEF Sent
    <2> QED
        BY <1>1, <1>2, <1>6, <2>1, Files DEF SentUpTo
<1>7. \A g \in 1 .. n : Reused(g)' <=> Reused(g)
    <2>1. \A g \in 1 .. n : 1 .. g - 1 \subseteq 1 .. n
        BY <1>1
    <2> QED
        BY <1>2, <2>1 DEF Reused
<1>8. PositionsSent => PositionsSent'
    <2>1. \A i : OnlyAtPath(i)' <=> OnlyAtPath(i)
        BY <1>1, <1>2, <1>3, <1>7, Files DEF OnlyAtPath
    <2>2. pos \in Nat /\ disk.position \in Nat
        BY <1>1, TailAssumption DEF TailTypeOK, Checkpoint
    <2> QED
        BY <1>1, <1>2, <1>3, <1>6, <1>7, <2>1, <2>2, Files
           DEF TailIInv, PositionsSent, NoneIsStart, ReadsPath, DiskSent, StatSent, OpenSent,
               ReadSent, Reading, OnlyAtPath, HasFile
<1> QED
    BY <1>3, <1>4, <1>5, <1>8 DEF TailIInv

\* The file at the path is renamed or deleted: what is read of it was sent.
LEMMA RemoveInv ==
    ASSUME TailIInv, Remove
    PROVE  TailIInv'
<1>1. /\ UNCHANGED <<files, pc, fh, inode, pos, saved, due, disk, stopping, queue, delivered,
                     refused, killed, crashes, saveFaults, sendFaults>>
      /\ path' = None /\ Len(files) < MaxFiles
    BY DEF Remove, memory, kafka, budget
<1>2. TailTypeOK'
    BY <1>1 DEF TailIInv, TailTypeOK
<1>3. InodesCounted' /\ InodesKnown' /\ RoomForFile' /\ HasFile'
    BY <1>1 DEF TailIInv, InodesCounted, InodesKnown, RoomForFile, HasFile
<1>4. PositionsSent => PositionsSent'
    BY <1>1 DEF PositionsSent, NoneIsStart, ReadsPath, DiskSent, StatSent, OpenSent, ReadSent,
                Reading, OnlyAtPath, Reused, Sent
<1> QED
    BY <1>1, <1>2, <1>3, <1>4 DEF TailIInv

\* A file is created: its inode is new to the thread and its checkpoint, or
\* is that of an earlier file.
LEMMA CreateInv ==
    ASSUME TailIInv, Create
    PROVE  TailIInv'
<1> DEFINE n == Len(files)
<1>1. TailTypeOK /\ n \in Nat \ {0} /\ n + 1 \in 1 .. MaxFiles
    BY Files DEF TailIInv, Create, RoomForFile
<1>2. /\ UNCHANGED <<pc, fh, inode, pos, saved, due, disk, stopping, queue, delivered,
                     refused, killed, crashes, saveFaults, sendFaults>>
      /\ path' = n + 1
    BY DEF Create, memory, kafka, budget
<1>3. PICK i \in FreeInodes : files' = Append(files, [inode |-> i, size |-> 0])
    BY DEF Create
<1>4. i \in Inode /\ i \in Nat /\ i <= n + 1
    <2>1. CASE i = n + 1
        BY <1>1, <2>1 DEF Inode
    <2>2. ASSUME NEW g \in 1 .. n, i = files[g].inode PROVE i \in Inode /\ i <= n
        BY <1>1, <2>2, Files DEF TailIInv, InodesCounted
    <2> QED
        BY <1>1, <2>1, <2>2 DEF FreeInodes, Inode
<1>5. /\ Len(files') = n + 1 /\ \A g \in 1 .. n : files'[g] = files[g]
      /\ files'[n + 1].inode = i
      /\ files' \in Seq([inode : Inode, size : 0 .. MaxSize])
    <2> DEFINE new == [inode |-> i, size |-> 0]
    <2>1. new \in [inode : Inode, size : 0 .. MaxSize] /\ new.inode = i
        BY <1>1, <1>4, Files
    <2>2. files' = Append(files, new) /\ files \in Seq([inode : Inode, size : 0 .. MaxSize])
        BY <1>1, <1>3 DEF TailTypeOK
    <2> HIDE DEF new
    <2> QED
        BY <1>1, <2>1, <2>2
<1>6. TailTypeOK'
    <2>1. fh' \in 0 .. Len(files')
        BY <1>1, <1>2, <1>5 DEF TailTypeOK
    <2> QED
        BY <1>1, <1>2, <1>5, <2>1 DEF TailTypeOK
<1>7. InodesCounted' /\ InodesKnown' /\ RoomForFile' /\ HasFile'
    <2>1. InodesCounted'
        BY <1>1, <1>4, <1>5 DEF TailIInv, InodesCounted
    <2>2. InodesKnown'
        <3>1. \A g \in 1 .. n : g \in 1 .. n + 1 /\ files'[g].inode = files[g].inode
            BY <1>1, <1>5
        <3>2. {inode, saved, disk.inode}' = {inode, saved, disk.inode}
            BY <1>2
        <3> QED
            BY <1>5, <3>1, <3>2 DEF TailIInv, InodesKnown
    <2>3. RoomForFile' /\ HasFile'
        BY <1>1, <1>2 DEF TailIInv, RoomForFile, HasFile, None
    <2> QED
        BY <2>1, <2>2, <2>3
<1>8. \A j \in {inode, saved, disk.inode} : ~OnlyAtPath(j)'
    <2>1. ASSUME NEW j \in {inode, saved, disk.inode}, OnlyAtPath(j)' PROVE FALSE
        <3>1. j = i /\ j # None
            BY <1>2, <1>4, <1>5, <2>1, Files DEF OnlyAtPath, None, Inode
        <3>2. PICK g \in 1 .. n : files[g].inode = j
            BY <3>1 DEF TailIInv, InodesKnown
        <3>3. Reused(path)'
            BY <1>1, <1>2, <1>5, <3>1, <3>2 DEF Reused
        <3> QED
            BY <2>1, <3>3 DEF OnlyAtPath
    <2> QED
        BY <2>1
<1>9. PositionsSent => PositionsSent'
    <2>1. Sent' = Sent
        BY <1>2 DEF Sent
    <2>2. Reading => /\ fh \in 1 .. n /\ files'[fh] = files[fh]
                     /\ Reused(fh)' <=> Reused(fh)
        <3>1. ASSUME Reading PROVE fh \in 1 .. n /\ files'[fh] = files[fh]
            BY <1>1, <1>5, <3>1, Files DEF TailIInv, HasFile, Reading
        <3>2. ASSUME fh \in 1 .. n PROVE Reused(fh)' <=> Reused(fh)
            <4>1. 1 .. fh - 1 \subseteq 1 .. n
                BY <1>1, <3>2
            <4> QED
                BY <1>2, <1>5, <3>2, <4>1 DEF Reused
        <3> QED
            BY <3>1, <3>2
    <2>3. ReadSent => ReadSent'
        BY <1>2, <2>1, <2>2 DEF ReadSent, Reading
    <2>4. ReadsPath' /\ DiskSent' /\ StatSent' /\ OpenSent'
        BY <1>2, <1>8 DEF ReadsPath, DiskSent, StatSent, OpenSent
    <2>5. NoneIsStart => NoneIsStart'
        BY <1>2 DEF NoneIsStart
    <2> QED
        BY <2>3, <2>4, <2>5 DEF PositionsSent
<1> QED
    BY <1>2, <1>6, <1>7, <1>9 DEF TailIInv

-----------------------------------------------------------------------------
(* The thread moves; the log does not.                                     *)

\* What holds of the files goes on to hold, while nothing that was sent is lost.
LEMMA LogKept ==
    ASSUME TailTypeOK, UNCHANGED log, Sent \subseteq Sent'
    PROVE  /\ files' = files /\ path' = path
           /\ \A g : Reused(g)' <=> Reused(g)
           /\ \A i : OnlyAtPath(i)' <=> OnlyAtPath(i)
           /\ \A g, p : SentUpTo(g, files[g].size, p, Sent)
                           => SentUpTo(g, files[g].size, p, Sent')
           /\ InodesCounted => InodesCounted'
           /\ RoomForFile => RoomForFile'
<1>1. files' = files /\ path' = path
    BY DEF log
<1>2. \A g : Reused(g)' <=> Reused(g)
    BY <1>1 DEF Reused
<1>3. \A i : OnlyAtPath(i)' <=> OnlyAtPath(i)
    BY <1>1, <1>2 DEF OnlyAtPath, Reused
<1>4. \A g, p : SentUpTo(g, files[g].size, p, Sent) => SentUpTo(g, files[g].size, p, Sent')
    BY DEF SentUpTo
<1>5. InodesCounted => InodesCounted'
    BY <1>1 DEF InodesCounted
<1>6. RoomForFile => RoomForFile'
    BY <1>1 DEF RoomForFile
<1> QED
    BY <1>1, <1>2, <1>3, <1>4, <1>5, <1>6

\* Kafka's producer, signals and the clock leave the thread where it is.
LEMMA QuietInv ==
    ASSUME TailIInv, TailTypeOK', UNCHANGED <<log, pc, fh, inode, pos, saved, disk, saveFaults>>,
           due' \in {due, TRUE}, Sent \subseteq Sent'
    PROVE  TailIInv'
<1>1. /\ TailTypeOK /\ InodesCounted' /\ RoomForFile' /\ files' = files /\ path' = path
      /\ UNCHANGED <<pc, fh, inode, pos, saved, disk, saveFaults>>
    BY LogKept DEF TailIInv
<1>2. InodesKnown' /\ HasFile'
    BY <1>1 DEF TailIInv, InodesKnown, HasFile
<1>3. PositionsSent => PositionsSent'
    <2>1. NoneIsStart => NoneIsStart'
        BY <1>1 DEF NoneIsStart
    <2>2. DiskSent => DiskSent'
        BY <1>1, LogKept DEF DiskSent
    <2>3. StatSent => StatSent'
        BY <1>1, LogKept DEF StatSent
    <2>4. OpenSent => OpenSent'
        BY <1>1, LogKept DEF OpenSent
    <2>5. ReadSent => ReadSent'
        BY <1>1, LogKept DEF ReadSent, Reading
    <2>6. ReadsPath => ReadsPath'
        BY <1>1, LogKept DEF ReadsPath, Reading
    <2> QED
        BY <2>1, <2>2, <2>3, <2>4, <2>5, <2>6 DEF PositionsSent
<1> QED
    BY <1>1, <1>2, <1>3 DEF TailIInv

\* A queued line is delivered, or given up: it was sent, either way.
LEMMA DeliverInv ==
    ASSUME TailIInv, Deliver
    PROVE  TailIInv'
<1>1. /\ UNCHANGED <<log, pc, fh, inode, pos, saved, due, disk, stopping, killed, crashes,
                     saveFaults>>
    BY DEF Deliver, memory
<1>2. PICK l \in queue :
        /\ queue' = queue \ {l}
        /\ \/ delivered' = delivered \cup {l} /\ UNCHANGED <<refused, sendFaults>>
           \/ /\ sendFaults < MaxSendFaults /\ sendFaults' = sendFaults + 1
              /\ refused' = refused \cup {l} /\ UNCHANGED delivered
    BY DEF Deliver
<1>3. l \in Line /\ queue \subseteq Line /\ delivered \subseteq Line /\ refused \subseteq Line
    BY DEF TailIInv, TailTypeOK
<1>4. sendFaults' \in 0 .. MaxSendFaults
    BY <1>2, TailAssumption DEF TailIInv, TailTypeOK
<1>5. TailTypeOK'
    BY <1>1, <1>2, <1>3, <1>4 DEF TailIInv, TailTypeOK, log
<1>6. Sent \subseteq Sent'
    BY <1>1, <1>2 DEF Sent
<1> QED
    BY <1>1, <1>5, <1>6, QuietInv

\* Nothing of the start of a file was missed.
LEMMA NothingBehind ==
    ASSUME TailTypeOK, path # None
    PROVE  \A sent : SentUpTo(path, files[path].size, 0, sent)
    BY Files DEF SentUpTo

\* _tail_file looks at the path: the position is kept for the file of the
\* checkpoint only.
LEMMA StatInv ==
    ASSUME TailIInv, Stat
    PROVE  TailIInv'
<1>1. /\ UNCHANGED <<log, fh, saved, due, disk, stopping, queue, delivered, refused, killed,
                     crashes, saveFaults, sendFaults>>
      /\ pc = "stat" /\ pc' = "open" /\ path # None
      /\ inode' = files[path].inode
      /\ pos' = IF Rotated(inode') THEN 0 ELSE pos
    BY DEF Stat, kafka, budget
<1>2. TailTypeOK /\ Sent' = Sent
    BY <1>1 DEF TailIInv, Sent
<1>3. /\ InodesCounted' /\ RoomForFile' /\ files' = files /\ path' = path
      /\ path \in 1 .. Len(files) /\ inode' \in Inode /\ inode' # None
    BY <1>1, <1>2, LogKept, Files DEF TailIInv, None
<1>4. pos' \in 0 .. MaxSize
    BY <1>1, <1>2, TailAssumption DEF TailTypeOK
<1>5. TailTypeOK'
    BY <1>1, <1>2, <1>3, <1>4 DEF TailTypeOK
<1>6. InodesKnown' /\ HasFile'
    BY <1>1, <1>3 DEF TailIInv, InodesKnown, HasFile
<1>7. PositionsSent => PositionsSent'
    <2> SUFFICES ASSUME PositionsSent PROVE PositionsSent'
        OBVIOUS
    <2>1. NoneIsStart'
        BY <1>1 DEF PositionsSent, NoneIsStart, Rotated
    <2>2. DiskSent'
        BY <1>1, <1>2, LogKept DEF PositionsSent, DiskSent
    <2>3. OpenSent'
        <3>1. CASE pos' = 0
            BY <1>1, <1>2, <1>3, <3>1, NothingBehind DEF OpenSent
        <3>2. CASE pos' # 0
            <4>1. saved = inode' /\ pos' = pos
                BY <1>1, <3>2 DEF PositionsSent, NoneIsStart, Rotated
            <4>2. OnlyAtPath(inode)' => OnlyAtPath(saved)
                BY <1>1, <1>2, <1>3, <4>1, LogKept DEF OnlyAtPath
            <4> QED
                BY <1>1, <1>2, <1>3, <4>1, <4>2 DEF PositionsSent, StatSent, OpenSent
        <3> QED
            BY <3>1, <3>2
    <2>4. StatSent' /\ ReadSent' /\ ReadsPath'
        BY <1>1 DEF StatSent, ReadSent, ReadsPath, Reading
    <2> QED
        BY <2>1, <2>2, <2>3, <2>4 DEF PositionsSent
<1> QED
    BY <1>1, <1>3, <1>5, <1>6, <1>7 DEF TailIInv

\* It opens what is at the path by now.
LEMMA OpenInv ==
    ASSUME TailIInv, Open
    PROVE  TailIInv'
<1>1. /\ UNCHANGED <<log, inode, pos, saved, due, disk, stopping, queue, delivered, refused,
                     killed, crashes, saveFaults, sendFaults>>
      /\ pc = "open" /\ pc' = (IF path = None THEN "stat" ELSE "read") /\ fh' = path
    BY DEF Open, kafka, budget
<1>2. TailTypeOK /\ Sent' = Sent
    BY <1>1 DEF TailIInv, Sent
<1>3. /\ InodesCounted' /\ RoomForFile' /\ files' = files /\ path' = path
      /\ path \in 0 .. Len(files)
    BY <1>1, <1>2, LogKept, Files DEF TailIInv, None
<1>4. TailTypeOK'
    BY <1>1, <1>2, <1>3 DEF TailTypeOK
<1>5. InodesKnown' /\ HasFile'
    BY <1>1, <1>3 DEF TailIInv, InodesKnown, HasFile
<1>6. PositionsSent => PositionsSent'
    <2> SUFFICES ASSUME PositionsSent PROVE PositionsSent'
        OBVIOUS
    <2>1. NoneIsStart'
        BY <1>1 DEF PositionsSent, NoneIsStart
    <2>2. DiskSent'
        BY <1>1, <1>2, LogKept DEF PositionsSent, DiskSent
    <2>3. StatSent' /\ OpenSent'
        BY <1>1, <1>3 DEF StatSent, OpenSent, OnlyAtPath
    <2>4. ReadSent'
        <3>1. CASE path = None
            BY <1>1, <3>1 DEF ReadSent, Reading
        <3>2. CASE path # None
            BY <1>1, <1>2, <1>3, <3>2, LogKept
               DEF PositionsSent, OpenSent, ReadSent, OnlyAtPath
        <3> QED
            BY <3>1, <3>2
    <2>5. ReadsPath'
        BY <1>1, <1>3 DEF ReadsPath
    <2> QED
        BY <2>1, <2>2, <2>3, <2>4, <2>5 DEF PositionsSent
<1> QED
    BY <1>1, <1>3, <1>4, <1>5, <1>6 DEF TailIInv

\* There is nothing to read: the thread waits.
LEMMA EndOfFileInv ==
    ASSUME TailIInv, EndOfFile
    PROVE  TailIInv'
<1>1. /\ UNCHANGED <<log, fh, inode, pos, saved, due, disk, stopping, queue, delivered,
                     refused, killed, crashes, saveFaults, sendFaults>>
      /\ pc = "read" /\ pc' = "wait"
    BY DEF EndOfFile, kafka, budget
<1>2. TailTypeOK /\ Sent' = Sent
    BY <1>1 DEF TailIInv, Sent
<1>3. InodesCounted' /\ RoomForFile' /\ files' = files /\ path' = path
    BY <1>1, <1>2, LogKept DEF TailIInv
<1>4. TailTypeOK'
    BY <1>1, <1>2, <1>3 DEF TailTypeOK
<1>5. InodesKnown' /\ HasFile'
    BY <1>1, <1>3 DEF TailIInv, InodesKnown, HasFile
<1>6. PositionsSent => PositionsSent'
    <2>1. NoneIsStart => NoneIsStart'
        BY <1>1 DEF NoneIsStart
    <2>2. DiskSent => DiskSent'
        BY <1>1, <1>2, LogKept DEF DiskSent
    <2>3. StatSent' /\ OpenSent'
        BY <1>1 DEF StatSent, OpenSent
    <2>4. (ReadSent => ReadSent') /\ (ReadsPath => ReadsPath')
        BY <1>1, <1>2, <1>3, LogKept DEF ReadSent, ReadsPath, Reading
    <2> QED
        BY <2>1, <2>2, <2>3, <2>4 DEF PositionsSent
<1> QED
    BY <1>1, <1>3, <1>4, <1>5, <1>6 DEF TailIInv

\* _save_checkpoint writes the inode and the position, or fails and is counted.
LEMMA SaveEffect ==
    ASSUME TailTypeOK, NEW i \in Inode, NEW p \in 0 .. MaxSize, Save(i, p)
    PROVE  /\ disk' \in Checkpoint /\ saved' \in {saved, i}
           /\ disk'.inode \in {disk.inode, None, i}
           /\ saveFaults' \in 0 .. MaxSaveFaults
           /\ saveFaults' = 0 =>
                /\ saveFaults = 0 /\ saved' = i
                /\ disk'.inode = i /\ disk'.position = p
<1>1. saveFaults \in Nat /\ saveFaults \in 0 .. MaxSaveFaults /\ disk \in Checkpoint
    BY TailAssumption DEF TailTypeOK
<1>2. CASE disk' = [inode |-> i, position |-> p] /\ saved' = i /\ UNCHANGED saveFaults
    BY <1>1, <1>2 DEF Checkpoint
<1>3. CASE /\ saveFaults < MaxSaveFaults /\ saveFaults' = saveFaults + 1
           /\ disk' \in {disk, [inode |-> None, position |-> 0]}
           /\ UNCHANGED saved
    <2>1. [inode |-> None, position |-> 0] \in Checkpoint
        BY TailAssumption DEF Checkpoint
    <2>2. saveFaults' # 0 /\ saveFaults' \in 0 .. MaxSaveFaults
        BY <1>1, <1>3, TailAssumption
    <2> QED
        BY <1>1, <1>3, <2>1, <2>2
<1> QED
    BY <1>2, <1>3 DEF Save

\* produce() queues the line or refuses it: it was sent, either way.
LEMMA SendEffect ==
    ASSUME TailTypeOK, NEW l \in Line, Send(l)
    PROVE  /\ Sent' = Sent \cup {l} /\ UNCHANGED <<delivered, killed>>
           /\ queue' \in SUBSET Line /\ refused' \in SUBSET Line
           /\ sendFaults' \in 0 .. MaxSendFaults
<1>1. sendFaults < MaxSendFaults => sendFaults + 1 \in 0 .. MaxSendFaults
    BY TailAssumption DEF TailTypeOK
<1> QED
    BY <1>1 DEF Send, Sent, TailTypeOK

\* A line is read and sent, and a checkpoint is saved when it is due.
LEMMA ReadLineInv ==
    ASSUME TailIInv, ReadLine
    PROVE  TailIInv'
<1>1. /\ UNCHANGED <<log, pc, fh, inode, stopping, crashes>>
      /\ pc = "read" /\ due' = FALSE /\ pos' = pos + 1
      /\ pos < files[fh].size
      /\ Send(<<fh, pos + 1>>)
      /\ IF due THEN Save(inode, pos + 1) ELSE NoSave
    BY DEF ReadLine
<1>2. /\ TailTypeOK /\ fh \in 1 .. Len(files) /\ inode \in Inode /\ inode # None
      /\ files[fh].size \in Nat /\ files[fh].size <= MaxSize /\ pos \in Nat
    <2>1. TailTypeOK /\ inode # None /\ fh # None
        BY <1>1 DEF TailIInv, HasFile
    <2>2. inode \in Inode /\ pos \in 0 .. MaxSize
        BY <2>1 DEF TailTypeOK
    <2>3. fh \in 1 .. Len(files)
        BY <2>1, Files
    <2>4. files[fh].size \in 0 .. MaxSize /\ files[fh].size \in Nat /\ MaxSize \in Nat
        BY <2>1, <2>3, Files
    <2> QED
        BY <2>1, <2>2, <2>3, <2>4
<1>3. pos + 1 \in 1 .. MaxSize /\ pos + 1 \in 0 .. MaxSize /\ pos + 1 <= files[fh].size
    BY <1>1, <1>2, TailAssumption
<1>4. /\ Sent' = Sent \cup {<<fh, pos + 1>>} /\ UNCHANGED <<delivered, killed>>
      /\ queue' \in SUBSET Line /\ refused' \in SUBSET Line
      /\ sendFaults' \in 0 .. MaxSendFaults
    <2>1. fh \in 1 .. MaxFiles
        BY <1>2, Files
    <2>2. <<fh, pos + 1>> \in Line
        BY <1>3, <2>1 DEF Line
    <2> QED
        BY <1>1, <1>2, <2>2, SendEffect
<1>5. /\ disk' \in Checkpoint /\ saved' \in {saved, inode}
      /\ disk'.inode \in {disk.inode, None, inode}
      /\ saveFaults' \in 0 .. MaxSaveFaults
      /\ saveFaults' = 0 =>
           /\ saveFaults = 0
           /\ \/ saved' = inode /\ disk'.inode = inode /\ disk'.position = pos + 1
              \/ ~due /\ UNCHANGED <<disk, saved>>
    <2>1. CASE due
        BY <1>1, <1>2, <1>3, <2>1, SaveEffect
    <2>2. CASE ~due
        BY <1>1, <1>2, <2>2 DEF NoSave, TailTypeOK
    <2> QED
        BY <2>1, <2>2
<1>6. /\ InodesCounted' /\ RoomForFile' /\ files' = files /\ path' = path
    BY <1>1, <1>2, <1>4, LogKept DEF TailIInv
<1>7. TailTypeOK'
    BY <1>1, <1>2, <1>3, <1>4, <1>5, <1>6 DEF TailTypeOK
<1>8. InodesKnown' /\ HasFile'
    BY <1>1, <1>5, <1>6 DEF TailIInv, InodesKnown, HasFile
<1>9. saveFaults' = 0 => PositionsSent'
    <2> SUFFICES ASSUME saveFaults' = 0 PROVE PositionsSent'
        OBVIOUS
    <2>1. PositionsSent
        BY <1>5 DEF TailIInv
    <2>2. NoneIsStart'
        BY <1>1, <1>2, <1>5, <2>1 DEF PositionsSent, NoneIsStart
    <2>3. ReadSent'
        <3>1. ASSUME SentUpTo(fh, files[fh].size, pos, Sent)
              PROVE  SentUpTo(fh, files[fh].size, pos + 1, Sent')
            BY <1>2, <1>3, <1>4, <3>1 DEF SentUpTo
        <3>2. Reused(fh)' <=> Reused(fh)
            BY <1>1, <1>6 DEF Reused
        <3> QED
            BY <1>1, <1>6, <2>1, <3>1, <3>2 DEF PositionsSent, ReadSent, Reading
    <2>4. ReadsPath'
        BY <1>1, <1>2, <1>4, <2>1, LogKept DEF PositionsSent, ReadsPath, Reading
    <2>5. DiskSent'
        <3>1. CASE UNCHANGED disk
            BY <1>1, <1>2, <1>4, <1>6, <2>1, <3>1, LogKept DEF PositionsSent, DiskSent
        <3>2. CASE disk'.inode = inode /\ disk'.position = pos + 1
            <4>1. SUFFICES ASSUME OnlyAtPath(disk.inode)'
                           PROVE  SentUpTo(path, files[path].size, pos + 1, Sent')
                BY <1>6, <3>2 DEF DiskSent
            <4>2. OnlyAtPath(inode)'
                BY <1>1, <3>2, <4>1 DEF OnlyAtPath
            <4>3. fh' = path' /\ inode' = files'[fh'].inode /\ ~Reused(fh)'
                BY <1>1, <2>4, <4>2 DEF ReadsPath, OnlyAtPath, Reading
            <4> QED
                BY <1>1, <1>6, <2>3, <4>3 DEF ReadSent, Reading
        <3> QED
            BY <1>5, <3>1, <3>2
    <2>6. StatSent' /\ OpenSent'
        BY <1>1 DEF StatSent, OpenSent
    <2> QED
        BY <2>2, <2>3, <2>4, <2>5, <2>6 DEF PositionsSent
<1> QED
    BY <1>6, <1>7, <1>8, <1>9 DEF TailIInv

\* The loop is left, or the file: the checkpoint has the position, and nothing
\* names the file at the path that was not sent.
LEMMA LeaveFileInv ==
    ASSUME TailIInv, UNCHANGED <<log, inode, pos, due, stopping, kafka, crashes, sendFaults>>,
           pc' \in {"stat", "stopped"}, fh' = None,
           \/ Reading /\ Save(inode, pos) /\ (OnlyAtPath(inode) => pc' = "stopped")
           \/ NoSave /\ (path = None \/ pc' = "stopped")
    PROVE  TailIInv'
<1>1. TailTypeOK /\ Sent' = Sent /\ pos \in 0 .. MaxSize
    BY DEF TailIInv, Sent, kafka, TailTypeOK
<1>2. /\ InodesCounted' /\ RoomForFile' /\ files' = files /\ path' = path
    BY <1>1, LogKept DEF TailIInv
<1>3. /\ disk' \in Checkpoint /\ saved' \in {saved, inode}
      /\ disk'.inode \in {disk.inode, None, inode}
      /\ saveFaults' \in 0 .. MaxSaveFaults
      /\ saveFaults' = 0 =>
           /\ saveFaults = 0
           /\ \/ /\ Reading /\ (OnlyAtPath(inode) => pc' = "stopped") /\ inode # None
                 /\ saved' = inode /\ disk'.inode = inode /\ disk'.position = pos
              \/ (path = None \/ pc' = "stopped") /\ UNCHANGED <<disk, saved>>
    <2>1. CASE Reading /\ Save(inode, pos) /\ (OnlyAtPath(inode) => pc' = "stopped")
        <3>1. inode \in Inode /\ inode # None
            BY <1>1, <2>1 DEF TailIInv, HasFile, Reading, TailTypeOK
        <3> QED
            BY <1>1, <2>1, <3>1, SaveEffect
    <2>2. CASE NoSave /\ (path = None \/ pc' = "stopped")
        BY <1>1, <2>2 DEF NoSave, TailTypeOK
    <2> QED
        BY <2>1, <2>2
<1>4. TailTypeOK'
    <2>1. fh' \in 0 .. Len(files')
        BY <1>1, <1>2, Files DEF None
    <2> QED
        BY <1>1, <1>2, <1>3, <2>1 DEF TailTypeOK, kafka
<1>5. InodesKnown' /\ HasFile'
    BY <1>2, <1>3 DEF TailIInv, InodesKnown, HasFile
<1>6. saveFaults' = 0 => PositionsSent'
    <2> SUFFICES ASSUME saveFaults' = 0 PROVE PositionsSent'
        OBVIOUS
    <2>1. PositionsSent
        BY <1>3 DEF TailIInv
    <2>2. NoneIsStart'
        BY <1>3, <2>1 DEF PositionsSent, NoneIsStart
    <2>3. DiskSent'
        <3>1. CASE UNCHANGED disk
            BY <1>1, <1>2, <2>1, <3>1, LogKept DEF PositionsSent, DiskSent
        <3>2. CASE Reading /\ disk'.inode = inode /\ disk'.position = pos
            <4>1. OnlyAtPath(disk.inode)' => OnlyAtPath(inode)
                BY <1>1, <1>2, <3>2, LogKept DEF OnlyAtPath
            <4>2. OnlyAtPath(inode) => SentUpTo(path, files[path].size, pos, Sent)
                BY <2>1, <3>2 DEF PositionsSent, ReadSent, ReadsPath, OnlyAtPath
            <4> QED
                BY <1>1, <1>2, <3>2, <4>1, <4>2 DEF DiskSent
        <3> QED
            BY <1>3, <3>1, <3>2
    <2>4. StatSent'
        <3>1. CASE path = None
            BY <1>2, <3>1 DEF StatSent, OnlyAtPath
        <3>2. CASE pc' = "stopped"
            BY <3>2 DEF StatSent
        <3>3. CASE ~OnlyAtPath(inode) /\ saved' = inode
            <4>1. ~OnlyAtPath(saved)'
                BY <1>1, <1>2, <3>3, LogKept DEF OnlyAtPath
            <4> QED
                BY <4>1 DEF StatSent
        <3> QED
            BY <1>3, <3>1, <3>2, <3>3
    <2>5. OpenSent' /\ ReadSent' /\ ReadsPath'
        BY DEF OpenSent, ReadSent, ReadsPath, Reading
    <2> QED
        BY <2>2, <2>3, <2>4, <2>5 DEF PositionsSent
<1> QED
    BY <1>2, <1>3, <1>4, <1>5, <1>6 DEF TailIInv

\* After the pause the thread reads on, or leaves the file.
LEMMA LookInv ==
    ASSUME TailIInv, Look
    PROVE  TailIInv'
<1>1. /\ pc = "wait"
      /\ UNCHANGED <<log, inode, pos, due, stopping, kafka, crashes, sendFaults>>
    BY DEF Look
<1>2. CASE /\ path # None /\ files[path].inode = inode
           /\ pc' = "read" /\ UNCHANGED fh /\ NoSave
    <2>1. TailTypeOK /\ Sent' = Sent /\ UNCHANGED <<disk, saved, saveFaults>>
        BY <1>1, <1>2 DEF TailIInv, Sent, kafka, NoSave
    <2>2. /\ InodesCounted' /\ RoomForFile' /\ files' = files /\ path' = path
        BY <1>1, <2>1, LogKept DEF TailIInv
    <2>3. TailTypeOK' /\ InodesKnown' /\ HasFile'
        BY <1>1, <1>2, <2>1, <2>2 DEF TailIInv, TailTypeOK, InodesKnown, HasFile, kafka
    <2>4. PositionsSent => PositionsSent'
        <3>1. (NoneIsStart => NoneIsStart') /\ (DiskSent => DiskSent')
            BY <1>1, <2>1, <2>2, LogKept DEF NoneIsStart, DiskSent
        <3>2. StatSent' /\ OpenSent'
            BY <1>2 DEF StatSent, OpenSent
        <3>3. (ReadSent => ReadSent') /\ (ReadsPath => ReadsPath')
            BY <1>1, <1>2, <2>1, <2>2, LogKept DEF ReadSent, ReadsPath, Reading
        <3> QED
            BY <3>1, <3>2, <3>3 DEF PositionsSent
    <2> QED
        BY <2>1, <2>2, <2>3, <2>4 DEF TailIInv
<1>3. CASE /\ path # None /\ files[path].inode # inode
           /\ Save(inode, pos) /\ pc' = "stat" /\ fh' = None
    BY <1>1, <1>3, LeaveFileInv DEF Reading, OnlyAtPath
<1>4. CASE path = None /\ pc' = "stat" /\ fh' = None /\ NoSave
    BY <1>1, <1>4, LeaveFileInv
<1> QED
    BY <1>2, <1>3, <1>4 DEF Look

\* The thread stops, with a last checkpoint when it was reading.
LEMMA LeaveLoopInv ==
    ASSUME TailIInv, LeaveLoop
    PROVE  TailIInv'
    BY LeaveFileInv DEF LeaveLoop, Reading

\* The process is started again from the checkpoint file.
LEMMA CrashInv ==
    ASSUME TailIInv, Crash
    PROVE  TailIInv'
<1>1. /\ crashes < MaxCrashes /\ crashes' = crashes + 1
      /\ pc' = "stat" /\ fh' = None /\ inode' = None
      /\ pos' = disk.position /\ saved' = disk.inode /\ due' = TRUE
      /\ stopping' = FALSE /\ queue' = {} /\ killed' = killed \cup queue
      /\ UNCHANGED <<log, disk, delivered, refused, saveFaults, sendFaults>>
    BY DEF Crash
<1>2. TailTypeOK /\ Sent' = Sent
    BY <1>1 DEF TailIInv, Sent
<1>3. /\ InodesCounted' /\ RoomForFile' /\ files' = files /\ path' = path
    BY <1>1, <1>2, LogKept DEF TailIInv
<1>4. TailTypeOK'
    <2>1. crashes' \in 0 .. MaxCrashes /\ fh' \in 0 .. Len(files')
        BY <1>1, <1>2, <1>3, Files, TailAssumption DEF TailTypeOK, None
    <2>2. pos' \in 0 .. MaxSize /\ saved' \in Inode \cup {None}
        BY <1>1, <1>2 DEF TailTypeOK, Checkpoint
    <2> QED
        BY <1>1, <1>2, <1>3, <2>1, <2>2 DEF TailTypeOK
<1>5. InodesKnown' /\ HasFile'
    BY <1>1, <1>3 DEF TailIInv, InodesKnown, HasFile
<1>6. PositionsSent => PositionsSent'
    <2>1. NoneIsStart => NoneIsStart'
        BY <1>1 DEF NoneIsStart
    <2>2. DiskSent => DiskSent'
        BY <1>1, <1>2, LogKept DEF DiskSent
    <2>3. DiskSent' => StatSent'
        BY <1>1, <1>3 DEF DiskSent, StatSent, OnlyAtPath
    <2>4. OpenSent' /\ ReadSent' /\ ReadsPath'
        BY <1>1 DEF OpenSent, ReadSent, ReadsPath, Reading
    <2> QED
        BY <2>1, <2>2, <2>3, <2>4 DEF PositionsSent
<1> QED
    BY <1>1, <1>3, <1>4, <1>5, <1>6 DEF TailIInv

-----------------------------------------------------------------------------
\* Every step keeps the invariant.
LEMMA TailNextInv == TailIInv /\ [TailNext]_tailVars => TailIInv'
<1> SUFFICES ASSUME TailIInv, [TailNext]_tailVars PROVE TailIInv'
    OBVIOUS
<1>1. CASE SaveIntervalPasses \/ Signal \/ UNCHANGED tailVars
    <2>1. /\ UNCHANGED <<log, pc, fh, inode, pos, saved, disk, kafka, budget>>
          /\ due' \in {due, TRUE} /\ stopping' \in {stopping, TRUE}
        BY <1>1 DEF SaveIntervalPasses, Signal, tailVars, memory
    <2>2. TailTypeOK' /\ Sent' = Sent /\ UNCHANGED saveFaults
        BY <2>1 DEF TailIInv, TailTypeOK, Sent, log, kafka, budget
    <2> QED
        BY <2>1, <2>2, QuietInv
<1> QED
    BY <1>1, WriteInv, RemoveInv, CreateInv, DeliverInv, StatInv, OpenInv, ReadLineInv,
       EndOfFileInv, LookInv, LeaveLoopInv, CrashInv
       DEF TailNext, Step

\* What the thread has behind it in the file it reads was sent, unless the inode
\* number of the file was another's before, or a checkpoint was not written:
\* stat() and open() of different files, rotations, crashes, lines that the
\* producer refuses and stops never make _tail_file pass a line by.
THEOREM SkippedLinesExplained == TailSpec => []SkipsExplained
<1>1. ASSUME TailIInv PROVE SkipsExplained
    <2>1. TailTypeOK
        BY <1>1 DEF TailIInv
    <2>2. ASSUME Skipped # {}, ~Reused(fh), saveFaults <= 0 PROVE FALSE
        <3>1. /\ pc \in {"read", "wait"} /\ inode = files[fh].inode
              /\ \E i \in 1 .. files[fh].size : i <= pos /\ <<fh, i>> \notin Sent
            BY <2>2 DEF Skipped
        <3>2. saveFaults = 0 /\ pos \in Nat
            BY <2>1, <2>2, TailAssumption DEF TailTypeOK
        <3>3. SentUpTo(fh, files[fh].size, pos, Sent)
            BY <1>1, <2>2, <3>1, <3>2 DEF TailIInv, PositionsSent, ReadSent, Reading
        <3> QED
            BY <2>1, <3>1, <3>2, <3>3, Files DEF SentUpTo, TailIInv, HasFile
    <2>3. saveFaults \in Nat
        BY <2>1, TailAssumption DEF TailTypeOK
    <2> QED
        BY <2>1, <2>2, <2>3 DEF SkipsExplained
<1> QED
    BY <1>1, TailInitInv, TailNextInv, PTL DEF TailSpec
=============================================================================
