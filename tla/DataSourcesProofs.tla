--------------------------- MODULE DataSourcesProofs ---------------------------
(***************************************************************************)
(* Proofs about DataSources, for any sources, targets, passwords and       *)
(* numbers of requests: what a source's successful test is worth; that the *)
(* page shows the table when everything has been answered; and that a      *)
(* disabled source is enabled only on purpose.                             *)
(***************************************************************************)
EXTENDS DataSources, TLAPS

NewForm == [open : {TRUE}, new : {TRUE}]
EditForm == [open : {TRUE}, new : {FALSE}, id : Source, enabled : BOOLEAN, unsure : BOOLEAN]

\* The changes in flight: saves, buttons, and answers.
SaveOp == [kind : {"create", "put"}, n : Nat, served : {FALSE}, form : NewForm \cup EditForm,
           mixed : BOOLEAN, enabled : BOOLEAN, target : Target,
           typed : Password \cup {NoPassword}]
RowOp == [kind : {"enable", "disable", "test", "sync"}, n : Nat, served : {FALSE},
          mixed : BOOLEAN, id : Source]
Answer == [kind : {"create", "put", "enable", "disable", "test", "sync"}, n : Nat,
           served : {TRUE}]

\* A form is saved as what it was opened for.
SavedAsOpened(o) ==
    /\ o.kind = "put" => o.form \in EditForm /\ o.form.id \in Existing
    /\ o.kind = "create" => o.typed \in Password

RowsOK == row \in Rows /\ tested \in [Source -> SUBSET Works] /\ asked \in Nat

\* What a list says there is, is there: rows are never deleted.
ListTrue(rows) ==
    \A s \in Source : rows[s] # NoRow => s \in Existing /\ rows[s].enabled \in BOOLEAN

ListsTrue ==
    /\ ListTrue(shown.rows)
    /\ \A l \in loads : l.read => ListTrue(l.rows)

\* So a form, a save and a button are for a source that is there.
FormTrue ==
    form = Closed \/ form \in NewForm \/ (form \in EditForm /\ form.id \in Existing)

OpsTrue ==
    \A o \in ops :
        \/ o \in SaveOp /\ SavedAsOpened(o)
        \/ o \in RowOp /\ o.id \in Existing
        \/ o \in Answer

\* A success is of the login the source has, or of one with its old target.
SuccessTrue ==
    \A s \in Existing :
        row[s].test = "success" => Login(row[s]) \in tested[s] \/ s \in moved

IInv == RowsOK /\ ListsTrue /\ FormTrue /\ OpsTrue /\ SuccessTrue

\* A source that is there has a row, and an empty place has none.
LEMMA RowOfExisting ==
    ASSUME RowsOK
    PROVE  /\ \A s \in Existing : row[s] \in Row /\ s \in Source
           /\ \A r \in Row : r # NoRow
    BY SourceAssumption DEF RowsOK, Rows, Row, Existing

\* The invariant holds when the page opens.
LEMMA InitInv == Init => IInv
<1> SUFFICES ASSUME Init PROVE IInv
    OBVIOUS
<1>1. RowsOK
    BY DEF Init, RowsOK, Rows, Row
<1>2. ListsTrue
    BY DEF Init, ListsTrue, ListTrue, Load
<1>3. FormTrue /\ OpsTrue
    BY DEF Init, FormTrue, OpsTrue
<1>4. SuccessTrue
    BY DEF Init, SuccessTrue, Existing
<1> QED
    BY <1>1, <1>2, <1>3, <1>4 DEF IInv

-----------------------------------------------------------------------------
(* What does not touch the table.                                          *)

\* While the table stays, so does what is known of it.
LEMMA TableStays ==
    ASSUME IInv, UNCHANGED <<row, checks>>, asked' \in Nat
    PROVE  /\ RowsOK' /\ SuccessTrue' /\ Existing' = Existing
           /\ \A rows : ListTrue(rows)' <=> ListTrue(rows)
    BY DEF IInv, RowsOK, SuccessTrue, Existing, ListTrue, checks, Rows

\* A list is asked for.
LEMMA ReloadLists ==
    ASSUME IInv, UNCHANGED <<row, checks>>, asked' = asked, shown' = shown,
           Reload \/ UNCHANGED <<sent, loads, loading>>
    PROVE  ListsTrue'
<1>1. ListsTrue /\ RowsOK
    BY DEF IInv
<1>2. \A rows : ListTrue(rows)' <=> ListTrue(rows)
    BY <1>1, TableStays DEF RowsOK
<1>3. \A l \in loads' : l \in loads \/ ~l.read
    BY DEF Reload, Load
<1> QED
    BY <1>1, <1>2, <1>3 DEF ListsTrue, ListTrue

\* Lists and forms.
LEMMA PageInv ==
    ASSUME IInv,
           \/ Refresh \/ OpenCreate \/ Cancel
           \/ \E l \in loads : ServeList(l) \/ Loaded(l) \/ LoadFailed(l)
           \/ \E s \in Source : OpenEdit(s)
    PROVE  IInv'
<1>1. RowsOK /\ ListsTrue /\ FormTrue /\ OpsTrue
    BY DEF IInv
<1>2. UNCHANGED <<row, checks, ops, asked>>
    BY DEF Refresh, OpenCreate, Cancel, OpenForm, ServeList, Loaded, LoadFailed, OpenEdit,
           requests
<1>3. /\ RowsOK' /\ SuccessTrue' /\ Existing' = Existing
      /\ \A rows : ListTrue(rows)' <=> ListTrue(rows)
    BY <1>1, <1>2, TableStays DEF RowsOK
<1>4. OpsTrue'
    BY <1>1, <1>2, <1>3 DEF OpsTrue, SavedAsOpened
<1>5. ListTrue(List)
    BY RowOfExisting, <1>1 DEF ListTrue, List, View, Existing, Row
<1>6. ListsTrue'
    <2>1. CASE Refresh
        BY <1>2, <2>1, ReloadLists DEF Refresh
    <2>2. CASE OpenCreate \/ Cancel \/ \E s \in Source : OpenEdit(s)
        BY <1>1, <1>3, <2>2 DEF OpenCreate, OpenEdit, OpenForm, Cancel, ListsTrue, ListTrue
    <2>3. ASSUME NEW l \in loads, ServeList(l) PROVE ListsTrue'
        <3>1. PICK m : m.rows = List /\ loads' = (loads \ {l}) \cup {m}
            <4>1. loads' = (loads \ {l}) \cup {[id |-> l.id, read |-> TRUE, rows |-> List]}
                BY <2>3 DEF ServeList
            <4> QED
                BY <4>1
        <3>2. shown' = shown
            BY <2>3 DEF ServeList
        <3> QED
            BY <1>1, <1>3, <1>5, <3>1, <3>2 DEF ListsTrue, ListTrue
    <2>4. ASSUME NEW l \in loads, Loaded(l) PROVE ListsTrue'
        <3>1. l.read /\ loads' = loads \ {l} /\ shown'.rows = l.rows
            BY <2>4 DEF Loaded
        <3> QED
            BY <1>1, <1>3, <3>1 DEF ListsTrue, ListTrue
    <2>5. ASSUME NEW l \in loads, LoadFailed(l) PROVE ListsTrue'
        BY <1>1, <1>3, <2>5 DEF LoadFailed, ListsTrue, ListTrue
    <2> QED
        BY <2>1, <2>2, <2>3, <2>4, <2>5
<1>7. FormTrue'
    <2>1. CASE form' = form
        BY <1>1, <1>3, <2>1 DEF FormTrue
    <2>2. CASE OpenCreate
        BY <2>2 DEF OpenCreate, OpenForm, FormTrue, NewForm
    <2>3. CASE Cancel
        BY <2>3 DEF Cancel, FormTrue
    <2>4. ASSUME NEW s \in Source, OpenEdit(s) PROVE FormTrue'
        <3>1. s \in Existing /\ shown.rows[s].enabled \in BOOLEAN
            BY <1>1, <2>4 DEF OpenEdit, ListsTrue, ListTrue
        <3>2. Unsure \in BOOLEAN
            BY DEF Unsure
        <3>3. form' = [open |-> TRUE, new |-> FALSE, id |-> s,
                       enabled |-> shown.rows[s].enabled, unsure |-> Unsure]
            BY <2>4 DEF OpenEdit, OpenForm
        <3> QED
            BY <1>3, <3>1, <3>2, <3>3 DEF FormTrue, EditForm
    <2> QED
        BY <2>1, <2>2, <2>3, <2>4 DEF Refresh, ServeList, Loaded, LoadFailed
<1> QED
    BY <1>3, <1>4, <1>6, <1>7 DEF IInv

\* A change is asked for: those in flight stay what they are.
LEMMA AskInv ==
    ASSUME IInv, NEW o, Ask(o),
           \/ o \in SaveOp /\ SavedAsOpened(o)
           \/ o \in RowOp /\ o.id \in Existing
    PROVE  IInv'
<1>1. RowsOK /\ ListsTrue /\ FormTrue /\ OpsTrue
    BY DEF IInv
<1>2. UNCHANGED <<row, checks, client>> /\ asked' \in Nat
    BY <1>1 DEF Ask, RowsOK
<1>3. /\ RowsOK' /\ SuccessTrue' /\ Existing' = Existing
      /\ \A rows : ListTrue(rows)' <=> ListTrue(rows)
    BY <1>2, TableStays
<1>4. ListsTrue' /\ FormTrue'
    BY <1>1, <1>2, <1>3 DEF client, ListsTrue, ListTrue, FormTrue
<1>5. ASSUME NEW p \in ops
      PROVE  \/ Mixed(p) \in SaveOp /\ SavedAsOpened(Mixed(p))
             \/ Mixed(p) \in RowOp /\ Mixed(p).id \in Existing
             \/ Mixed(p) \in Answer
    <2>1. CASE p \in SaveOp /\ SavedAsOpened(p)
        <3>1. Mixed(p) \in SaveOp
            BY <2>1 DEF Mixed, SaveOp
        <3>2. SavedAsOpened(Mixed(p))
            BY <2>1 DEF Mixed, SaveOp, SavedAsOpened
        <3> QED
            BY <3>1, <3>2
    <2>2. CASE p \in RowOp /\ p.id \in Existing
        BY <2>2 DEF Mixed, RowOp
    <2>3. CASE p \in Answer
        BY <2>3 DEF Mixed, Answer
    <2> QED
        BY <1>1, <2>1, <2>2, <2>3 DEF OpsTrue
<1>6. ops' = {Mixed(p) : p \in ops} \cup {o}
    BY DEF Ask
<1>7. OpsTrue'
    BY <1>3, <1>5, <1>6 DEF OpsTrue, SavedAsOpened
<1> QED
    BY <1>3, <1>4, <1>7 DEF IInv

\* A form is saved for the source it was opened for.
LEMMA SaveInv ==
    ASSUME IInv, NEW enabled \in BOOLEAN, NEW target \in Target,
           NEW typed \in Password \cup {NoPassword}, Save(enabled, target, typed)
    PROVE  IInv'
<1> DEFINE o == [kind |-> IF form.new THEN "create" ELSE "put", n |-> asked + 1,
                 served |-> FALSE, form |-> form,
                 mixed |-> ops # {} \/ failures > 0,
                 enabled |-> enabled, target |-> target, typed |-> typed]
<1>1. RowsOK /\ FormTrue
    BY DEF IInv
<1>2. form \in NewForm \/ (form \in EditForm /\ form.id \in Existing)
    BY <1>1 DEF Save, FormTrue, Closed
<1>3. (ops # {} \/ failures > 0) \in BOOLEAN /\ asked + 1 \in Nat
    BY <1>1 DEF RowsOK
<1>4. o \in SaveOp
    BY <1>2, <1>3 DEF SaveOp
<1>5. SavedAsOpened(o)
    BY <1>2, <1>3 DEF SavedAsOpened, NewForm, EditForm, Save
<1>6. Ask(o)
    BY DEF Save
<1> HIDE DEF o
<1> QED
    BY <1>4, <1>5, <1>6, AskInv

\* A button is pressed for a source that is there.
LEMMA PressInv ==
    ASSUME IInv, NEW kind \in {"enable", "disable", "test", "sync"}, NEW s \in Source,
           Press(kind, s)
    PROVE  IInv'
<1> DEFINE o == [kind |-> kind, n |-> asked + 1, served |-> FALSE,
                 mixed |-> ops # {} \/ failures > 0, id |-> s]
<1>1. s \in Existing /\ asked + 1 \in Nat /\ (ops # {} \/ failures > 0) \in BOOLEAN
    BY DEF IInv, Press, ListsTrue, ListTrue, RowsOK
<1>2. o \in RowOp /\ o.id = s
    BY <1>1 DEF RowOp
<1>3. Ask(o)
    BY DEF Press
<1> HIDE DEF o
<1> QED
    BY <1>1, <1>2, <1>3, AskInv

-----------------------------------------------------------------------------
(* The service.                                                            *)

\* Serving a change turns it into an answer, and no source goes.
LEMMA ServeInv ==
    ASSUME IInv, NEW o \in ops, ~o.served, Serve(o), Existing \subseteq Existing',
           row' \in Rows, tested' \in [Source -> SUBSET Works], SuccessTrue'
    PROVE  IInv'
<1>1. RowsOK /\ ListsTrue /\ FormTrue /\ OpsTrue
    BY DEF IInv
<1>2. UNCHANGED <<client, asked>>
    BY DEF Serve
<1>3. RowsOK'
    BY <1>1, <1>2 DEF RowsOK
<1>4. ListsTrue' /\ FormTrue'
    BY <1>1, <1>2 DEF client, ListsTrue, ListTrue, FormTrue
<1>5. o \in SaveOp \/ o \in RowOp
    BY <1>1 DEF OpsTrue, Answer
<1>6. PICK a \in Answer : ops' = (ops \ {o}) \cup {a}
    <2>1. [kind |-> o.kind, n |-> o.n, served |-> TRUE] \in Answer
        BY <1>5 DEF SaveOp, RowOp, Answer
    <2> QED
        BY <2>1 DEF Serve
<1>7. OpsTrue'
    BY <1>1, <1>6 DEF OpsTrue, SavedAsOpened
<1> QED
    BY <1>3, <1>4, <1>7 DEF IInv

\* A change in flight that is not served is a save or a button.
LEMMA Unserved ==
    ASSUME IInv, NEW o \in ops, ~o.served
    PROVE  \/ o \in SaveOp /\ SavedAsOpened(o)
           \/ o \in RowOp /\ o.id \in Existing
    BY DEF IInv, OpsTrue, Answer

\* A new row has no test.
LEMMA ServeCreateInv ==
    ASSUME IInv, NEW o \in ops, ~o.served, ServeCreate(o)
    PROVE  IInv'
<1>1. RowsOK /\ SuccessTrue
    BY DEF IInv
<1>2. o \in SaveOp /\ o.typed \in Password
    BY Unserved DEF ServeCreate, RowOp, SavedAsOpened
<1>3. PICK s \in Source \ Existing, r \in Row :
        row' = [row EXCEPT ![s] = r] /\ r.test = "none"
    <2>1. [enabled |-> o.enabled, target |-> o.target,
           password |-> o.typed, test |-> "none"] \in Row
        BY <1>2 DEF SaveOp, Row
    <2>2. PICK s \in Source \ Existing :
            row' = [row EXCEPT ![s] = [enabled |-> o.enabled, target |-> o.target,
                                       password |-> o.typed, test |-> "none"]]
        BY DEF ServeCreate
    <2> QED
        BY <2>1, <2>2
<1>4. UNCHANGED <<tested, moved>> /\ Serve(o)
    BY DEF ServeCreate, checks
<1>5. row' \in Rows
    BY <1>1, <1>3 DEF RowsOK, Rows
<1>6. row'[s] = r /\ \A t \in Source \ {s} : row'[t] = row[t]
    BY <1>1, <1>3 DEF RowsOK, Rows
<1>7. Existing \subseteq Existing' /\ Existing' \subseteq Existing \cup {s}
    BY <1>3, <1>6 DEF Existing
<1>8. SuccessTrue'
    BY <1>1, <1>3, <1>4, <1>6, <1>7 DEF SuccessTrue, Existing
<1> QED
    BY <1>1, <1>4, <1>5, <1>7, <1>8, ServeInv DEF RowsOK

\* A step that changes the row of one source, and not that it is there.
LEMMA OneRow ==
    ASSUME RowsOK, SuccessTrue, NEW s \in Existing, NEW r \in Row,
           row' = [row EXCEPT ![s] = r],
           r.test = "success" => Login(r) \in tested'[s] \/ s \in moved',
           \A t \in Source \ {s} : tested'[t] = tested[t] /\ (t \in moved' <=> t \in moved)
    PROVE  row' \in Rows /\ Existing' = Existing /\ SuccessTrue'
<1>1. s \in Source /\ r # NoRow
    BY RowOfExisting
<1>2. row' \in Rows
    BY <1>1 DEF RowsOK, Rows
<1>3. row'[s] = r /\ \A t \in Source \ {s} : row'[t] = row[t]
    BY <1>1 DEF RowsOK, Rows
<1>4. Existing' = Existing
    BY <1>1, <1>3 DEF Existing
<1>5. SuccessTrue'
    BY <1>3, <1>4 DEF SuccessTrue, Existing
<1> QED
    BY <1>2, <1>4, <1>5

\* A save keeps a success only with the password it was of.
LEMMA ServePutInv ==
    ASSUME IInv, NEW o \in ops, ~o.served, ServePut(o)
    PROVE  IInv'
<1>1. RowsOK /\ SuccessTrue
    BY DEF IInv
<1>2. o \in SaveOp /\ o.form.id \in Existing
    BY Unserved DEF ServePut, RowOp, SavedAsOpened
<1>3. PICK s \in Existing : s = o.form.id
    BY <1>2
<1>4. row[s] \in Row /\ s \in Source
    BY <1>1, RowOfExisting
<1>5. /\ o.enabled \in BOOLEAN /\ o.target \in Target
      /\ o.typed \in Password \cup {NoPassword}
    BY <1>2 DEF SaveOp
<1> DEFINE r == Updated(row[s], o)
<1>6. /\ r \in Row /\ r.target = o.target
      /\ o.typed = NoPassword => r.password = row[s].password /\ r.test = row[s].test
      /\ o.typed # NoPassword => r.test = "none"
    BY <1>4, <1>5 DEF Updated, Row
<1>7. row' = [row EXCEPT ![s] = r] /\ tested' = tested /\ Serve(o)
    BY <1>1, <1>3, <1>4 DEF ServePut, RowsOK, Rows
<1>8. /\ o.typed = NoPassword =>
            s \in moved' \/ (o.target = row[s].target /\ (s \in moved' <=> s \in moved))
      /\ \A t \in Source \ {s} : t \in moved' <=> t \in moved
    <2>1. moved' = IF o.typed # NoPassword THEN moved \ {s}
                   ELSE IF o.target # row[s].target THEN moved \cup {s} ELSE moved
        BY <1>3 DEF ServePut
    <2>2. CASE o.typed # NoPassword
        <3>1. moved' = moved \ {s}
            BY <2>1, <2>2
        <3> QED
            BY <2>2, <3>1
    <2>3. CASE o.typed = NoPassword /\ o.target # row[s].target
        <3>1. moved' = moved \cup {s}
            BY <2>1, <2>3
        <3> QED
            BY <3>1
    <2>4. CASE o.typed = NoPassword /\ o.target = row[s].target
        <3>1. moved' = moved
            BY <2>1, <2>4
        <3> QED
            BY <2>4, <3>1
    <2> QED
        BY <2>2, <2>3, <2>4
<1>9. r.test = "success" => Login(r) \in tested'[s] \/ s \in moved'
    BY <1>1, <1>6, <1>7, <1>8 DEF SuccessTrue, Login
<1> HIDE DEF r
<1>10. row' \in Rows /\ Existing' = Existing /\ SuccessTrue'
    BY <1>1, <1>6, <1>7, <1>8, <1>9, OneRow
<1> QED
    BY <1>1, <1>7, <1>10, ServeInv DEF RowsOK

\* The buttons keep login and test.
LEMMA ServeToggleInv ==
    ASSUME IInv, NEW o \in ops, ~o.served, ServeToggle(o)
    PROVE  IInv'
<1>1. RowsOK /\ SuccessTrue
    BY DEF IInv
<1>2. o \in RowOp /\ o.id \in Existing
    BY Unserved DEF ServeToggle, SaveOp
<1>3. PICK s \in Existing : s = o.id
    BY <1>2
<1>4. row[s] \in Row /\ s \in Source
    BY <1>1, RowOfExisting
<1> DEFINE r == [row[s] EXCEPT !.enabled = (o.kind = "enable")]
<1>5. r \in Row /\ r.test = row[s].test /\ Login(r) = Login(row[s])
    BY <1>4 DEF Row, Login
<1>6. row' = [row EXCEPT ![s] = r] /\ UNCHANGED <<tested, moved>> /\ Serve(o)
    BY <1>1, <1>3, <1>4 DEF ServeToggle, RowsOK, Rows, checks
<1> HIDE DEF r
<1>7. row' \in Rows /\ Existing' = Existing /\ SuccessTrue'
    BY <1>1, <1>5, <1>6, OneRow DEF SuccessTrue
<1> QED
    BY <1>1, <1>6, <1>7, ServeInv DEF RowsOK

\* A test that succeeds is of the login the row has now.
LEMMA ServeTestInv ==
    ASSUME IInv, NEW o \in ops, ~o.served, ServeTest(o)
    PROVE  IInv'
<1>1. RowsOK /\ SuccessTrue
    BY DEF IInv
<1>2. o \in RowOp /\ o.id \in Existing
    BY Unserved DEF ServeTest, SaveOp
<1>3. PICK s \in Existing : s = o.id
    BY <1>2
<1>4. row[s] \in Row /\ s \in Source
    BY <1>1, RowOfExisting
<1> DEFINE r(end) == [row[s] EXCEPT !.test = end]
<1>5. \A end \in {"success", "failed"} :
        r(end) \in Row /\ r(end).test = end /\ Login(r(end)) = Login(row[s])
    BY <1>4 DEF Row, Login
<1>6. /\ Serve(o) /\ moved' = moved
      /\ \/ row' = [row EXCEPT ![s] = r("failed")] /\ tested' = tested
         \/ /\ row' = [row EXCEPT ![s] = r("success")] /\ Login(row[s]) \in Works
            /\ tested' = [tested EXCEPT ![s] = @ \cup {Login(row[s])}]
    BY <1>1, <1>3, <1>4 DEF ServeTest, RowsOK, Rows, checks
<1> HIDE DEF r
<1>7. CASE row' = [row EXCEPT ![s] = r("failed")] /\ tested' = tested
    <2>1. row' \in Rows /\ Existing' = Existing /\ SuccessTrue'
        BY <1>1, <1>5, <1>6, <1>7, OneRow
    <2> QED
        BY <1>1, <1>6, <1>7, <2>1, ServeInv DEF RowsOK
<1>8. CASE /\ row' = [row EXCEPT ![s] = r("success")] /\ Login(row[s]) \in Works
           /\ tested' = [tested EXCEPT ![s] = @ \cup {Login(row[s])}]
    <2>1. /\ tested' \in [Source -> SUBSET Works] /\ Login(row[s]) \in tested'[s]
          /\ \A t \in Source \ {s} : tested'[t] = tested[t]
        BY <1>1, <1>4, <1>8 DEF RowsOK
    <2>2. row' \in Rows /\ Existing' = Existing /\ SuccessTrue'
        BY <1>1, <1>5, <1>6, <1>8, <2>1, OneRow
    <2> QED
        BY <1>6, <2>1, <2>2, ServeInv
<1> QED
    BY <1>6, <1>7, <1>8

\* Answers, failures and the synchronisation leave the table alone.
LEMMA AnswerInv ==
    ASSUME IInv, NEW o \in ops, Answered(o) \/ OpFailed(o)
    PROVE  IInv'
<1>1. RowsOK /\ ListsTrue /\ FormTrue /\ OpsTrue
    BY DEF IInv
<1>2. /\ UNCHANGED <<row, checks>> /\ asked' = asked /\ shown' = shown
      /\ ops' = ops \ {o} /\ form' \in {form, Closed}
      /\ Reload \/ UNCHANGED <<sent, loads, loading>>
    BY DEF Answered, OpFailed
<1>3. RowsOK' /\ SuccessTrue' /\ Existing' = Existing
    BY <1>1, <1>2, TableStays DEF RowsOK
<1>4. ListsTrue'
    BY <1>2, ReloadLists
<1>5. FormTrue' /\ OpsTrue'
    BY <1>1, <1>2, <1>3 DEF FormTrue, OpsTrue, SavedAsOpened
<1> QED
    BY <1>3, <1>4, <1>5 DEF IInv

\* Every step of a change keeps the invariant.
LEMMA OpStepInv ==
    ASSUME IInv, NEW o \in ops, OpStep(o)
    PROVE  IInv'
<1>1. ASSUME ServeSync(o), ~o.served PROVE IInv'
    <2>1. Serve(o) /\ UNCHANGED <<row, checks>> /\ asked' = asked
        BY <1>1 DEF ServeSync, Serve
    <2>2. RowsOK' /\ SuccessTrue' /\ Existing' = Existing
        BY <2>1, TableStays DEF IInv, RowsOK
    <2> QED
        BY <1>1, <2>1, <2>2, ServeInv DEF RowsOK
<1> QED
    BY <1>1, ServeCreateInv, ServePutInv, ServeToggleInv, ServeTestInv, AnswerInv DEF OpStep

\* Every step keeps the invariant.
LEMMA NextInv == IInv /\ [Next]_vars => IInv'
<1> SUFFICES ASSUME IInv, [Next]_vars PROVE IInv'
    OBVIOUS
<1>1. CASE UNCHANGED vars
    <2>1. UNCHANGED <<row, checks, ops, asked, shown, loads, form>>
        BY <1>1 DEF vars, client, requests
    <2>2. /\ RowsOK' /\ SuccessTrue' /\ Existing' = Existing
          /\ \A rows : ListTrue(rows)' <=> ListTrue(rows)
        BY <2>1, TableStays DEF IInv, RowsOK
    <2>3. ListsTrue' /\ FormTrue' /\ OpsTrue'
        BY <2>1, <2>2 DEF IInv, ListsTrue, ListTrue, FormTrue, OpsTrue, SavedAsOpened
    <2> QED
        BY <2>2, <2>3 DEF IInv
<1> QED
    BY <1>1, PageInv, PressInv, SaveInv, OpStepInv DEF Next

\* An analysis uses a source only if the login the source has passed its test, or
\* the source got another target and kept its password: no order of tests,
\* saves and buttons, and no lost request, makes another source ready.
THEOREM ReadyAreTested == Spec => []ReadyWasTested
<1>1. IInv => ReadyWasTested
    BY DEF IInv, SuccessTrue, ReadyWasTested, Ready
<1> QED
    BY <1>1, InitInv, NextInv, PTL DEF Spec

-----------------------------------------------------------------------------
(* The page.                                                               *)

\* Numbers of lists are those of lists asked for, and the spinner has one to
\* wait for.
Numbered ==
    /\ sent \in 0..MaxLoads /\ loading \in BOOLEAN
    /\ shown.rows \in Lists /\ shown.id \in 0..sent
    /\ \A l \in loads : l.id \in 1..sent /\ (l.read => l.rows \in Lists)
    /\ loading => loads # {}

Bounded ==
    /\ asked \in 0..MaxOps /\ opened \in 0..MaxForms /\ failures \in 0..MaxFailures
    /\ moved \subseteq Source

\* The newest list, wherever it is, has the rows of the table.
Current ==
    /\ shown.id = sent => shown.rows = List
    /\ \A l \in loads : l.id = sent /\ l.read => l.rows = List

\* Until a change is served that the list has not been loaded again for.
ListsCurrent == failures = 0 /\ (\A o \in ops : ~o.served) => Current

\* A form that was opened when nothing was in flight keeps what the table has
\* until something is in flight: then only saves of this form are.
FormCurrent ==
    failures = 0 /\ form \in EditForm /\ ~form.unsure =>
        /\ \A o \in ops : o.kind \in {"create", "put"}
        /\ ops = {} => row[form.id].enabled = form.enabled

\* A change that no other mixes with is alone, and then a save has what the table
\* has.
SaveCurrent(o) ==
    o.kind = "put" /\ ~o.form.unsure => row[o.form.id].enabled = o.form.enabled
SavesCurrent == \A o \in ops : ~o.served /\ ~o.mixed => ops = {o} /\ SaveCurrent(o)

PageTrue == IInv /\ Numbered /\ Bounded /\ ListsCurrent /\ FormCurrent /\ SavesCurrent

LEMMA ListIsList ==
    ASSUME RowsOK
    PROVE  /\ List \in Lists
           /\ \A s \in Existing : List[s].enabled = row[s].enabled
<1>1. \A s \in Source : row[s] = NoRow \/ (row[s] \in Row /\ row[s] # NoRow)
    BY RowOfExisting DEF RowsOK, Rows
<1>2. \A s \in Source :
        View(row[s]) \in {NoRow} \cup [enabled : BOOLEAN, target : Target,
                                       test : {"none", "success", "failed"}]
    BY <1>1 DEF View, Row
<1>3. \A s \in Existing : View(row[s]).enabled = row[s].enabled
    BY DEF View, Existing
<1> QED
    BY <1>2, <1>3 DEF List, Lists, Existing

LEMMA PageTrueInit == Init => PageTrue
<1> SUFFICES ASSUME Init PROVE PageTrue
    OBVIOUS
<1>1. IInv
    BY InitInv
<1>2. Numbered
    <2>1. shown.rows \in Lists /\ shown.id = 0 /\ sent = 1 /\ loading = TRUE
        BY DEF Init, Lists
    <2>2. \A l \in loads : l.id = 1 /\ ~l.read
        BY DEF Init, Load
    <2>3. loads # {} /\ 1 \in 0..MaxLoads /\ 0 \in 0..1 /\ 1 \in 1..1
        BY SourceAssumption DEF Init
    <2> QED
        BY <2>1, <2>2, <2>3 DEF Numbered
<1>3. Bounded
    BY SourceAssumption DEF Init, Bounded
<1>4. Current
    BY DEF Init, Current, Load
<1>5. FormCurrent /\ SavesCurrent
    BY DEF Init, FormCurrent, SavesCurrent, Closed, EditForm
<1> QED
    BY <1>1, <1>2, <1>3, <1>4, <1>5 DEF PageTrue, ListsCurrent

\* A list that is asked for will have what the table has when it is read.
LEMMA Reloaded ==
    ASSUME Numbered, row' = row, shown' = shown,
           Reload \/ UNCHANGED <<sent, loads, loading>>
    PROVE  Numbered' /\ (Current => Current') /\ (Reload => Current')
<1>1. List' = List
    BY DEF List
<1>2. CASE Reload
    <2>1. /\ sent < MaxLoads /\ sent' = sent + 1 /\ loading' = TRUE
          /\ loads' = loads \cup {Load(sent + 1)}
        BY <1>2 DEF Reload
    <2>2. sent' \in 0..MaxLoads /\ sent \in Nat /\ 0..sent \subseteq 0..sent'
          /\ 1..sent \subseteq 1..sent' /\ sent' \in 1..sent' /\ sent' \notin 0..sent
          /\ sent' \notin 1..sent
        BY <2>1, SourceAssumption DEF Numbered
    <2>3. Load(sent + 1).id = sent' /\ ~Load(sent + 1).read
        BY <2>1 DEF Load
    <2>4. Numbered'
        BY <2>1, <2>2, <2>3 DEF Numbered
    <2>5. Current'
        BY <2>1, <2>2, <2>3 DEF Numbered, Current
    <2> QED
        BY <2>4, <2>5
<1>3. CASE UNCHANGED <<sent, loads, loading>>
    BY <1>1, <1>3 DEF Numbered, Current, Reload
<1> QED
    BY <1>2, <1>3

\* Lists and forms: the changes in flight stay.
LEMMA PageTruePage ==
    ASSUME PageTrue,
           \/ Refresh \/ OpenCreate \/ Cancel
           \/ \E l \in loads : ServeList(l) \/ Loaded(l) \/ LoadFailed(l)
           \/ \E s \in Source : OpenEdit(s)
    PROVE  PageTrue'
<1>1. IInv' /\ IInv /\ RowsOK /\ FormTrue
    BY PageInv DEF PageTrue, IInv
<1>2. UNCHANGED <<row, checks, ops, asked>>
    BY DEF Refresh, OpenCreate, Cancel, OpenForm, ServeList, Loaded, LoadFailed, OpenEdit,
           requests
<1>3. Numbered /\ Bounded /\ ListsCurrent /\ FormCurrent /\ SavesCurrent
    BY DEF PageTrue
<1>4. List' = List
    BY <1>2 DEF List
<1>5. Numbered' /\ (Current => Current')
    <2>1. CASE Refresh \/ OpenCreate \/ Cancel \/ \E s \in Source : OpenEdit(s)
        BY <1>2, <1>3, <2>1, Reloaded DEF Refresh, OpenCreate, Cancel, OpenForm, OpenEdit
    <2>2. ASSUME NEW l \in loads, ServeList(l) PROVE Numbered' /\ (Current => Current')
        <3>1. PICK m : m = [id |-> l.id, read |-> TRUE, rows |-> List]
            OBVIOUS
        <3>2. /\ loads' = (loads \ {l}) \cup {m} /\ UNCHANGED <<shown, loading, sent>>
              /\ m.id = l.id /\ m.rows = List
            BY <2>2, <3>1 DEF ServeList
        <3>3. List \in Lists
            BY <1>1, ListIsList
        <3> QED
            BY <1>3, <1>4, <3>2, <3>3 DEF Numbered, Current
    <2>3. ASSUME NEW l \in loads, Loaded(l) PROVE Numbered' /\ (Current => Current')
        <3>1. /\ l.read /\ loads' = loads \ {l} /\ sent' = sent /\ loading' = FALSE
              /\ shown'.id = l.id /\ shown'.rows = l.rows
            BY <2>3 DEF Loaded
        <3>2. l.id \in 0..sent /\ l.rows \in Lists
            BY <1>3, <3>1, SourceAssumption DEF Numbered
        <3> QED
            BY <1>3, <1>4, <3>1, <3>2 DEF Numbered, Current
    <2>4. ASSUME NEW l \in loads, LoadFailed(l) PROVE Numbered' /\ (Current => Current')
        BY <1>3, <1>4, <2>4 DEF LoadFailed, Numbered, Current
    <2> QED
        BY <2>1, <2>2, <2>3, <2>4
<1>6. Bounded' /\ (failures' = failures \/ failures' # 0)
    <2>1. opened' \in 0..MaxForms /\ failures' \in 0..MaxFailures
          /\ (failures' = failures \/ failures' # 0)
        BY <1>3, SourceAssumption
           DEF Refresh, Reload, OpenCreate, Cancel, OpenForm, ServeList, Loaded, LoadFailed,
               OpenEdit, requests, Bounded
    <2> QED
        BY <1>2, <1>3, <2>1 DEF Bounded, checks
<1>7. ListsCurrent'
    BY <1>2, <1>3, <1>5, <1>6 DEF ListsCurrent
<1>8. FormCurrent'
    <2>1. CASE form' = form
        BY <1>2, <1>3, <1>6, <2>1 DEF FormCurrent
    <2>2. CASE OpenCreate \/ Cancel
        <3>1. \A f \in EditForm : f.open /\ ~f.new
            BY DEF EditForm
        <3>2. CASE OpenCreate
            BY <3>1, <3>2 DEF OpenCreate, OpenForm, FormCurrent
        <3>3. CASE Cancel
            BY <3>1, <3>3 DEF Cancel, Closed, FormCurrent
        <3> QED
            BY <2>2, <3>2, <3>3
    <2>3. ASSUME NEW s \in Source, OpenEdit(s) PROVE FormCurrent'
        <3>1. /\ form'.id = s /\ form'.enabled = shown.rows[s].enabled
              /\ form'.unsure = Unsure /\ failures' = failures
              /\ shown.rows[s] # NoRow
            BY <2>3 DEF OpenEdit, OpenForm, requests
        <3> SUFFICES ASSUME failures = 0, ~Unsure
                     PROVE  ops = {} /\ row[s].enabled = shown.rows[s].enabled
            BY <1>2, <3>1 DEF FormCurrent
        <3>2. ops = {} /\ shown.id = sent
            BY <1>3 DEF Unsure, Numbered
        <3>3. shown.rows = List
            BY <1>3, <3>2 DEF ListsCurrent, Current
        <3>4. s \in Existing
            BY <1>1, <3>1 DEF IInv, ListsTrue, ListTrue
        <3> QED
            BY <1>1, <3>2, <3>3, <3>4, ListIsList
    <2> QED
        BY <2>1, <2>2, <2>3 DEF Refresh, ServeList, Loaded, LoadFailed
<1>9. SavesCurrent'
    BY <1>2, <1>3 DEF SavesCurrent, SaveCurrent
<1> QED
    BY <1>1, <1>5, <1>6, <1>7, <1>8, <1>9 DEF PageTrue

\* Mixing a change with others changes nothing else of it.
LEMMA MixedFacts ==
    ASSUME IInv, NEW p \in ops
    PROVE  /\ Mixed(p).kind = p.kind /\ Mixed(p).served = p.served
           /\ ~p.served => Mixed(p).mixed
<1>1. p \in SaveOp \/ p \in RowOp \/ p \in Answer
    BY DEF IInv, OpsTrue
<1>2. CASE p \in SaveOp
    BY <1>2 DEF Mixed, SaveOp
<1>3. CASE p \in RowOp
    BY <1>3 DEF Mixed, RowOp
<1>4. CASE p \in Answer
    BY <1>4 DEF Mixed, Answer
<1> QED
    BY <1>1, <1>2, <1>3, <1>4

LEMMA PageTrueAsk ==
    ASSUME PageTrue, IInv', NEW o, Ask(o), ~o.served,
           o.mixed = (ops # {} \/ failures > 0),
           failures = 0 /\ ops = {} => SaveCurrent(o),
           form \in EditForm => o.kind \in {"create", "put"}
    PROVE  PageTrue'
<1>1. IInv /\ Numbered /\ Bounded /\ ListsCurrent /\ FormCurrent /\ SavesCurrent
    BY DEF PageTrue
<1>2. /\ UNCHANGED <<row, shown, loading, sent, loads, form, opened, failures, tested, moved>>
      /\ asked < MaxOps /\ asked' = asked + 1
      /\ ops' = {Mixed(p) : p \in ops} \cup {o}
    BY DEF Ask, client, checks
<1>3. List' = List
    BY <1>2 DEF List
<1>4. Numbered' /\ (Current => Current')
    BY <1>1, <1>2, <1>3 DEF Numbered, Current
<1>5. Bounded' /\ failures \in Nat
    BY <1>1, <1>2, SourceAssumption DEF Bounded
<1>6. ListsCurrent'
    <2>1. (\A p \in ops' : ~p.served) => \A p \in ops : ~p.served
        BY <1>1, <1>2, MixedFacts
    <2> QED
        BY <1>1, <1>2, <1>4, <2>1 DEF ListsCurrent
<1>7. FormCurrent'
    <2>1. ops' # {}
        BY <1>2
    <2>2. ASSUME failures = 0, form \in EditForm, ~form.unsure
          PROVE  \A p \in ops' : p.kind \in {"create", "put"}
        BY <1>1, <1>2, <2>2, MixedFacts DEF FormCurrent
    <2> QED
        BY <1>2, <2>1, <2>2 DEF FormCurrent
<1>8. SavesCurrent'
    <2>1. ASSUME NEW p \in ops', ~p.served, ~p.mixed PROVE ops' = {p} /\ SaveCurrent(p)'
        <3>1. p = o
            BY <1>1, <1>2, <2>1, MixedFacts
        <3>2. ~(ops # {} \/ failures > 0)
            BY <2>1, <3>1, Zenon
        <3>3. ops = {} /\ failures = 0
            BY <1>5, <3>2
        <3>4. SaveCurrent(p)
            BY <3>1, <3>3
        <3> QED
            BY <1>2, <3>1, <3>3, <3>4 DEF SaveCurrent
    <2> QED
        BY <2>1 DEF SavesCurrent
<1> QED
    BY <1>4, <1>5, <1>6, <1>7, <1>8 DEF PageTrue

\* A form is saved with what it was opened with.
LEMMA PageTrueSave ==
    ASSUME PageTrue, NEW enabled \in BOOLEAN, NEW target \in Target,
           NEW typed \in Password \cup {NoPassword}, Save(enabled, target, typed)
    PROVE  PageTrue'
<1>1. IInv /\ IInv' /\ FormCurrent /\ FormTrue
    BY SaveInv DEF PageTrue, IInv
<1>2. PICK o : o = [kind |-> IF form.new THEN "create" ELSE "put", n |-> asked + 1,
                    served |-> FALSE, form |-> form,
                    mixed |-> ops # {} \/ failures > 0,
                    enabled |-> enabled, target |-> target, typed |-> typed]
    OBVIOUS
<1>3. /\ Ask(o) /\ ~o.served /\ o.kind \in {"create", "put"} /\ o.form = form
      /\ o.mixed = (ops # {} \/ failures > 0)
      /\ o.kind = "put" => ~form.new
    BY <1>2 DEF Save
<1>4. form \in NewForm \/ form \in EditForm
    BY <1>1 DEF FormTrue, Save, Closed
<1>5. ASSUME failures = 0, ops = {} PROVE SaveCurrent(o)
    <2>1. o.kind = "put" => form \in EditForm
        BY <1>3, <1>4 DEF NewForm
    <2> QED
        BY <1>1, <1>3, <1>5, <2>1 DEF SaveCurrent, FormCurrent
<1> QED
    BY <1>1, <1>3, <1>5, PageTrueAsk

\* The buttons are masked while a form is open.
LEMMA PageTruePress ==
    ASSUME PageTrue, NEW kind \in {"enable", "disable", "test", "sync"}, NEW s \in Source,
           Press(kind, s)
    PROVE  PageTrue'
<1>1. IInv /\ IInv'
    BY PressInv DEF PageTrue
<1>2. PICK o : o = [kind |-> kind, n |-> asked + 1, served |-> FALSE,
                    mixed |-> ops # {} \/ failures > 0, id |-> s]
    OBVIOUS
<1>3. /\ Ask(o) /\ ~o.served /\ o.kind # "put" /\ ~form.open
      /\ o.mixed = (ops # {} \/ failures > 0)
    BY <1>2 DEF Press
<1>4. form \notin EditForm /\ SaveCurrent(o)
    BY <1>3 DEF EditForm, SaveCurrent
<1> QED
    BY <1>1, <1>3, <1>4, PageTrueAsk

\* A served change will load the list again; no other change is unmixed with it.
LEMMA PageTrueServe ==
    ASSUME PageTrue, IInv', NEW o \in ops, ~o.served, Serve(o), moved' \subseteq Source
    PROVE  PageTrue'
<1>1. IInv /\ Numbered /\ Bounded /\ ListsCurrent /\ FormCurrent /\ SavesCurrent
    BY DEF PageTrue
<1>2. PICK a : a = [kind |-> o.kind, n |-> o.n, served |-> TRUE]
    OBVIOUS
<1>3. a.kind = o.kind /\ a.served
    BY <1>2
<1>4. /\ UNCHANGED <<shown, loading, sent, loads, form, opened, asked, failures>>
      /\ ops' = (ops \ {o}) \cup {a}
    BY <1>2 DEF Serve, client
<1>5. Numbered' /\ Bounded'
    BY <1>1, <1>4 DEF Numbered, Bounded
<1>6. ListsCurrent'
    BY <1>3, <1>4 DEF ListsCurrent
<1>7. FormCurrent'
    BY <1>1, <1>3, <1>4 DEF FormCurrent
<1>8. SavesCurrent'
    <2>1. \A p \in ops' : p.served \/ (p \in ops /\ p # o)
        BY <1>3, <1>4
    <2>2. \A p \in ops : p # o /\ ~p.served => p.mixed
        BY <1>1 DEF SavesCurrent
    <2> QED
        BY <2>1, <2>2 DEF SavesCurrent
<1> QED
    BY <1>5, <1>6, <1>7, <1>8 DEF PageTrue

\* What moves is a source that was saved.
LEMMA MovedSources ==
    ASSUME PageTrue, NEW o \in ops, ~o.served,
           \/ ServeCreate(o) \/ ServePut(o) \/ ServeToggle(o) \/ ServeTest(o) \/ ServeSync(o)
    PROVE  Serve(o) /\ moved' \subseteq Source
<1>1. moved \subseteq Source /\ IInv
    BY DEF PageTrue, Bounded
<1>2. CASE ServePut(o)
    <2>1. o.form.id \in Source
        BY <1>1, <1>2, Unserved DEF ServePut, RowOp, SavedAsOpened, Existing
    <2>2. moved' \subseteq moved \cup {o.form.id}
        BY <1>2 DEF ServePut
    <2> QED
        BY <1>1, <1>2, <2>1, <2>2 DEF ServePut
<1> QED
    BY <1>1, <1>2 DEF ServeCreate, ServeToggle, ServeTest, ServeSync, checks

\* An answer loads the list again and closes the form it may be of.
LEMMA PageTrueAnswer ==
    ASSUME PageTrue, NEW o \in ops, Answered(o) \/ OpFailed(o)
    PROVE  PageTrue'
<1>1. IInv /\ Numbered /\ Bounded /\ ListsCurrent /\ FormCurrent /\ SavesCurrent
    BY DEF PageTrue
<1>2. IInv'
    BY <1>1, AnswerInv
<1>3. /\ UNCHANGED <<row, shown, opened, asked, moved>>
      /\ ops' = ops \ {o} /\ failures' \in 0..MaxFailures
      /\ Reload \/ UNCHANGED <<sent, loads, loading>>
      /\ failures' = 0 => /\ Reload /\ failures = 0
                          /\ form' = IF o.kind \in {"create", "put"} THEN Closed ELSE form
    <2>1. failures \in Nat
        BY <1>1, SourceAssumption DEF Bounded
    <2>2. CASE Answered(o)
        BY <1>1, <2>1, <2>2 DEF Answered, Reloads, Bounded, checks
    <2>3. CASE OpFailed(o)
        BY <1>1, <2>1, <2>3, SourceAssumption DEF OpFailed, Bounded, checks
    <2> QED
        BY <2>2, <2>3
<1>4. Numbered' /\ (Reload => Current')
    BY <1>1, <1>3, Reloaded
<1>5. Bounded'
    BY <1>1, <1>3 DEF Bounded
<1>6. ListsCurrent'
    BY <1>3, <1>4 DEF ListsCurrent
<1>7. FormCurrent'
    <2> SUFFICES ASSUME failures' = 0, form' \in EditForm, ~form'.unsure
                 PROVE  FALSE
        BY DEF FormCurrent
    <2>1. Closed \notin EditForm
        BY DEF Closed, EditForm
    <2>2. form' = form /\ o.kind \notin {"create", "put"} /\ failures = 0
        BY <1>3, <2>1
    <2> QED
        BY <1>1, <2>2 DEF FormCurrent
<1>8. SavesCurrent'
    BY <1>1, <1>3 DEF SavesCurrent
<1> QED
    BY <1>2, <1>4, <1>5, <1>6, <1>7, <1>8 DEF PageTrue

LEMMA PageTrueNext == PageTrue /\ [Next]_vars => PageTrue'
<1> SUFFICES ASSUME PageTrue, [Next]_vars PROVE PageTrue'
    OBVIOUS
<1>1. IInv'
    BY NextInv DEF PageTrue
<1>2. CASE UNCHANGED vars
    <2>1. UNCHANGED <<row, shown, loading, sent, loads, form, ops, asked, opened, failures,
                      moved>>
        BY <1>2 DEF vars, client, requests, checks
    <2>2. List' = List
        BY <2>1 DEF List
    <2> QED
        BY <1>1, <2>1, <2>2
           DEF PageTrue, Numbered, Bounded, ListsCurrent, Current, FormCurrent, SavesCurrent,
               SaveCurrent
<1>3. ASSUME NEW o \in ops, OpStep(o) PROVE PageTrue'
    BY <1>1, <1>3, MovedSources, PageTrueServe, PageTrueAnswer DEF OpStep
<1> QED
    BY <1>2, <1>3, PageTruePage, PageTruePress, PageTrueSave DEF Next

\* Whatever order lists, saves, buttons and their answers come in, the spinner
\* has a list to wait for, and when everything has been answered the page shows
\* the table, unless an older list was answered last or a request failed
\* (DataSourceManagement.tsx:64-75, 149).
THEOREM PageShowsTable == Spec => []PageConsistent
<1>1. ASSUME PageTrue PROVE PageConsistent
    <2>1. RowsOK /\ FormTrue /\ OpsTrue /\ Numbered /\ Bounded /\ ListsCurrent
        BY <1>1 DEF PageTrue, IInv
    <2>2. \A l \in loads : l.id \in 1..MaxLoads
        <3>1. 1..sent \subseteq 1..MaxLoads
            BY <2>1, SourceAssumption DEF Numbered
        <3> QED
            BY <2>1, <3>1 DEF Numbered
    <2>3. shown.id \in 0..MaxLoads
        BY <2>1, SourceAssumption DEF Numbered
    <2>4. form # Closed => form.new \/ form.id \in Source
        BY <2>1 DEF FormTrue, NewForm, EditForm
    <2>5. \A o \in ops : o.kind \in {"create", "put", "enable", "disable", "test", "sync"}
        BY <2>1 DEF OpsTrue, SaveOp, RowOp, Answer
    <2>6. TypeOK
        BY <2>1, <2>2, <2>3, <2>4, <2>5 DEF TypeOK, RowsOK, Numbered, Bounded
    <2> QED
        BY <2>1, <2>6 DEF PageConsistent, Numbered, ListsCurrent, Current
<1> QED
    BY <1>1, PageTrueInit, PageTrueNext, PTL DEF Spec

-----------------------------------------------------------------------------
(* Enabling.                                                               *)

\* Only serving a change changes the table.
LEMMA TableChanges ==
    ASSUME [Next]_vars, row' # row
    PROVE  \E o \in ops : /\ ~o.served
                          /\ ServeCreate(o) \/ ServePut(o) \/ ServeToggle(o) \/ ServeTest(o)
    BY DEF Next, vars, Refresh, OpenCreate, OpenEdit, OpenForm, Cancel, ServeList, Loaded,
           LoadFailed, Press, Save, Ask, OpStep, ServeSync, Answered, OpFailed

\* A save that is not on purpose has the "enabled" of the table.
LEMMA EnabledByOne ==
    ASSUME PageTrue, NEW s \in Existing, ~row[s].enabled, row'[s].enabled,
           NEW o \in ops, ~o.served,
           ServeCreate(o) \/ ServePut(o) \/ ServeToggle(o) \/ ServeTest(o)
    PROVE  OnPurpose(o)
<1>1. RowsOK /\ SavesCurrent /\ IInv
    BY DEF PageTrue, IInv
<1>2. row[s] \in Row /\ s \in Source /\ row \in [Source -> Row \cup {NoRow}]
    BY <1>1, RowOfExisting DEF RowsOK, Rows
<1>3. CASE ServeCreate(o)
    BY <1>2, <1>3 DEF ServeCreate
<1>4. CASE ServeTest(o)
    BY <1>2, <1>4 DEF ServeTest, Row
<1>5. CASE ServeToggle(o)
    <2>1. o.kind = "enable" \/ row'[s].enabled = row[s].enabled \/ ~row'[s].enabled
        BY <1>2, <1>5 DEF ServeToggle, Row
    <2> QED
        BY <2>1 DEF OnPurpose
<1>6. CASE ServePut(o)
    <2>1. o \in SaveOp /\ o.kind = "put" /\ row' = [row EXCEPT ![o.form.id] = Updated(@, o)]
        BY <1>1, <1>6, Unserved DEF ServePut, RowOp
    <2>2. s = o.form.id
        BY <1>2, <2>1
    <2>3. row'[s].enabled = o.enabled
        BY <1>2, <2>1, <2>2 DEF Updated, Row
    <2> SUFFICES ASSUME ~o.mixed, ~o.form.unsure PROVE o.enabled # o.form.enabled
        BY <2>1 DEF OnPurpose
    <2>4. row[s].enabled = o.form.enabled
        BY <1>1, <2>1, <2>2 DEF SavesCurrent, SaveCurrent
    <2> QED
        BY <2>3, <2>4
<1> QED
    BY <1>3, <1>4, <1>5, <1>6

\* A disabled source is enabled by the button, or by a form whose switch was set,
\* or by one that was opened or saved while something was in flight or had failed:
\* any other save writes back what the table has (DataSourceManagement.tsx:108).
THEOREM EnablingIsOnPurpose == Spec => EnabledOnPurpose
<1> DEFINE A == \A s \in Existing :
                  ~row[s].enabled /\ row'[s].enabled => \E o \in ops \ ops' : OnPurpose(o)
<1>1. ASSUME PageTrue, [Next]_vars PROVE [A]_vars
    <2>1. ASSUME NEW s \in Existing, ~row[s].enabled, row'[s].enabled
          PROVE  \E o \in ops \ ops' : OnPurpose(o)
        <3>1. PICK o \in ops : /\ ~o.served
                               /\ ServeCreate(o) \/ ServePut(o) \/ ServeToggle(o) \/ ServeTest(o)
            BY <1>1, <2>1, TableChanges
        <3>2. OnPurpose(o)
            BY <1>1, <2>1, <3>1, EnabledByOne
        <3>3. Serve(o)
            BY <3>1 DEF ServeCreate, ServePut, ServeToggle, ServeTest
        <3>4. o \notin ops'
            <4>1. PICK a : /\ a = [kind |-> o.kind, n |-> o.n, served |-> TRUE] /\ a.served
                           /\ ops' = (ops \ {o}) \cup {a}
                BY <3>3 DEF Serve
            <4> QED
                BY <3>1, <4>1
        <3> QED
            BY <3>2, <3>4
    <2> QED
        BY <2>1
<1> QED
    BY <1>1, PageTrueInit, PageTrueNext, PTL DEF Spec, EnabledOnPurpose
=============================================================================
