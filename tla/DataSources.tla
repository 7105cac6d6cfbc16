----------------------------- MODULE DataSources -----------------------------
(***************************************************************************)
(* The data sources of the analyses: the management page of the web client *)
(* (pages/DataSourceManagement), the service behind it                     *)
(* (data_source_service).                                                  *)
(*                                                                         *)
(* Each handler of the server runs to its end on the event loop, so it is  *)
(* one step; requests and answers of the page are in flight in any number  *)
(* and order.  One user works with one page; what the form holds is chosen *)
(* when it is saved.                                                       *)
(***************************************************************************)
EXTENDS Naturals, FiniteSets

CONSTANTS
    Source,       \* ids of data sources
    Target,       \* what a row connects to: type, host, port, database, user
    Password,
    Works,        \* the logins that a database accepts
    NoRow,
    NoPassword,   \* the field of the form was left empty
    MaxOps,       \* bound: requests that change something
    MaxForms,     \* bound: forms opened
    MaxLoads,     \* bound: lists asked for
    MaxInFlight,  \* bound: lists, and changes, in flight
    MaxFailures   \* bound: requests that fail on their way

ASSUME SourceAssumption ==
    /\ Works \subseteq Target \X Password
    /\ NoPassword \notin Password
    /\ NoRow \notin [enabled : BOOLEAN, target : Target, password : Password,
                     test : {"none", "success", "failed"}]
    /\ MaxOps \in Nat /\ MaxForms \in Nat /\ MaxLoads \in Nat \ {0}
    /\ MaxFailures \in Nat /\ MaxInFlight \in Nat

VARIABLES
    row,       \* the table data_source
    shown,     \* items, with the number of the list they come from
    loading,
    sent,      \* lists asked for so far
    loads,     \* lists in flight
    form,      \* the dialog: closed, or open for a new or a shown row
    ops,       \* changes in flight
    asked,     \* changes asked for so far
    opened,    \* forms opened so far
    failures,  \* history: requests that failed
    tested,    \* history: the logins that passed a test, of each source
    moved      \* history: sources whose target changed since their password

client == <<shown, loading, sent, loads, form, opened>>
requests == <<ops, asked, failures>>
checks == <<tested, moved>>
vars == <<row, client, requests, checks>>

Row == [enabled : BOOLEAN, target : Target, password : Password,
        test : {"none", "success", "failed"}]
Rows == [Source -> Row \cup {NoRow}]

\* serialize_data_source: the password stays on the server.
View(r) ==
    IF r = NoRow THEN NoRow
    ELSE [enabled |-> r.enabled, target |-> r.target, test |-> r.test]
List == [s \in Source |-> View(row[s])]
Lists == [Source -> {NoRow} \cup [enabled : BOOLEAN, target : Target,
                                 test : {"none", "success", "failed"}]]
Closed == [open |-> FALSE]

Existing == {s \in Source : row[s] # NoRow}
Login(r) == <<r.target, r.password>>

TypeOK ==
    /\ row \in Rows
    /\ shown.rows \in Lists /\ shown.id \in 0..MaxLoads /\ loading \in BOOLEAN
    /\ \A l \in loads : l.id \in 1..MaxLoads /\ (l.read => l.rows \in Lists)
    /\ form # Closed => form.new \/ form.id \in Source
    /\ \A o \in ops : o.kind \in {"create", "put", "enable", "disable", "test", "sync"}
    /\ sent \in 0..MaxLoads /\ asked \in 0..MaxOps /\ opened \in 0..MaxForms
    /\ failures \in 0..MaxFailures
    /\ tested \in [Source -> SUBSET Works] /\ moved \subseteq Source

\* loadDataSources: a list in flight, whose rows have not been read.
Load(id) == [id |-> id, read |-> FALSE]

Init ==
    /\ row \in [Source -> {NoRow} \cup [enabled : {TRUE}, target : Target,
                                        password : Password,
                                        test : {"none", "success"}]]
    /\ tested = [s \in Source |-> IF s \in Existing /\ row[s].test = "success"
                                  THEN {Login(row[s])} ELSE {}]
    /\ tested \in [Source -> SUBSET Works]
    /\ shown = [id |-> 0, rows |-> [s \in Source |-> NoRow]]
    /\ loading = TRUE /\ sent = 1 /\ loads = {Load(1)}
    /\ form = Closed /\ opened = 0
    /\ ops = {} /\ asked = 0 /\ failures = 0
    /\ moved = {}

----------------------------------------------------------------------------
(* The list.                                                               *)
Reload ==
    /\ sent < MaxLoads /\ Cardinality(loads) < MaxInFlight
    /\ sent' = sent + 1 /\ loads' = loads \cup {Load(sent')}
    /\ loading' = TRUE

Refresh ==
    /\ Reload
    /\ UNCHANGED <<row, shown, form, opened, requests, checks>>

ServeList(l) ==
    /\ ~l.read
    /\ loads' = (loads \ {l}) \cup {[id |-> l.id, read |-> TRUE, rows |-> List]}
    /\ UNCHANGED <<row, shown, loading, sent, form, opened, requests, checks>>

Loaded(l) ==
    /\ l.read
    /\ loads' = loads \ {l}
    /\ shown' = [id |-> l.id, rows |-> l.rows]
    /\ loading' = FALSE
    /\ UNCHANGED <<row, sent, form, opened, requests, checks>>

LoadFailed(l) ==
    /\ failures < MaxFailures
    /\ failures' = failures + 1
    /\ loads' = loads \ {l}
    /\ loading' = FALSE
    /\ UNCHANGED <<row, shown, sent, form, opened, ops, asked, checks>>

----------------------------------------------------------------------------
(* The form.  It masks the page, and so does the spinner the table.        *)
\* The page may show what the table does not hold any more.
Unsure ==
    ops # {} \/ loads # {} \/ failures > 0 \/ shown.id < sent

OpenForm(f) ==
    /\ ~form.open /\ opened < MaxForms
    /\ opened' = opened + 1
    /\ form' = f
    /\ UNCHANGED <<row, shown, loading, sent, loads, requests, checks>>

OpenCreate ==
    OpenForm([open |-> TRUE, new |-> TRUE])

OpenEdit(s) ==
    /\ ~loading /\ shown.rows[s] # NoRow
    /\ OpenForm([open |-> TRUE, new |-> FALSE, id |-> s,
                 enabled |-> shown.rows[s].enabled, unsure |-> Unsure])

Cancel ==
    /\ form.open
    /\ form' = Closed
    /\ UNCHANGED <<row, shown, loading, sent, loads, opened, requests, checks>>

Mixed(p) == IF p.served THEN p ELSE [p EXCEPT !.mixed = TRUE]

\* "mixed" is history: another change was in flight with this one, or had
\* failed before it.
Ask(o) ==
    /\ asked < MaxOps /\ Cardinality(ops) < MaxInFlight
    /\ asked' = asked + 1
    /\ ops' = {Mixed(p) : p \in ops} \cup {o}
    /\ UNCHANGED <<row, client, failures, checks>>

\* handleSave: an empty password is left out of an update.  The form stays
\* open, and can be saved again, until the answer.
Save(enabled, target, typed) ==
    /\ form.open
    /\ form.new => typed # NoPassword
    /\ Ask([kind |-> IF form.new THEN "create" ELSE "put", n |-> asked + 1,
            served |-> FALSE, form |-> form,
            mixed |-> ops # {} \/ failures > 0,
            enabled |-> enabled, target |-> target, typed |-> typed])

\* The buttons of a row.  The confirmation of the switch lies over the spinner:
\* it can be pressed while the list is loading.
Press(kind, s) ==
    /\ ~form.open /\ shown.rows[s] # NoRow
    /\ loading => kind \in {"enable", "disable"}
    /\ kind = "enable" => ~shown.rows[s].enabled
    /\ kind = "disable" => shown.rows[s].enabled
    /\ Ask([kind |-> kind, n |-> asked + 1, served |-> FALSE,
            mixed |-> ops # {} \/ failures > 0, id |-> s])

----------------------------------------------------------------------------
(* The service.                                                            *)
Serve(o) ==
    /\ ops' = (ops \ {o}) \cup {[kind |-> o.kind, n |-> o.n, served |-> TRUE]}
    /\ UNCHANGED <<client, asked, failures>>

\* create: a new row; a name that is taken is refused, which is a failure.
ServeCreate(o) ==
    /\ o.kind = "create"
    /\ \E s \in Source \ Existing :
         row' = [row EXCEPT ![s] =
                   [enabled |-> o.enabled, target |-> o.target,
                    password |-> o.typed, test |-> "none"]]
    /\ Serve(o)
    /\ UNCHANGED checks

\* Mutant: a new password keeps the result of the test.
UpdatedKeepTest(r, o) ==
    [r EXCEPT !.enabled = o.enabled, !.target = o.target,
              !.password = IF o.typed = NoPassword THEN @ ELSE o.typed]

\* update: a new password, and nothing else, takes the test's result away.
Updated(r, o) ==
    [r EXCEPT !.enabled = o.enabled, !.target = o.target,
              !.password = IF o.typed = NoPassword THEN @ ELSE o.typed,
              !.test = IF o.typed = NoPassword THEN @ ELSE "none"]

ServePut(o) ==
    /\ o.kind = "put"
    /\ row' = [row EXCEPT ![o.form.id] = Updated(@, o)]
    /\ moved' = IF o.typed # NoPassword THEN moved \ {o.form.id}
                ELSE IF o.target # row[o.form.id].target
                THEN moved \cup {o.form.id} ELSE moved
    /\ Serve(o)
    /\ UNCHANGED tested

ServeToggle(o) ==
    /\ o.kind \in {"enable", "disable"}
    /\ row' = [row EXCEPT ![o.id].enabled = (o.kind = "enable")]
    /\ Serve(o)
    /\ UNCHANGED checks

\* test_connection or mark_test_failed: a login may also fail by accident.
ServeTest(o) ==
    /\ o.kind = "test"
    /\ LET login == Login(row[o.id])
       IN  \/ /\ row' = [row EXCEPT ![o.id].test = "failed"]
              /\ UNCHANGED checks
           \/ /\ login \in Works
              /\ row' = [row EXCEPT ![o.id].test = "success"]
              /\ tested' = [tested EXCEPT ![o.id] = @ \cup {login}]
              /\ UNCHANGED moved
    /\ Serve(o)

\* sync_metadata writes to another table.
ServeSync(o) == o.kind = "sync" /\ Serve(o) /\ UNCHANGED <<row, checks>>

\* Mutant: the list is not loaded again after the buttons of a row.
ReloadsAfterSave(o) == o.kind \in {"create", "put"}

\* Every request that succeeds, and a test that fails, loads the list again.
Reloads(o) == TRUE

\* The answer to a save closes the dialog, whichever form is open by then.
Answered(o) ==
    /\ o.served
    /\ ops' = ops \ {o}
    /\ form' = IF o.kind \in {"create", "put"} THEN Closed ELSE form
    /\ IF Reloads(o) THEN Reload ELSE UNCHANGED <<sent, loads, loading>>
    /\ UNCHANGED <<row, shown, opened, asked, failures, checks>>

\* The request or its answer is lost, or refused: a message.
OpFailed(o) ==
    /\ failures < MaxFailures
    /\ failures' = failures + 1
    /\ ops' = ops \ {o}
    /\ IF o.kind = "test" THEN Reload ELSE UNCHANGED <<sent, loads, loading>>
    /\ UNCHANGED <<row, shown, form, opened, asked, checks>>

----------------------------------------------------------------------------
(* What an analysis asks of its source before it starts: require_ready_for *)
(* _analysis.                                                              *)
Ready(s) == s \in Existing /\ row[s].enabled /\ row[s].test = "success"

----------------------------------------------------------------------------
OpStep(o) ==
    \/ /\ ~o.served
       /\ \/ ServeCreate(o) \/ ServePut(o) \/ ServeToggle(o)
          \/ ServeTest(o) \/ ServeSync(o)
    \/ Answered(o) \/ OpFailed(o)

Next ==
    \/ Refresh \/ OpenCreate \/ Cancel
    \/ \E l \in loads : ServeList(l) \/ Loaded(l) \/ LoadFailed(l)
    \/ \E s \in Source :
         \/ OpenEdit(s)
         \/ \E kind \in {"enable", "disable", "test", "sync"} : Press(kind, s)
    \/ \E enabled \in BOOLEAN, target \in Target, typed \in Password \cup {NoPassword} :
         Save(enabled, target, typed)
    \/ \E o \in ops : OpStep(o)

Spec == Init /\ [][Next]_vars

----------------------------------------------------------------------------
(* The page's state at every moment.  No order of answers leaves the       *)
(* spinner over the table for ever.  And when everything has been answered *)
(* the page shows the table: every change, and every failed test, loads    *)
(* the list again, unless an older list was answered last, or a request    *)
(* failed on its way (DataSourceManagement.tsx:64-75, 149).                *)
PageConsistent ==
    /\ TypeOK
    /\ loading => loads # {}
    /\ ops = {} /\ loads = {} /\ failures = 0 /\ shown.id = sent
         => shown.rows = List

(* A source that is disabled is enabled again only on purpose: by the      *)
(* button, or by a form in which the switch was set.  A form that was      *)
(* opened or saved while something was in flight, or had failed, may hold  *)
(* an old "enabled" and write it back (DataSourceManagement.tsx:108).      *)
OnPurpose(o) ==
    \/ o.kind = "enable"
    \/ o.kind = "put" /\ (o.mixed \/ o.form.unsure \/ o.enabled # o.form.enabled)
EnabledOnPurpose ==
    [][\A s \in Existing :
         ~row[s].enabled /\ row'[s].enabled => \E o \in ops \ ops' : OnPurpose(o)]_vars

(* What the page says of itself (DataSourceManagement.tsx:263): an         *)
(* analysis uses only sources that passed their test.  The login of a      *)
(* source that is ready did, whatever order tests, saves and buttons came  *)
(* in, unless the source was given another target and kept its password,   *)
(* which keeps the result of the old target's test                         *)
(* (data_source_service.py:116).                                           *)
ReadyWasTested ==
    \A s \in Source : Ready(s) => Login(row[s]) \in tested[s] \/ s \in moved
=============================================================================
