---------------------------- MODULE ReportDetail ----------------------------
(***************************************************************************)
(* The detail page of an analysis task in the web client                   *)
(* (pages/AnalysisReportDetail): it loads the task of its address, asks    *)
(* again every five seconds while the task it shows is pending, and shows  *)
(* the report's text in parts (ReportText).                                *)
(*                                                                         *)
(* The interval does not wait for answers, nothing orders the answers, and *)
(* none is compared with the address, which may change under the page.     *)
(***************************************************************************)
EXTENDS ReportText, Bags

CONSTANTS
    Task,
    ReportsOf,    \* for each task, the texts its workflow may write
    NoDetail,
    MaxInFlight,  \* bound: requests of the page in flight
    MaxFailures,  \* bound: requests that fail
    MaxJumps      \* bound: changes of the address

ASSUME DetailAssumption ==
    /\ ReportsOf \in [Task -> SUBSET Seq(Written)]
    /\ NoDetail \notin [task : Task, status : {"pending", "completed", "failed"},
                        report : Seq(Kind)]
    /\ MaxInFlight \in Nat /\ MaxFailures \in Nat /\ MaxJumps \in Nat

VARIABLES
    status,    \* the tasks' status at the server
    written,   \* what their workflows wrote: <<>> without a body
    open,      \* the page is mounted
    fresh,     \* it has been rendered, and the effect that loads has not run
    taskId,    \* the task of the address
    detail,    \* the answer that is shown, or NoDetail
    loading,
    requests,  \* a bag of the page's requests in flight
    failures,  \* history: requests that failed
    late,      \* history: an answer for another address was shown
    jumps

server == <<status, written>>
page == <<open, fresh, taskId, detail, loading, requests>>
history == <<failures, late, jumps>>
vars == <<server, page, history>>

Ended == {"completed", "failed"}

\* What the page keeps of an answer.
Reply == [task : Task, status : {"pending"} \cup Ended, report : Seq(Kind)]

Request == [task : Task, silent : BOOLEAN, was : {"pending"} \cup Ended]

TypeOK ==
    /\ status \in [Task -> {"pending"} \cup Ended]
    /\ \A t \in Task : written[t] \in ReportsOf[t] \cup {<<>>}
    /\ open \in BOOLEAN /\ fresh \in BOOLEAN
    /\ taskId \in Task /\ loading \in BOOLEAN
    /\ detail \in Reply \cup {NoDetail}
    /\ IsABag(requests) /\ BagToSet(requests) \subseteq Request
    /\ failures \in 0..MaxFailures /\ late \in BOOLEAN /\ jumps \in 0..MaxJumps

Init ==
    /\ status = [t \in Task |-> "pending"] /\ written = [t \in Task |-> <<>>]
    /\ open = FALSE /\ fresh = FALSE /\ taskId \in Task /\ detail = NoDetail /\ loading = FALSE
    /\ requests = EmptyBag
    /\ failures = 0 /\ late = FALSE /\ jumps = 0

----------------------------------------------------------------------------
(* The server: a workflow ends, and its text is stored normalised.         *)
End(t, s, w) ==
    /\ status[t] = "pending"
    /\ status' = [status EXCEPT ![t] = s]
    /\ written' = [written EXCEPT ![t] = w]
    /\ UNCHANGED <<page, history>>

\* GET /sql-analysis/tasks/{task_id}: a pending or failed task has no result
\* (but for a task whose update failed behind its commit, see AnalysisTask).
Detail(t, s) ==
    [task |-> t, status |-> s,
     report |-> IF s = "completed" THEN Normalize(written[t]) ELSE <<>>]

----------------------------------------------------------------------------
\* loadDetail(silent), for the task of the address.
Send(t, silent, inFlight) ==
    /\ BagCardinality(inFlight) < MaxInFlight
    /\ requests' = inFlight (+)
           SetToBag({[task |-> t, silent |-> silent, was |-> status[t]]})

\* The first render, of a page with neither an answer nor a request.
Mount ==
    /\ ~open
    /\ open' = TRUE /\ fresh' = TRUE
    /\ detail' = NoDetail /\ loading' = FALSE /\ requests' = EmptyBag
    /\ UNCHANGED <<server, taskId, history>>

\* Mutant: the effect loads silently, as the interval does.
LoadFirstSilently ==
    /\ open /\ fresh
    /\ fresh' = FALSE
    /\ Send(taskId, TRUE, requests)
    /\ UNCHANGED <<server, open, taskId, detail, loading, history>>

\* The effect, which may run after the browser has painted that render.
LoadFirst ==
    /\ open /\ fresh
    /\ fresh' = FALSE /\ loading' = TRUE
    /\ Send(taskId, FALSE, requests)
    /\ UNCHANGED <<server, open, taskId, detail, history>>

\* Mutant: the effect does not depend on the address.
JumpWithoutLoad(t) ==
    /\ open /\ ~fresh /\ t # taskId /\ jumps < MaxJumps
    /\ taskId' = t /\ jumps' = jumps + 1
    /\ UNCHANGED <<server, open, fresh, detail, loading, requests, failures, late>>

\* Another task's address, by the browser's history: the router keeps the
\* component with what it shows, and the effect loads the other task.  The
\* effects of a render run before the next render.
Jump(t) ==
    /\ open /\ ~fresh /\ t # taskId /\ jumps < MaxJumps
    /\ taskId' = t /\ jumps' = jumps + 1
    /\ loading' = TRUE
    /\ Send(t, FALSE, requests)
    /\ UNCHANGED <<server, open, fresh, detail, failures, late>>

Refresh ==
    /\ open /\ loading' = TRUE
    /\ Send(taskId, FALSE, requests)
    /\ UNCHANGED <<server, open, fresh, taskId, detail, history>>

\* Mutant: no interval is set.
PollingNever == FALSE

Polling == open /\ detail # NoDetail /\ detail.status = "pending"

\* The interval: of the task it shows it only knows that it is pending.
Poll ==
    /\ Polling
    /\ Send(taskId, TRUE, requests)
    /\ UNCHANGED <<server, open, fresh, taskId, detail, loading, history>>

\* Answers to a component that is gone change nothing.
Unmount ==
    /\ open
    /\ open' = FALSE /\ fresh' = FALSE /\ detail' = NoDetail /\ loading' = FALSE
    /\ requests' = EmptyBag
    /\ UNCHANGED <<server, taskId, history>>

\* Mutant: without the finally clause.
SettledLoading(r) ==
    /\ requests' = requests (-) SetToBag({r})
    /\ UNCHANGED loading

Settled(r) ==
    /\ requests' = requests (-) SetToBag({r})
    /\ loading' = (loading /\ r.silent)

\* The server reads the row at some time between: only its end can differ.
Answered(r) ==
    /\ detail' \in {Detail(r.task, r.was), Detail(r.task, status[r.task])}
    /\ Settled(r)
    /\ late' = (late \/ r.task # taskId)
    /\ UNCHANGED <<server, open, fresh, taskId, failures, jumps>>

\* A message, unless it was a poll; what is shown stays.
Failed(r) ==
    /\ failures < MaxFailures
    /\ failures' = failures + 1
    /\ Settled(r)
    /\ UNCHANGED <<server, open, fresh, taskId, detail, late, jumps>>

Settle(t) ==
    \E r \in BagToSet(requests) : r.task = t /\ (Answered(r) \/ Failed(r))

Next ==
    \/ \E t \in Task :
         \/ End(t, "failed", <<>>)
         \/ \E w \in ReportsOf[t] \cup {<<>>} : End(t, "completed", w)
         \/ Jump(t) \/ Settle(t)
    \/ Mount \/ LoadFirst \/ Refresh \/ Poll \/ Unmount

\* Effects run, the browser's timer fires, and requests end.
Fairness ==
    /\ WF_vars(LoadFirst) /\ WF_vars(Poll)
    /\ \A r \in Request : WF_vars(r \in BagToSet(requests) /\ (Answered(r) \/ Failed(r)))

Spec == Init /\ [][Next]_vars

FairSpec == Spec /\ Fairness

----------------------------------------------------------------------------
(* What the page shows.  Without an answer it says that the task was not   *)
(* found, also while it is loading: then the words stand under a spinner.  *)
Screen ==
    IF detail = NoDetail
    THEN IF loading THEN "not found, under a spinner" ELSE "not found"
    ELSE IF detail.status # "completed" THEN "no result yet"
    ELSE IF detail.report = <<>> THEN "read the PDF"
    ELSE IF Structured(detail.report) THEN "parts" ELSE "text"

(* No order of answers, polls and jumps leaves the spinner on for ever.    *)
SpinnerHasLoad ==
    loading => \E r \in BagToSet(requests) : ~r.silent

(* The words "task not found" (AnalysisReportDetail.tsx:964) stand without *)
(* a spinner, as if that were the answer, only after a request has failed, *)
(* or in the first render, before the effect that loads.  Whether the task *)
(* exists does not enter: under the spinner they stand during every first  *)
(* load, and after a failure while another answer may still come.          *)
NotFoundNeedsFailure == open /\ Screen = "not found" => fresh \/ failures > 0

(* The page's state at every moment.                                       *)
PageConsistent == TypeOK /\ SpinnerHasLoad /\ NotFoundNeedsFailure

(* The report on the page is that of the address, once everything has been *)
(* answered, unless an answer for the last address came after the jump and *)
(* was shown under the new one.                                            *)
WrongReportNeedsLateAnswer ==
    open /\ requests = EmptyBag /\ failures = 0 /\ ~late /\ detail # NoDetail
        => detail.task = taskId

(* A poll that was sent before the end may be answered after one that saw  *)
(* it, and put "pending" back.  That is repaired by the polling it starts: *)
(* the page comes to show the end of its task.  The formula promises this  *)
(* only of a page that stays on its task, with no request ever failed (the *)
(* first load is not repeated, and a page without an answer does not poll) *)
(* and no late answer for another address ever shown.                      *)
EndArrives ==
    \A t \in Task :
        open /\ taskId = t /\ status[t] \in Ended
            ~> \/ ~open \/ taskId # t
               \/ failures > 0 \/ late
               \/ detail # NoDetail /\ detail.task = t /\ detail.status = status[t]

\* What may follow what in the format the workflow is told to write.
Format ==
    ({<<"title", "overview">>, <<"overview", "plain">>, <<"plain", "levels">>,
      <<"levels", "bullet">>, <<"bullet", "details">>, <<"details", "group">>,
      <<"entry", "sql">>, <<"sql", "risk">>, <<"risk", "result">>,
      <<"advice", "row">>, <<"row", "rule">>, <<"rule", "row">>, <<"row", "row">>}
     \cup ({"group"} \X {"none", "entry"})
     \cup ({"none"} \X {"group", "advice"})
     \cup ({"result", "point"} \X {"point", "entry", "group", "advice"}))

\* A table is a header, a line under it, and at least one row.
WellFormed(text) ==
    /\ text # <<>> /\ text[1] = "title"
    /\ \A i \in 1..Len(text) - 1 : <<text[i], text[i + 1]>> \in Format
    /\ text[Len(text)] = "row" /\ text[Len(text) - 1] # "advice"
    /\ \A i \in DOMAIN text :
          text[i] = "rule" <=> i > 2 /\ text[i - 2] = "advice"

(* A report that reaches the page in the workflow's format is shown whole, *)
(* but for the section headings, which the page replaces, the line under a *)
(* table's header, and what stands on the result lines themselves.         *)
ArrivedShown ==
    Screen = "parts" /\ WellFormed(detail.report)
        => DOMAIN detail.report \ Lines(detail.report, Heading \cup {"result", "rule"})
             \subseteq Shown(detail.report)

Glued(w) == \A i \in DOMAIN w : w[i].kind \in {"group", "entry"} => w[i].glued
Kinds(w) == [i \in DOMAIN w |-> w[i].kind]

(* From the workflow to the screen: when a task has ended with a report in  *)
(* the workflow's format, whose headings of groups and entries were glued   *)
(* to the line before, the page that shows the end shows the report whole.  *)
(* If they stand on lines of their own that is false (ItemsShown).          *)
GluedShown ==
    detail # NoDetail /\ detail.status = "completed" =>
        LET w == written[detail.task]
        IN  WellFormed(Kinds(w)) /\ Glued(w) =>
              DOMAIN w \ Lines(Kinds(w), Heading \cup {"result", "rule"})
                \subseteq Shown(detail.report)

(* No part of a report in the workflow's format is left out on its way to  *)
(* the screen.                                                             *)
WellFormedShown == ArrivedShown /\ GluedShown

(* The risk beside a statement is the one the report gives for it: whatever *)
(* the workflow leaves out, unless it puts two statements, or a risk before *)
(* its statement, under one heading (AnalysisReportDetail.tsx:235).         *)
RiskOfItsStatement ==
    Screen = "parts" =>
        LET text == detail.report
            items == Items(text)
            heads == Lines(text, Heading \cup {"group", "entry"})
            statements == Lines(text, {"sql"})
        IN  \A i \in DOMAIN items :
              LET s == Field(text, items[i], "sql")
                  r == Field(text, items[i], "risk")
              IN  s # 0 /\ r # 0 =>
                    \/ Above(r, statements \cup heads) = s
                    \/ s > r /\ Above(s, heads) = Above(r, heads)

(* What the page says of itself (AnalysisReportDetail.tsx:589): the report *)
(* is taken apart into overview, risk, analysis by item, and advice, so    *)
(* each statement of a report in the workflow's format is shown.           *)
ItemsShown ==
    /\ detail # NoDetail /\ detail.status = "completed"
    /\ WellFormed(Kinds(written[detail.task]))
    => Lines(detail.report, {"sql"}) \subseteq Shown(detail.report)
=============================================================================
