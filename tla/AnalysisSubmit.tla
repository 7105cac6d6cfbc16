--------------------------- MODULE AnalysisSubmit ---------------------------
(***************************************************************************)
(* How the search page of the web client submits an analysis and follows   *)
(* it (handleAnalyze, submitAnalysis and the two dialogs of                *)
(* pages/RecordSearch/RecordSearch.tsx): match a data source, let the user *)
(* choose, post the task, wait 2 s, poll every 10 s, and go to the result  *)
(* list 1 s after the end.                                                 *)
(*                                                                         *)
(* An attempt is one click on an analyse button with clusters of one       *)
(* database; a click the page refuses with a warning changes nothing.      *)
(* Handlers of a component that has left the screen still run: they write  *)
(* its refs, send requests and navigate, only its state is gone.           *)
(***************************************************************************)
EXTENDS Naturals, FiniteSets

CONSTANTS
    MaxAttempts,  \* bound: clicks on an analyse button
    MaxPolls,     \* bound: polls of one task in flight at once
    MaxLost       \* bound: polls that fail

ASSUME SubmitAssumption ==
    /\ MaxAttempts \in Nat /\ MaxPolls \in Nat \ {0} /\ MaxLost \in Nat

VARIABLES
    used,       \* attempts made so far
    matching,   \* attempts whose getDataSources is in flight
    posts,      \* submissions in flight
    task,       \* the server's task of each attempt
    delays,     \* attempts whose 2 s timer runs
    intervals,  \* attempts with a polling interval
    ref,        \* pollingIntervalRef: the attempt whose interval it holds, or 0
    polls,      \* polls in flight, with the status the server gave
    leaving,    \* per attempt, 1 s timers that will open the result list
    dialog,     \* the data source dialog and pendingAnalysisRecords
    progress,   \* analysisProgress: the progress dialog
    onPage,     \* the search page is on the screen
    lost,       \* polls that failed so far
    doubled     \* history: a click while another attempt was matching

requests == <<matching, posts, polls, lost>>
timers == <<delays, intervals, ref, leaving>>
screen == <<dialog, progress, onPage>>
submitVars == <<used, requests, task, timers, screen, doubled>>

Attempt == 1..MaxAttempts
Status == {"none", "pending", "completed", "failed"}
Closed == [open |-> FALSE, pending |-> 0]
Hidden == [visible |-> FALSE, status |-> "none"]

\* A submission carries the clusters of attempt "of"; 0 stands for none.
Post == [of : 0..MaxAttempts, chosen : BOOLEAN]
Poll == [of : Attempt, slot : 1..MaxPolls, saw : Status]

SubmitTypeOK ==
    /\ used \in 0..MaxAttempts /\ lost \in 0..MaxLost
    /\ matching \subseteq Attempt /\ posts \subseteq Post
    /\ polls \subseteq Poll
    /\ task \in [Attempt -> Status]
    /\ delays \subseteq Attempt /\ intervals \subseteq Attempt
    /\ ref \in 0..MaxAttempts
    /\ leaving \in [Attempt -> 0..MaxPolls]
    /\ dialog \in [open : BOOLEAN, pending : 0..MaxAttempts]
    /\ progress \in [visible : BOOLEAN, status : Status]
    /\ onPage \in BOOLEAN /\ doubled \in BOOLEAN

SubmitInit ==
    /\ used = 0 /\ lost = 0
    /\ matching = {} /\ posts = {} /\ polls = {}
    /\ task = [n \in Attempt |-> "none"]
    /\ delays = {} /\ intervals = {} /\ ref = 0
    /\ leaving = [n \in Attempt |-> 0]
    /\ dialog = Closed /\ progress = Hidden
    /\ onPage = TRUE /\ doubled = FALSE

\* setState on a component that is gone does nothing.
Show(p) == progress' = IF onPage THEN p ELSE progress

\* Mutant: the ref is reset, what it held is not cleared.
ForgetRef ==
    /\ ref' = 0
    /\ UNCHANGED intervals

\* clearInterval of what the ref holds, whichever attempt that is.
ClearRef ==
    /\ intervals' = intervals \ {ref}
    /\ ref' = 0

----------------------------------------------------------------------------
\* handleAnalyze up to its request.  Both dialogs mask the page.
Analyze ==
    /\ onPage /\ ~progress.visible /\ ~dialog.open
    /\ used < MaxAttempts
    /\ used' = used + 1
    /\ matching' = matching \cup {used'}
    /\ doubled' = (doubled \/ matching # {})
    /\ UNCHANGED <<posts, polls, lost, task, timers, screen>>

\* submitAnalysis up to its request.
SubmitAnalysis(n, chosen) ==
    /\ ClearRef
    /\ posts' = posts \cup {[of |-> n, chosen |-> chosen]}
    /\ Show([visible |-> TRUE, status |-> "pending"])

\* None or one enabled and tested source: submit.  Several: ask the user.
MatchedOne(n) ==
    /\ n \in matching
    /\ matching' = matching \ {n}
    /\ SubmitAnalysis(n, FALSE)
    /\ UNCHANGED <<used, polls, lost, task, delays, leaving, dialog, onPage,
                   doubled>>

MatchedMany(n) ==
    /\ n \in matching
    /\ matching' = matching \ {n}
    /\ dialog' = IF onPage THEN [open |-> TRUE, pending |-> n] ELSE dialog
    /\ UNCHANGED <<used, posts, polls, lost, task, timers, progress, onPage,
                   doubled>>

MatchFailed(n) ==
    /\ n \in matching
    /\ matching' = matching \ {n}
    /\ UNCHANGED <<used, posts, polls, lost, task, timers, screen, doubled>>

\* onOk closes the dialog and submits what is pending at this moment.
DialogOk ==
    /\ onPage /\ dialog.open
    /\ dialog' = [dialog EXCEPT !.open = FALSE]
    /\ SubmitAnalysis(dialog.pending, TRUE)
    /\ UNCHANGED <<used, matching, polls, lost, task, delays, leaving,
                   onPage, doubled>>

DialogCancel ==
    /\ onPage /\ dialog.open
    /\ dialog' = Closed
    /\ UNCHANGED <<used, requests, task, timers, progress, onPage, doubled>>

\* What onOk does when its submitAnalysis has returned.
EmptyPending(chosen) ==
    dialog' = IF chosen /\ onPage THEN [dialog EXCEPT !.pending = 0]
              ELSE dialog

\* The server refuses an empty batch.  The 2 s timer is set after the answer.
PostAccepted(p) ==
    /\ p \in posts /\ p.of # 0
    /\ posts' = posts \ {p}
    /\ task' = [task EXCEPT ![p.of] = "pending"]
    /\ delays' = delays \cup {p.of}
    /\ Show([progress EXCEPT !.status = "pending"])
    /\ EmptyPending(p.chosen)
    /\ UNCHANGED <<used, matching, polls, lost, intervals, ref, leaving,
                   onPage, doubled>>

\* Mutant: the progress dialog is left as it is.
PostRefusedShown(p) ==
    /\ p \in posts
    /\ posts' = posts \ {p}
    /\ ClearRef
    /\ EmptyPending(p.chosen)
    /\ UNCHANGED <<used, matching, polls, lost, task, delays, leaving,
                   progress, onPage, doubled>>

PostRefused(p) ==
    /\ p \in posts
    /\ posts' = posts \ {p}
    /\ Show([progress EXCEPT !.visible = FALSE])
    /\ ClearRef
    /\ EmptyPending(p.chosen)
    /\ UNCHANGED <<used, matching, polls, lost, task, delays, leaving,
                   onPage, doubled>>

----------------------------------------------------------------------------
\* pollAnalysisResult up to its request.  The server reads the status now;
\* the answer may come later than that of a poll sent after this one.
SendPoll(n) ==
    \E s \in 1..MaxPolls :
        /\ \A p \in polls : p.of = n => p.slot # s
        /\ polls' = polls \cup {[of |-> n, slot |-> s, saw |-> task[n]]}

\* Mutant: one poll and no interval.
DelayOverOnePoll(n) ==
    /\ n \in delays
    /\ delays' = delays \ {n}
    /\ SendPoll(n)
    /\ UNCHANGED <<used, matching, posts, lost, task, intervals, ref, leaving,
                   screen, doubled>>

DelayOver(n) ==
    /\ n \in delays
    /\ delays' = delays \ {n}
    /\ SendPoll(n)
    /\ intervals' = intervals \cup {n}
    /\ ref' = n
    /\ UNCHANGED <<used, matching, posts, lost, task, leaving, screen, doubled>>

Tick(n) ==
    /\ n \in intervals
    /\ SendPoll(n)
    /\ UNCHANGED <<used, matching, posts, lost, task, timers, screen, doubled>>

PollPending(p) ==
    /\ p \in polls /\ p.saw = "pending"
    /\ polls' = polls \ {p}
    /\ Show([progress EXCEPT !.status = "pending"])
    /\ UNCHANGED <<used, matching, posts, lost, task, timers, dialog, onPage,
                   doubled>>

PollCompleted(p) ==
    /\ p \in polls /\ p.saw = "completed"
    /\ leaving[p.of] < MaxPolls
    /\ polls' = polls \ {p}
    /\ Show([progress EXCEPT !.status = "completed"])
    /\ ClearRef
    /\ leaving' = [leaving EXCEPT ![p.of] = @ + 1]
    /\ UNCHANGED <<used, matching, posts, lost, task, delays, dialog, onPage,
                   doubled>>

\* Mutant: only a completed task ends the polling.
PollFailedGoesOn(p) ==
    /\ p \in polls /\ p.saw = "failed"
    /\ polls' = polls \ {p}
    /\ Show([progress EXCEPT !.status = "failed"])
    /\ UNCHANGED <<used, matching, posts, lost, task, timers, dialog, onPage,
                   doubled>>

PollFailed(p) ==
    /\ p \in polls /\ p.saw = "failed"
    /\ polls' = polls \ {p}
    /\ Show([progress EXCEPT !.status = "failed"])
    /\ ClearRef
    /\ UNCHANGED <<used, matching, posts, lost, task, delays, leaving, dialog,
                   onPage, doubled>>

\* The request of a poll fails: logged, nothing else.
PollLost(p) ==
    /\ p \in polls /\ lost < MaxLost
    /\ polls' = polls \ {p}
    /\ lost' = lost + 1
    /\ UNCHANGED <<used, matching, posts, task, timers, screen, doubled>>

\* The page goes away: the clean-up clears the interval the ref holds, and
\* no timeout.
PageLeft ==
    /\ onPage' = FALSE
    /\ dialog' = Closed /\ progress' = Hidden
    /\ ClearRef

\* navigate() also runs when the user has gone elsewhere in the meantime.
OpenResults(n) ==
    /\ leaving[n] > 0
    /\ leaving' = [leaving EXCEPT ![n] = @ - 1]
    /\ IF onPage THEN PageLeft ELSE UNCHANGED <<screen, intervals, ref>>
    /\ UNCHANGED <<used, requests, task, delays, doubled>>

Leave ==
    /\ onPage
    /\ PageLeft
    /\ UNCHANGED <<used, requests, task, delays, leaving, doubled>>

\* The server ends a task (module AnalysisTask).
TaskEnds(n) ==
    /\ task[n] = "pending"
    /\ \E end \in {"completed", "failed"} : task' = [task EXCEPT ![n] = end]
    /\ UNCHANGED <<used, requests, timers, screen, doubled>>

----------------------------------------------------------------------------
Match(n) == MatchedOne(n) \/ MatchedMany(n) \/ MatchFailed(n)
PostEnds(p) == PostAccepted(p) \/ PostRefused(p)
PollEnds(p) == PollPending(p) \/ PollCompleted(p) \/ PollFailed(p) \/ PollLost(p)

SubmitNext ==
    \/ Analyze \/ DialogOk \/ DialogCancel \/ Leave
    \/ \E n \in Attempt :
         Match(n) \/ DelayOver(n) \/ Tick(n) \/ OpenResults(n) \/ TaskEnds(n)
    \/ \E p \in posts : PostEnds(p)
    \/ \E p \in polls : PollEnds(p)

SubmitSpec == SubmitInit /\ [][SubmitNext]_submitVars

\* Timers fire, requests end, and the server ends its tasks.
SubmitFairSpec ==
    /\ SubmitSpec
    /\ \A n \in Attempt :
         /\ WF_submitVars(DelayOver(n)) /\ WF_submitVars(Tick(n))
         /\ WF_submitVars(OpenResults(n)) /\ WF_submitVars(TaskEnds(n))
    /\ \A p \in Poll : WF_submitVars(PollEnds(p))

----------------------------------------------------------------------------
(* Attempts do not meddle with each other.  No interval leaks, which would *)
(* poll for ever and open the list again and again, because the ref names  *)
(* another one; and what the user confirms in the data source dialog is    *)
(* what is submitted.  Either takes two clicks on analyse before the first *)
(* one's data sources have come: until then no dialog masks the page       *)
(* (RecordSearch.tsx:310-370, 534-536).                                    *)
AttemptsApart ==
    /\ SubmitTypeOK
    /\ doubled \/ intervals \subseteq {ref}
    /\ doubled \/ \A p \in posts : p.of # 0

(* The progress dialog has no way to be closed (RecordSearch.tsx:557-566). *)
(* It stays up with nothing left that could close it or open the list only *)
(* after a task has failed.                                                *)
Alive ==
    \/ posts # {} \/ delays # {} \/ intervals # {} \/ polls # {}
    \/ \E n \in Attempt : leaving[n] > 0
StuckNeedsFailure ==
    progress.visible /\ ~Alive => \E n \in Attempt : task[n] = "failed"

(* A task that was accepted is followed to its end: the page goes to its   *)
(* list, or the task has failed, or the user left or clicked twice, even   *)
(* if polls fail or answer out of order.                                   *)
TaskFollowed ==
    \A n \in Attempt :
        task[n] = "pending" ~> (task[n] = "failed" \/ ~onPage \/ doubled)

(* The polling ends, also when the user left the page during the 2 s or   *)
(* 1 s that no clean-up clears (RecordSearch.tsx:288-293, 399-413): the    *)
(* timer then starts an interval for a page that is gone.                  *)
PollingEnds == <>[](intervals = {}) \/ <>doubled
=============================================================================
