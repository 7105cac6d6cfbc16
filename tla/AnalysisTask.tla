----------------------------- MODULE AnalysisTask -----------------------------
(***************************************************************************)
(* The life of an analysis task in the backend: POST /submit               *)
(* (report_provider.py submit_analysis) stores a row, calls the remote     *)
(* workflow, and leaves the rest to a background task of the event loop    *)
(* (_follow_until_close); GET and hide requests come at any time.          *)
(*                                                                         *)
(* The server is one process with one event loop, and the database calls   *)
(* block: a handler is interrupted only where it awaits the workflow or    *)
(* sleeps.  An action is what a handler does between two such places.  A   *)
(* fault is a database call that raises, before the row was changed or     *)
(* after; a crash ends the process; a restarted server resumes nothing.    *)
(***************************************************************************)
EXTENDS Naturals

CONSTANTS
    Task,          \* the task ids
    Attempts,      \* PDF_LINK_RETRY_ATTEMPTS
    Candidates,    \* how many forms of the input are tried: 1 for text, 4 for a file
    MaxCrashes,    \* bound on crashes
    MaxFaults      \* bound on failing updates

ASSUME TaskAssumption ==
    /\ Attempts \in Nat \ {0}
    /\ Candidates \in Nat \ {0}
    /\ MaxCrashes \in Nat
    /\ MaxFaults \in Nat

Part == {"url", "body"}    \* what a reply of the workflow may hold

VARIABLES
    status,        \* the row's columns: status, or "absent" when there is no row
    url,           \* report_url is set
    result,        \* what analysis_result_json holds; {} when it is NULL
    finished,      \* finished_at is set
    hidden,        \* is_hidden
    recorded,      \* remote_session_id and remote_message_id are set
    submitting,    \* the tasks whose /submit awaits the first call
    follow,        \* the background task: "none", "invoking" or "sleeping"
    attempt,       \* its loop counter
    candidate,     \* the form of the input it is trying
    seen,          \* history: the parts replies have held so far
    crashes, faults

row == <<status, url, result, finished, hidden, recorded>>
loop == <<follow, attempt, candidate>>
budget == <<crashes, faults>>
vars == <<row, submitting, loop, seen, budget>>

Terminal == {"completed", "failed"}

TypeOK ==
    /\ status \in [Task -> {"absent", "pending"} \cup Terminal]
    /\ url \in [Task -> BOOLEAN]
    /\ result \in [Task -> SUBSET Part]
    /\ finished \in [Task -> BOOLEAN]
    /\ hidden \in [Task -> BOOLEAN]
    /\ recorded \in [Task -> BOOLEAN]
    /\ submitting \in SUBSET Task
    /\ follow \in [Task -> {"none", "invoking", "sleeping"}]
    /\ attempt \in [Task -> 1 .. Attempts]
    /\ candidate \in [Task -> 1 .. Candidates]
    /\ seen \in [Task -> SUBSET Part]
    /\ crashes \in 0 .. MaxCrashes
    /\ faults \in 0 .. MaxFaults

Init ==
    /\ status = [t \in Task |-> "absent"]
    /\ url = [t \in Task |-> FALSE]
    /\ result = [t \in Task |-> {}]
    /\ finished = [t \in Task |-> FALSE]
    /\ hidden = [t \in Task |-> FALSE]
    /\ recorded = [t \in Task |-> FALSE]
    /\ submitting = {}
    /\ follow = [t \in Task |-> "none"]
    /\ attempt = [t \in Task |-> 1]
    /\ candidate = [t \in Task |-> 1]
    /\ seen = [t \in Task |-> {}]
    /\ crashes = 0 /\ faults = 0

-----------------------------------------------------------------------------
(* AnalysisTaskService.update_status, as its three callers use it.         *)

Fault == faults < MaxFaults /\ faults' = faults + 1
NoFault == UNCHANGED faults

\* create and update_status commit, and then read the row back: an exception
\* leaves the row as it was, or as the call has made it.
Written(change) ==
    \/ change /\ NoFault
    \/ Fault /\ (change \/ UNCHANGED row)

\* status "pending" with the session of the workflow: finished_at is cleared.
StorePending(t) ==
    /\ status' = [status EXCEPT ![t] = "pending"]
    /\ finished' = [finished EXCEPT ![t] = FALSE]
    /\ recorded' = [recorded EXCEPT ![t] = TRUE]
    /\ UNCHANGED <<url, result, hidden>>

StoreCompleted(t, parts) ==
    /\ status' = [status EXCEPT ![t] = "completed"]
    /\ url' = [url EXCEPT ![t] = "url" \in parts]
    /\ result' = [result EXCEPT ![t] = parts]
    /\ finished' = [finished EXCEPT ![t] = TRUE]
    /\ UNCHANGED <<hidden, recorded>>

\* report_url is cleared, analysis_result_json is not touched.
StoreFailed(t) ==
    /\ status' = [status EXCEPT ![t] = "failed"]
    /\ url' = [url EXCEPT ![t] = FALSE]
    /\ finished' = [finished EXCEPT ![t] = TRUE]
    /\ UNCHANGED <<result, hidden, recorded>>

\* A row that was marked failed after its result had been stored.
StoreBoth(t, parts) ==
    /\ status' = [status EXCEPT ![t] = "failed"]
    /\ url' = [url EXCEPT ![t] = FALSE]
    /\ result' = [result EXCEPT ![t] = parts]
    /\ finished' = [finished EXCEPT ![t] = TRUE]
    /\ UNCHANGED <<hidden, recorded>>

\* The except branch of a handler: the update that marks the task failed may
\* raise itself, and then nobody marks it.
GiveUp(t) == Written(StoreFailed(t))

\* Mutant: a reply without link and body completes the task.
ConcludeAlways(t, parts) ==
    \/ Written(StoreCompleted(t, parts))
    \/ Fault /\ (StoreFailed(t) \/ StoreBoth(t, parts))

\* The end of _follow_until_close.  When the first update raises, the except
\* branch marks the task failed, whether the result was committed or not,
\* unless that raises too: both use the same session.
Conclude(t, parts) ==
    IF parts = {}
    THEN GiveUp(t)
    ELSE \/ Written(StoreCompleted(t, parts))
         \/ Fault /\ (StoreFailed(t) \/ StoreBoth(t, parts))

-----------------------------------------------------------------------------
(* submit_analysis: the row, then the first call of the workflow.          *)

\* A row that cannot be read back ends the request, and nobody works on it.
Submit(t) ==
    /\ status[t] = "absent"
    /\ status' = [status EXCEPT ![t] = "pending"]
    /\ \/ submitting' = submitting \cup {t} /\ NoFault
       \/ Fault /\ UNCHANGED submitting
    /\ UNCHANGED <<url, result, finished, hidden, recorded, loop, seen, crashes>>

\* The workflow asks for its input: the background task is created, and the
\* row updated before the event loop can run it.
FirstReply(t) ==
    /\ t \in submitting
    /\ submitting' = submitting \ {t}
    /\ follow' = [follow EXCEPT ![t] = "invoking"]
    /\ Written(StorePending(t))
    /\ UNCHANGED <<attempt, candidate, seen, crashes>>

\* It fails, times out, or does not ask for an input.
FirstCallFails(t) ==
    /\ t \in submitting
    /\ submitting' = submitting \ {t}
    /\ GiveUp(t)
    /\ UNCHANGED <<loop, seen, crashes>>

-----------------------------------------------------------------------------
(* _follow_until_close.                                                    *)

\* Mutant: the loop goes on after the task was concluded.
KeepGoing(t) == UNCHANGED loop

Stop(t) ==
    /\ follow' = [follow EXCEPT ![t] = "none"]
    /\ UNCHANGED <<attempt, candidate>>

LastAttempt(t) == attempt[t] = Attempts

\* Mutant: no break after a link.
OnlyLastEnds(t, parts) == LastAttempt(t)

\* The loop ends with a link, or with its last attempt.
Ends(t, parts) == "url" \in parts \/ LastAttempt(t)

\* A reply without a link is asked for again after a pause, and forgotten;
\* a link, or the last attempt, ends the loop.
Reply(t) ==
    /\ follow[t] = "invoking"
    /\ \E parts \in SUBSET Part :
        /\ seen' = [seen EXCEPT ![t] = @ \cup parts]
        /\ \/ /\ Ends(t, parts)
              /\ Conclude(t, parts)
              /\ Stop(t)
           \/ /\ ~Ends(t, parts)
              /\ follow' = [follow EXCEPT ![t] = "sleeping"]
              /\ attempt' = [attempt EXCEPT ![t] = @ + 1]
              /\ UNCHANGED <<row, candidate, faults>>
    /\ UNCHANGED <<submitting, crashes>>

\* The workflow refuses this form of the input, or times out: the next form.
CandidateFails(t) ==
    /\ follow[t] = "invoking"
    /\ candidate[t] < Candidates
    /\ candidate' = [candidate EXCEPT ![t] = @ + 1]
    /\ UNCHANGED <<row, submitting, follow, attempt, seen, budget>>

\* Mutant: the exception ends the background task, and nobody marks the row.
FollowDies(t) ==
    /\ follow[t] = "invoking"
    /\ Stop(t)
    /\ UNCHANGED <<row, submitting, seen, budget>>

\* All forms failed, or the reply cannot be parsed: no further attempt.
FollowFails(t) ==
    /\ follow[t] = "invoking"
    /\ GiveUp(t)
    /\ Stop(t)
    /\ UNCHANGED <<submitting, seen, crashes>>

WakeUp(t) ==
    /\ follow[t] = "sleeping"
    /\ follow' = [follow EXCEPT ![t] = "invoking"]
    /\ candidate' = [candidate EXCEPT ![t] = 1]
    /\ UNCHANGED <<row, submitting, attempt, seen, budget>>

-----------------------------------------------------------------------------
(* Requests of the client, and the end of the process.                     *)

\* GET detail, list or report: a stored result is normalised and, if that
\* changes it, written back, with the link it holds.
Read(t) ==
    /\ result[t] # {}
    /\ url' = [url EXCEPT ![t] = @ \/ "url" \in result[t]]
    /\ UNCHANGED <<status, result, finished, hidden, recorded, submitting, loop,
                   seen, budget>>

\* Mutant: the batch becomes the set of hidden tasks.
HideExactly(T) ==
    /\ hidden' = [t \in Task |-> t \in T /\ status[t] # "absent"]
    /\ UNCHANGED <<status, url, result, finished, recorded, submitting, loop, seen,
                   budget>>

\* hide is hide_many of one task.
Hide(T) ==
    /\ hidden' = [t \in Task |-> hidden[t] \/ (t \in T /\ status[t] # "absent")]
    /\ UNCHANGED <<status, url, result, finished, recorded, submitting, loop, seen,
                   budget>>

Crash ==
    /\ crashes < MaxCrashes
    /\ crashes' = crashes + 1
    /\ submitting' = {}
    /\ follow' = [t \in Task |-> "none"]
    /\ attempt' = [t \in Task |-> 1]
    /\ candidate' = [t \in Task |-> 1]
    /\ UNCHANGED <<row, seen, faults>>

First(t) == FirstReply(t) \/ FirstCallFails(t)
Follow(t) == Reply(t) \/ CandidateFails(t) \/ FollowFails(t) \/ WakeUp(t)

Next ==
    \/ \E t \in Task : Submit(t)
    \/ \E t \in Task : First(t)
    \/ \E t \in Task : Follow(t)
    \/ \E t \in Task : Read(t)
    \/ \E T \in SUBSET Task : Hide(T)
    \/ Crash

Spec == Init /\ [][Next]_vars

\* Every call of the workflow ends, by its reply or by report_api_timeout, and
\* the event loop runs what is ready.  Nobody has to submit, read or hide.
FairSpec == Spec /\ \A t \in Task : WF_vars(First(t)) /\ WF_vars(Follow(t))
-----------------------------------------------------------------------------
(* Properties.                                                             *)

\* The columns agree, whatever order the updates, the write-backs of GET and
\* the failures come in: finished_at is set exactly on ended tasks, a completed
\* task has a result, no other task has one, and the link column holds what the
\* stored result holds (so that a GET never changes an answer).  Only an update
\* that failed after its commit (analysis_task_service.py:350) leaves a failed
\* task with a result, whose link is cleared until a GET finds it again.
Contradicts(t) == status[t] = "failed" /\ result[t] # {}

RowConsistent ==
    \A t \in Task :
        /\ finished[t] <=> status[t] \in Terminal
        /\ status[t] = "completed" => result[t] # {}
        /\ result[t] # {} => status[t] \in Terminal
        /\ url[t] => "url" \in result[t]
        /\ "url" \in result[t] => url[t] \/ Contradicts(t)
        /\ Contradicts(t) => faults > 0

\* Nobody works on a task that has ended, and a task is never worked on twice:
\* the background task starts only when the submit request is through.
WorkerMeansPending ==
    \A t \in Task :
        /\ t \in submitting \/ follow[t] # "none" => status[t] = "pending"
        /\ t \in submitting => follow[t] = "none"

\* Without a crash or a failing update no pending task is left alone.
PendingHasWorker ==
    crashes = 0 /\ faults = 0 =>
        \A t \in Task : status[t] = "pending" => t \in submitting \/ follow[t] # "none"

\* Tasks and workers match, in both directions.
WorkersMatch == TypeOK /\ WorkerMeansPending /\ PendingHasWorker

\* A link that ever arrived is the link of the task: no later attempt replaces
\* it (unless storing it failed).
LinkKept ==
    faults = 0 => \A t \in Task : "url" \in seen[t] => status[t] = "completed" /\ url[t]

\* What the README says of a submitted task, that it goes on to completed or
\* failed, holds unless the server was restarted or an update failed: whatever
\* the workflow answers, and however often it fails, the loop ends and the row
\* says so.
EndsUnlessBroken ==
    \A t \in Task :
        status[t] = "pending" ~> status[t] \in Terminal \/ crashes > 0 \/ faults > 0

\* The client's view: what analysis_result_json holds is what it reads.
Lifecycle == INSTANCE TaskLifecycle WITH report <- result

\* The rows implement the life cycle, through crashes and faults: a task ends at
\* most once, and its outcome, its report and its hiding are kept, also of a task
\* whose outcome and report contradict each other.
ImplementsLifecycle == Lifecycle!Spec
=============================================================================
