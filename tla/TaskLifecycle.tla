---------------------------- MODULE TaskLifecycle ----------------------------
(***************************************************************************)
(* What a client may rely on of an analysis task: it is submitted once,    *)
(* ends at most once, keeps its outcome and its report from then on, and   *)
(* stays hidden once hidden.  AnalysisTask implements this specification.  *)
(***************************************************************************)
CONSTANT Task

VARIABLES
    status,    \* what the client reads as the task's status
    report,    \* the parts of the report it can read: a URL, a body
    hidden     \* removed from the result list

vars == <<status, report, hidden>>

Part == {"url", "body"}

Init ==
    /\ status = [t \in Task |-> "absent"]
    /\ report = [t \in Task |-> {}]
    /\ hidden = [t \in Task |-> FALSE]

Submit(t) ==
    /\ status[t] = "absent"
    /\ status' = [status EXCEPT ![t] = "pending"]
    /\ UNCHANGED <<report, hidden>>

\* A completed task has something to show, and a failed one may have it too.
Finish(t) ==
    /\ status[t] = "pending"
    /\ \E end \in {"completed", "failed"}, parts \in SUBSET Part :
        /\ end = "completed" => parts # {}
        /\ status' = [status EXCEPT ![t] = end]
        /\ report' = [report EXCEPT ![t] = parts]
    /\ UNCHANGED hidden

Hide(T) ==
    /\ hidden' = [t \in Task |-> hidden[t] \/ (t \in T /\ status[t] # "absent")]
    /\ UNCHANGED <<status, report>>

Next ==
    \/ \E t \in Task : Submit(t)
    \/ \E t \in Task : Finish(t)
    \/ \E T \in SUBSET Task : Hide(T)

Spec == Init /\ [][Next]_vars
=============================================================================
