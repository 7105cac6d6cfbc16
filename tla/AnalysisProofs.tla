---------------------------- MODULE AnalysisProofs ----------------------------
(***************************************************************************)
(* Proofs about an analysis at the server (AnalysisTask) and in the client *)
(* (AnalysisSubmit), for any tasks, attempts, forms of the input, crashes  *)
(* and faults, and any number of clicks, polls and lost answers.  At the   *)
(* server the columns of a row agree, only pending tasks are worked on, a  *)
(* link is kept, and the rows implement TaskLifecycle; in the client       *)
(* attempts do not meddle with each other, and the progress dialog is      *)
(* stuck only after a task has failed.                                     *)
(***************************************************************************)
EXTENDS AnalysisTask, AnalysisSubmit, TLAPS

\* The inductive invariant.  RowConsistent needs WorkerMeansPending: an update
\* of a task that had ended would leave a result beside the status "failed".
IInv == TypeOK /\ RowConsistent /\ WorkerMeansPending /\ PendingHasWorker /\ LinkKept

-----------------------------------------------------------------------------
(* What an ending leaves of the row of t; every other row stays.           *)

\* The row of t reads "completed" with these parts.
CompletedWith(t, parts) ==
    /\ status'[t] = "completed" /\ finished'[t] /\ result'[t] = parts
    /\ url'[t] <=> "url" \in parts

\* The row of t reads "failed".
Failed(t) == status'[t] = "failed" /\ finished'[t] /\ ~url'[t] /\ result'[t] = result[t]

\* The row of t reads "failed", with these parts beside.
BothWith(t, parts) ==
    status'[t] = "failed" /\ finished'[t] /\ ~url'[t] /\ result'[t] = parts

\* The row of t is as it was.
RowKept(t) ==
    /\ status'[t] = status[t] /\ url'[t] = url[t] /\ result'[t] = result[t]
    /\ finished'[t] = finished[t]

\* A pending row has no result and no link.
LEMMA PendingRow ==
    ASSUME RowConsistent, NEW t \in Task, status[t] = "pending"
    PROVE  ~finished[t] /\ result[t] = {} /\ ~url[t]
    BY DEF RowConsistent, Terminal

\* The rows of the other tasks, and every hidden flag, stay.
OtherRowsKept(t) ==
    /\ \A u \in Task \ {t} :
        /\ status'[u] = status[u] /\ url'[u] = url[u] /\ result'[u] = result[u]
        /\ finished'[u] = finished[u]
    /\ hidden' = hidden

RowTyped ==
    /\ status \in [Task -> {"absent", "pending"} \cup Terminal]
    /\ url \in [Task -> BOOLEAN]
    /\ result \in [Task -> SUBSET Part]
    /\ finished \in [Task -> BOOLEAN]
    /\ hidden \in [Task -> BOOLEAN]
    /\ recorded \in [Task -> BOOLEAN]

LEMMA TypedRow == TypeOK => RowTyped
    BY DEF TypeOK, RowTyped

LEMMA StoreFailedEffect ==
    ASSUME RowTyped, NEW t \in Task, StoreFailed(t)
    PROVE  Failed(t) /\ OtherRowsKept(t) /\ RowTyped'
<1>1. RowTyped'
    BY DEF StoreFailed, RowTyped, Terminal
<1>2. Failed(t)
    BY DEF StoreFailed, RowTyped, Failed
<1>3. OtherRowsKept(t)
    BY DEF StoreFailed, RowTyped, OtherRowsKept
<1> QED
    BY <1>1, <1>2, <1>3

LEMMA StoreCompletedEffect ==
    ASSUME RowTyped, NEW t \in Task, NEW parts \in SUBSET Part, StoreCompleted(t, parts)
    PROVE  CompletedWith(t, parts) /\ OtherRowsKept(t) /\ RowTyped'
<1>1. RowTyped'
    BY DEF StoreCompleted, RowTyped, Terminal
<1>2. CompletedWith(t, parts)
    <2>1. /\ status'[t] = "completed" /\ finished'[t] /\ result'[t] = parts
        BY DEF StoreCompleted, RowTyped
    <2>2. url' = [url EXCEPT ![t] = "url" \in parts]
        BY DEF StoreCompleted
    <2>3. url'[t] = ("url" \in parts)
        BY <2>2, Zenon DEF RowTyped
    <2> QED
        BY <2>1, <2>3 DEF CompletedWith
<1>3. OtherRowsKept(t)
    BY DEF StoreCompleted, RowTyped, OtherRowsKept
<1> QED
    BY <1>1, <1>2, <1>3

LEMMA StoreBothEffect ==
    ASSUME RowTyped, NEW t \in Task, NEW parts \in SUBSET Part, StoreBoth(t, parts)
    PROVE  BothWith(t, parts) /\ OtherRowsKept(t) /\ RowTyped'
<1>1. RowTyped'
    BY DEF StoreBoth, RowTyped, Terminal
<1>2. BothWith(t, parts)
    BY DEF StoreBoth, RowTyped, BothWith
<1>3. OtherRowsKept(t)
    BY DEF StoreBoth, RowTyped, OtherRowsKept
<1> QED
    BY <1>1, <1>2, <1>3

LEMMA UnchangedRow ==
    ASSUME RowTyped, NEW t \in Task, UNCHANGED row
    PROVE  RowKept(t) /\ OtherRowsKept(t) /\ RowTyped'
    BY DEF row, RowTyped, RowKept, OtherRowsKept

LEMMA FaultCounts ==
    ASSUME faults \in 0 .. MaxFaults, NoFault \/ Fault
    PROVE  faults' \in 0 .. MaxFaults /\ (Fault => faults' = faults + 1 /\ faults' # 0)
    BY TaskAssumption DEF NoFault, Fault

LEMMA GiveUpEffect ==
    ASSUME TypeOK, NEW t \in Task, GiveUp(t)
    PROVE  /\ \/ Failed(t) /\ NoFault
              \/ Failed(t) /\ Fault
              \/ RowKept(t) /\ Fault
           /\ OtherRowsKept(t) /\ RowTyped'
<1>1. RowTyped
    BY TypedRow
<1>2. \/ StoreFailed(t) /\ NoFault
      \/ StoreFailed(t) /\ Fault
      \/ Fault /\ UNCHANGED row
    BY DEF GiveUp, Written
<1>3. CASE StoreFailed(t)
    BY <1>1, <1>2, <1>3, StoreFailedEffect
<1>4. CASE Fault /\ UNCHANGED row
    BY <1>1, <1>4, UnchangedRow
<1> QED
    BY <1>2, <1>3, <1>4

LEMMA ConcludeEffect ==
    ASSUME TypeOK, NEW t \in Task, NEW parts \in SUBSET Part, Conclude(t, parts)
    PROVE  /\ \/ CompletedWith(t, parts) /\ parts # {} /\ (NoFault \/ Fault)
              \/ Failed(t) /\ parts = {} /\ NoFault
              \/ Failed(t) /\ Fault
              \/ BothWith(t, parts) /\ parts # {} /\ Fault
              \/ RowKept(t) /\ Fault
           /\ OtherRowsKept(t) /\ RowTyped'
<1>1. RowTyped
    BY TypedRow
<1>2. CASE parts = {}
    BY <1>2, GiveUpEffect DEF Conclude
<1>3. CASE parts # {}
    <2>1. \/ StoreCompleted(t, parts) /\ (NoFault \/ Fault)
          \/ Fault /\ UNCHANGED row
          \/ Fault /\ StoreFailed(t)
          \/ Fault /\ StoreBoth(t, parts)
        BY <1>3 DEF Conclude, Written
    <2> QED
        BY <1>1, <1>3, <2>1, StoreFailedEffect, StoreCompletedEffect, StoreBothEffect,
           UnchangedRow
<1> QED
    BY <1>2, <1>3

-----------------------------------------------------------------------------
(* The ways a step may change one task.                                    *)

\* The other tasks' workers, replies and rows stay.
OthersKept(t) ==
    /\ OtherRowsKept(t)
    /\ \A u \in Task \ {t} :
        /\ u \in submitting' <=> u \in submitting
        /\ follow'[u] = follow[u] /\ seen'[u] = seen[u]

Working(t) == t \in submitting \/ follow[t] # "none"

\* The invariants of one task.
RowOK(t) ==
    /\ finished[t] <=> status[t] \in Terminal
    /\ status[t] = "completed" => result[t] # {}
    /\ result[t] # {} => status[t] \in Terminal
    /\ url[t] => "url" \in result[t]
    /\ "url" \in result[t] => url[t] \/ Contradicts(t)
    /\ Contradicts(t) => faults > 0

WorkerOK(t) ==
    /\ Working(t) => status[t] = "pending"
    /\ t \in submitting => follow[t] = "none"

AttendedOK(t) == crashes = 0 /\ faults = 0 /\ status[t] = "pending" => Working(t)

LinkOK(t) == faults = 0 /\ "url" \in seen[t] => status[t] = "completed" /\ url[t]

TaskOK(t) == RowOK(t) /\ WorkerOK(t) /\ AttendedOK(t) /\ LinkOK(t)

LEMMA ByTask ==
    /\ RowConsistent /\ WorkerMeansPending /\ PendingHasWorker /\ LinkKept
        <=> \A t \in Task : TaskOK(t)
    /\ (RowConsistent /\ WorkerMeansPending /\ PendingHasWorker /\ LinkKept)'
        <=> \A t \in Task : TaskOK(t)'
<1> USE DEF RowConsistent, WorkerMeansPending, PendingHasWorker, LinkKept,
            TaskOK, RowOK, WorkerOK, AttendedOK, LinkOK, Working, Contradicts
<1>1. RowConsistent /\ WorkerMeansPending /\ PendingHasWorker /\ LinkKept
        <=> \A t \in Task : TaskOK(t)
    OBVIOUS
<1>2. (RowConsistent /\ WorkerMeansPending /\ PendingHasWorker /\ LinkKept)'
        <=> \A t \in Task : TaskOK(t)'
    OBVIOUS
<1> QED
    BY <1>1, <1>2

\* A task that a step leaves alone keeps its invariants: a fault or a crash
\* only weakens them.
LEMMA OtherTaskOK ==
    ASSUME TypeOK, NEW t \in Task, OthersKept(t), NEW u \in Task \ {t}, TaskOK(u),
           faults' \in Nat, faults' = 0 => faults = 0, crashes' = crashes
    PROVE  TaskOK(u)'
<1> USE DEF OthersKept, OtherRowsKept
<1>1. faults > 0 => faults' > 0
    BY TaskAssumption DEF TypeOK
<1>2. RowOK(u)'
    BY <1>1 DEF TaskOK, RowOK, Contradicts
<1>3. WorkerOK(u)' /\ AttendedOK(u)' /\ LinkOK(u)'
    BY DEF TaskOK, WorkerOK, AttendedOK, LinkOK, Working
<1> QED
    BY <1>2, <1>3 DEF TaskOK

\* The worker of a task leaves it: the row was ended, or an update failed.
LEMMA WorkerEnds ==
    ASSUME TypeOK, NEW t \in Task, TaskOK(t), Working(t),
           ~Working(t)', crashes' = crashes, faults' \in Nat,
           faults' = 0 => faults = 0,
           \/ Failed(t) /\ ("url" \notin seen'[t] \/ faults' # 0)
           \/ RowKept(t) /\ faults' # 0
           \/ \E parts \in SUBSET Part :
                /\ CompletedWith(t, parts) /\ parts # {}
                /\ seen'[t] = seen[t] \cup parts
           \/ \E parts \in SUBSET Part :
                BothWith(t, parts) /\ parts # {} /\ faults' # 0
    PROVE  TaskOK(t)'
<1>1. status[t] = "pending" /\ ~finished[t] /\ result[t] = {} /\ ~url[t]
    BY DEF TaskOK, WorkerOK, RowOK, Terminal
<1>2. faults = 0 => "url" \notin seen[t]
    BY <1>1 DEF TaskOK, LinkOK
<1>3. CASE Failed(t) /\ ("url" \notin seen'[t] \/ faults' # 0)
    <2>1. RowOK(t)'
        BY <1>1, <1>3 DEF Failed, RowOK, Terminal, Contradicts
    <2>2. WorkerOK(t)' /\ AttendedOK(t)'
        BY <1>3 DEF Failed, WorkerOK, AttendedOK, Working
    <2>3. LinkOK(t)'
        BY <1>3 DEF LinkOK
    <2> QED
        BY <2>1, <2>2, <2>3 DEF TaskOK
<1>4. CASE RowKept(t) /\ faults' # 0
    <2>1. RowOK(t)'
        BY <1>1, <1>4 DEF RowKept, RowOK, Terminal, Contradicts
    <2>2. WorkerOK(t)' /\ AttendedOK(t)' /\ LinkOK(t)'
        BY <1>4 DEF WorkerOK, AttendedOK, LinkOK, Working
    <2> QED
        BY <2>1, <2>2 DEF TaskOK
<1>5. ASSUME NEW parts \in SUBSET Part, CompletedWith(t, parts), parts # {},
             seen'[t] = seen[t] \cup parts
      PROVE  TaskOK(t)'
    <2>1. RowOK(t)'
        BY <1>5 DEF CompletedWith, RowOK, Terminal, Contradicts
    <2>2. WorkerOK(t)' /\ AttendedOK(t)'
        BY <1>5 DEF CompletedWith, WorkerOK, AttendedOK, Working
    <2>3. LinkOK(t)'
        BY <1>2, <1>5 DEF CompletedWith, LinkOK
    <2> QED
        BY <2>1, <2>2, <2>3 DEF TaskOK
<1>6. ASSUME NEW parts \in SUBSET Part, BothWith(t, parts), parts # {}, faults' # 0
      PROVE  TaskOK(t)'
    <2>1. faults' > 0
        BY <1>6
    <2>2. RowOK(t)'
        BY <1>6, <2>1 DEF BothWith, RowOK, Terminal, Contradicts
    <2>3. WorkerOK(t)' /\ AttendedOK(t)' /\ LinkOK(t)'
        BY <1>6 DEF BothWith, WorkerOK, AttendedOK, LinkOK, Working
    <2> QED
        BY <2>2, <2>3 DEF TaskOK
<1> QED
    BY <1>3, <1>4, <1>5, <1>6

-----------------------------------------------------------------------------
(* The steps.                                                              *)

\* What TypeOK says beyond the row and the budget.
LoopTyped ==
    /\ submitting \in SUBSET Task
    /\ follow \in [Task -> {"none", "invoking", "sleeping"}]
    /\ attempt \in [Task -> 1 .. Attempts]
    /\ candidate \in [Task -> 1 .. Candidates]
    /\ seen \in [Task -> SUBSET Part]

BudgetTyped == crashes \in 0 .. MaxCrashes /\ faults \in 0 .. MaxFaults

LEMMA TypeParts ==
    /\ TypeOK <=> RowTyped /\ LoopTyped /\ BudgetTyped
    /\ TypeOK' <=> RowTyped' /\ LoopTyped' /\ BudgetTyped'
    BY DEF TypeOK, RowTyped, LoopTyped, BudgetTyped

\* A step of one task preserves the invariant of all.
LEMMA OneTaskStep ==
    ASSUME IInv, NEW t \in Task, OthersKept(t), TaskOK(t)', crashes' = crashes,
           faults' = 0 => faults = 0, RowTyped', LoopTyped', BudgetTyped'
    PROVE  IInv'
<1>1. \A u \in Task : TaskOK(u)
    BY ByTask DEF IInv
<1>4. faults' \in Nat
    BY TaskAssumption DEF BudgetTyped
<1>2. ASSUME NEW u \in Task PROVE TaskOK(u)'
    <2>1. CASE u = t
        BY <2>1
    <2>2. CASE u # t
        BY <1>1, <1>4, <2>2, OtherTaskOK DEF IInv
    <2> QED
        BY <2>1, <2>2
<1>3. TypeOK'
    BY TypeParts
<1> QED
    BY <1>2, <1>3, ByTask DEF IInv

LEMMA SubmitKeeps ==
    ASSUME IInv, NEW t \in Task, Submit(t)
    PROVE  IInv'
<1>1. TypeOK /\ TaskOK(t) /\ RowTyped /\ LoopTyped /\ BudgetTyped
    BY ByTask, TypeParts DEF IInv
<1>2. RowTyped' /\ LoopTyped'
    BY <1>1 DEF Submit, loop, RowTyped, LoopTyped, Terminal
<1>3. BudgetTyped' /\ (faults' = 0 => faults = 0) /\ (Fault => faults' # 0)
    BY <1>1, FaultCounts DEF Submit, BudgetTyped, NoFault
<1>4. OthersKept(t)
    BY <1>1 DEF Submit, loop, OthersKept, OtherRowsKept, RowTyped, LoopTyped
<1>5. status'[t] = "pending" /\ status[t] = "absent" /\ (Fault \/ Working(t)')
    BY <1>1 DEF RowTyped, Submit, Working
<1>6. RowOK(t)'
    BY <1>1, <1>5 DEF TaskOK, RowOK, Submit, Terminal, Contradicts
<1>7. follow'[t] = "none" /\ seen' = seen
    BY <1>1, <1>5 DEF TaskOK, WorkerOK, Working, Submit, loop
<1>8. LinkOK(t)'
    BY <1>1, <1>3, <1>5, <1>7 DEF TaskOK, LinkOK
<1>9. WorkerOK(t)' /\ AttendedOK(t)'
    BY <1>3, <1>5, <1>7 DEF WorkerOK, AttendedOK, Working
<1>10. TaskOK(t)'
    BY <1>6, <1>8, <1>9 DEF TaskOK
<1> QED
    BY <1>2, <1>3, <1>4, <1>10, OneTaskStep DEF Submit

\* The row stays pending and its worker at work, with nothing new from the
\* workflow but a body.
LEMMA WorkGoesOn ==
    ASSUME TypeOK, NEW t \in Task, TaskOK(t), Working(t), Working(t)',
           t \notin submitting', status'[t] = "pending", ~finished'[t],
           result'[t] = {}, ~url'[t], "url" \in seen'[t] => "url" \in seen[t],
           faults' = 0 => faults = 0
    PROVE  TaskOK(t)'
<1>1. status[t] = "pending"
    BY DEF TaskOK, WorkerOK
<1>2. RowOK(t)'
    BY DEF RowOK, Terminal, Contradicts
<1>3. WorkerOK(t)' /\ AttendedOK(t)'
    BY DEF WorkerOK, AttendedOK, Working
<1>4. LinkOK(t)'
    BY <1>1 DEF TaskOK, LinkOK
<1> QED
    BY <1>2, <1>3, <1>4 DEF TaskOK

LEMMA FirstReplyKeeps ==
    ASSUME IInv, NEW t \in Task, FirstReply(t)
    PROVE  IInv'
<1>1. TypeOK /\ TaskOK(t) /\ Working(t) /\ RowTyped /\ LoopTyped /\ BudgetTyped
    BY ByTask, TypeParts DEF IInv, FirstReply, Working
<1>2. status[t] = "pending" /\ ~finished[t] /\ result[t] = {} /\ ~url[t]
    BY <1>1 DEF TaskOK, WorkerOK, RowOK, Terminal
<1>3. /\ status'[t] = "pending" /\ ~finished'[t] /\ result'[t] = {} /\ ~url'[t]
      /\ OtherRowsKept(t) /\ RowTyped'
    <2>1. CASE StorePending(t)
        <3>1. status'[t] = "pending" /\ ~finished'[t] /\ result'[t] = {} /\ ~url'[t]
            BY <1>1, <1>2, <2>1 DEF StorePending, RowTyped
        <3>2. OtherRowsKept(t)
            BY <1>1, <2>1 DEF StorePending, RowTyped, OtherRowsKept
        <3>3. RowTyped'
            BY <1>1, <2>1 DEF StorePending, RowTyped
        <3> QED
            BY <3>1, <3>2, <3>3
    <2>2. CASE UNCHANGED row
        BY <1>1, <1>2, <2>2, UnchangedRow DEF RowKept
    <2> QED
        BY <2>1, <2>2 DEF FirstReply, Written
<1>4. LoopTyped'
    BY <1>1 DEF FirstReply, LoopTyped
<1>5. OthersKept(t)
    BY <1>1, <1>3 DEF FirstReply, OthersKept, LoopTyped
<1>6. BudgetTyped' /\ (faults' = 0 => faults = 0)
    BY <1>1, FaultCounts DEF FirstReply, Written, BudgetTyped, NoFault
<1>7. Working(t)' /\ t \notin submitting' /\ seen' = seen
    BY <1>1 DEF FirstReply, Working, LoopTyped
<1>8. TaskOK(t)'
    BY <1>1, <1>3, <1>6, <1>7, WorkGoesOn
<1> QED
    BY <1>3, <1>4, <1>5, <1>6, <1>8, OneTaskStep DEF FirstReply

LEMMA FirstCallFailsKeeps ==
    ASSUME IInv, NEW t \in Task, FirstCallFails(t)
    PROVE  IInv'
<1>1. TypeOK /\ TaskOK(t) /\ Working(t) /\ RowTyped /\ LoopTyped /\ BudgetTyped
    BY ByTask, TypeParts DEF IInv, FirstCallFails, Working
<1>2. /\ \/ Failed(t) /\ NoFault
         \/ Failed(t) /\ Fault
         \/ RowKept(t) /\ Fault
      /\ OtherRowsKept(t) /\ RowTyped'
    BY <1>1, GiveUpEffect DEF FirstCallFails
<1>3. LoopTyped' /\ OthersKept(t)
    BY <1>1, <1>2 DEF FirstCallFails, LoopTyped, loop, OthersKept
<1>4. BudgetTyped' /\ (faults' = 0 => faults = 0) /\ (Fault => faults' # 0)
    BY <1>1, <1>2, FaultCounts DEF FirstCallFails, BudgetTyped, NoFault
<1>5. follow[t] = "none" /\ status[t] = "pending"
    BY <1>1 DEF TaskOK, WorkerOK, FirstCallFails
<1>6. ~Working(t)' /\ seen' = seen /\ crashes' = crashes
    BY <1>5 DEF FirstCallFails, Working, loop
<1>7. "url" \notin seen'[t] \/ faults' # 0
    BY <1>1, <1>4, <1>5, <1>6 DEF TaskOK, LinkOK
<1>9. faults' \in Nat
    BY <1>4, TaskAssumption DEF BudgetTyped
<1>8. TaskOK(t)'
    BY <1>1, <1>2, <1>4, <1>6, <1>7, <1>9, WorkerEnds
<1> QED
    BY <1>2, <1>3, <1>4, <1>6, <1>8, OneTaskStep

\* What a step of the background task of t starts from.
LEMMA Following ==
    ASSUME IInv, NEW t \in Task, follow[t] # "none"
    PROVE  /\ TypeOK /\ RowTyped /\ LoopTyped /\ BudgetTyped
           /\ TaskOK(t) /\ Working(t) /\ t \notin submitting
           /\ status[t] = "pending" /\ ~finished[t] /\ result[t] = {} /\ ~url[t]
<1>1. TypeOK /\ TaskOK(t) /\ RowTyped /\ LoopTyped /\ BudgetTyped
    BY ByTask, TypeParts DEF IInv
<1>2. Working(t) /\ t \notin submitting /\ status[t] = "pending"
    BY <1>1 DEF TaskOK, WorkerOK, Working
<1>3. ~finished[t] /\ result[t] = {} /\ ~url[t]
    BY <1>1, <1>2 DEF TaskOK, RowOK, Terminal
<1> QED
    BY <1>1, <1>2, <1>3

LEMMA ReplyKeeps ==
    ASSUME IInv, NEW t \in Task, Reply(t)
    PROVE  IInv'
<1>1. /\ TypeOK /\ RowTyped /\ LoopTyped /\ BudgetTyped
      /\ TaskOK(t) /\ Working(t) /\ t \notin submitting
      /\ status[t] = "pending" /\ ~finished[t] /\ result[t] = {} /\ ~url[t]
    BY Following DEF Reply
<1>2. PICK parts \in SUBSET Part :
        /\ seen' = [seen EXCEPT ![t] = @ \cup parts]
        /\ \/ /\ Ends(t, parts)
              /\ Conclude(t, parts)
              /\ Stop(t)
           \/ /\ ~Ends(t, parts)
              /\ follow' = [follow EXCEPT ![t] = "sleeping"]
              /\ attempt' = [attempt EXCEPT ![t] = @ + 1]
              /\ UNCHANGED <<row, candidate, faults>>
    BY DEF Reply
<1>3. /\ submitting' = submitting /\ crashes' = crashes
      /\ seen'[t] = seen[t] \cup parts
      /\ \A u \in Task \ {t} : seen'[u] = seen[u]
      /\ seen' \in [Task -> SUBSET Part]
    BY <1>1, <1>2 DEF Reply, LoopTyped
<1>4. CASE Ends(t, parts) /\ Conclude(t, parts) /\ Stop(t)
    <2>1. /\ \/ CompletedWith(t, parts) /\ parts # {} /\ (NoFault \/ Fault)
             \/ Failed(t) /\ parts = {} /\ NoFault
             \/ Failed(t) /\ Fault
             \/ BothWith(t, parts) /\ parts # {} /\ Fault
             \/ RowKept(t) /\ Fault
          /\ OtherRowsKept(t) /\ RowTyped'
        BY <1>1, <1>4, ConcludeEffect
    <2>2. BudgetTyped' /\ (faults' = 0 => faults = 0) /\ (Fault => faults' # 0)
        BY <1>1, <1>3, <2>1, FaultCounts DEF BudgetTyped, NoFault
    <2>3. LoopTyped' /\ OthersKept(t) /\ ~Working(t)'
        BY <1>1, <1>3, <1>4, <2>1 DEF Stop, LoopTyped, OthersKept, Working
    <2>4. faults' = 0 => "url" \notin seen[t]
        BY <1>1, <2>2 DEF TaskOK, LinkOK
    <2>5. \/ Failed(t) /\ ("url" \notin seen'[t] \/ faults' # 0)
          \/ RowKept(t) /\ faults' # 0
          \/ \E p \in SUBSET Part :
                CompletedWith(t, p) /\ p # {} /\ seen'[t] = seen[t] \cup p
          \/ \E p \in SUBSET Part : BothWith(t, p) /\ p # {} /\ faults' # 0
        BY <1>3, <2>1, <2>2, <2>4 DEF NoFault
    <2>7. faults' \in Nat
        BY <2>2, TaskAssumption DEF BudgetTyped
    <2>6. TaskOK(t)'
        BY <1>1, <1>3, <2>2, <2>3, <2>5, <2>7, WorkerEnds
    <2> QED
        BY <1>3, <2>1, <2>2, <2>3, <2>6, OneTaskStep
<1>5. CASE /\ ~Ends(t, parts)
           /\ follow' = [follow EXCEPT ![t] = "sleeping"]
           /\ attempt' = [attempt EXCEPT ![t] = @ + 1]
           /\ UNCHANGED <<row, candidate, faults>>
    <2>1. RowKept(t) /\ OtherRowsKept(t) /\ RowTyped'
        BY <1>1, <1>5, UnchangedRow
    <2>2. attempt' \in [Task -> 1 .. Attempts]
        BY <1>1, <1>5, TaskAssumption DEF Ends, LastAttempt, LoopTyped
    <2>3. LoopTyped' /\ OthersKept(t) /\ Working(t)'
        BY <1>1, <1>3, <1>5, <2>1, <2>2 DEF LoopTyped, OthersKept, Working
    <2>4. "url" \in seen'[t] => "url" \in seen[t]
        BY <1>3, <1>5 DEF Ends
    <2>5. TaskOK(t)'
        BY <1>1, <1>3, <1>5, <2>1, <2>3, <2>4, WorkGoesOn DEF RowKept
    <2>6. BudgetTyped'
        BY <1>1, <1>3, <1>5 DEF BudgetTyped
    <2> QED
        BY <1>3, <1>5, <2>1, <2>3, <2>5, <2>6, OneTaskStep
<1> QED
    BY <1>2, <1>4, <1>5

LEMMA CandidateFailsKeeps ==
    ASSUME IInv, NEW t \in Task, CandidateFails(t)
    PROVE  IInv'
<1>1. TypeOK /\ \A u \in Task : TaskOK(u)
    BY ByTask DEF IInv
<1>2. TypeOK'
    BY <1>1, TaskAssumption DEF TypeOK, CandidateFails, row, budget
<1>3. \A u \in Task : TaskOK(u)'
    BY <1>1 DEF CandidateFails, row, budget, TaskOK, RowOK, WorkerOK, AttendedOK, LinkOK,
                Working, Contradicts
<1> QED
    BY <1>2, <1>3, ByTask DEF IInv

LEMMA FollowFailsKeeps ==
    ASSUME IInv, NEW t \in Task, FollowFails(t)
    PROVE  IInv'
<1>1. /\ TypeOK /\ RowTyped /\ LoopTyped /\ BudgetTyped
      /\ TaskOK(t) /\ Working(t) /\ t \notin submitting /\ status[t] = "pending"
    BY Following DEF FollowFails
<1>2. /\ \/ Failed(t) /\ NoFault
         \/ Failed(t) /\ Fault
         \/ RowKept(t) /\ Fault
      /\ OtherRowsKept(t) /\ RowTyped'
    BY <1>1, GiveUpEffect DEF FollowFails
<1>3. LoopTyped' /\ OthersKept(t) /\ ~Working(t)'
    BY <1>1, <1>2 DEF FollowFails, Stop, LoopTyped, OthersKept, Working
<1>4. BudgetTyped' /\ (faults' = 0 => faults = 0) /\ (Fault => faults' # 0)
    BY <1>1, <1>2, FaultCounts DEF FollowFails, BudgetTyped, NoFault
<1>5. seen' = seen /\ crashes' = crashes
    BY DEF FollowFails
<1>6. "url" \notin seen'[t] \/ faults' # 0
    BY <1>1, <1>4, <1>5 DEF TaskOK, LinkOK
<1>8. faults' \in Nat
    BY <1>4, TaskAssumption DEF BudgetTyped
<1>7. TaskOK(t)'
    BY <1>1, <1>2, <1>3, <1>4, <1>5, <1>6, <1>8, WorkerEnds
<1> QED
    BY <1>2, <1>3, <1>4, <1>5, <1>7, OneTaskStep

LEMMA WakeUpKeeps ==
    ASSUME IInv, NEW t \in Task, WakeUp(t)
    PROVE  IInv'
<1>1. TypeOK /\ \A u \in Task : TaskOK(u)
    BY ByTask DEF IInv
<1>2. TypeOK'
    BY <1>1, TaskAssumption DEF TypeOK, WakeUp, row, budget
<1>3. \A u \in Task : follow'[u] = "none" <=> follow[u] = "none"
    BY <1>1 DEF TypeOK, WakeUp
<1>4. \A u \in Task : TaskOK(u)'
    BY <1>1, <1>3 DEF WakeUp, row, budget, TaskOK, RowOK, WorkerOK, AttendedOK, LinkOK,
                      Working, Contradicts
<1> QED
    BY <1>2, <1>4, ByTask DEF IInv

\* The write-back of a GET finds the link of a task that reads "failed" beside
\* its result, and changes no other row.
LEMMA ReadKeeps ==
    ASSUME IInv, NEW t \in Task, Read(t)
    PROVE  IInv'
<1>1. TypeOK /\ RowTyped /\ LoopTyped /\ BudgetTyped /\ TaskOK(t)
    BY ByTask, TypeParts DEF IInv
<1>2. /\ url' \in [Task -> BOOLEAN]
      /\ \A u \in Task \ {t} : url'[u] = url[u]
    BY <1>1 DEF Read, RowTyped
<1>3. url'[t] = (url[t] \/ "url" \in result[t])
    <2>1. url' = [url EXCEPT ![t] = url[t] \/ "url" \in result[t]]
        BY DEF Read
    <2> QED
        BY <1>1, <2>1, Zenon DEF RowTyped
<1>4. /\ UNCHANGED <<status, result, finished, hidden, recorded, loop, submitting, seen>>
      /\ UNCHANGED <<faults, crashes>>
    BY DEF Read, budget
<1>5. RowTyped' /\ LoopTyped' /\ BudgetTyped'
    BY <1>1, <1>2, <1>4 DEF RowTyped, LoopTyped, BudgetTyped, loop
<1>6. OthersKept(t)
    BY <1>2, <1>4 DEF OthersKept, OtherRowsKept, loop
<1>7. RowOK(t)'
    <2>1. url'[t] => url[t] \/ "url" \in result[t]
        BY <1>3
    <2>2. "url" \in result[t] => url'[t]
        BY <1>3
    <2> QED
        BY <1>1, <1>4, <2>1, <2>2 DEF TaskOK, RowOK, Contradicts
<1>8. WorkerOK(t)' /\ AttendedOK(t)'
    BY <1>1, <1>4 DEF TaskOK, WorkerOK, AttendedOK, Working, loop
<1>9. LinkOK(t)'
    <2>1. url[t] => url'[t]
        BY <1>3
    <2> QED
        BY <1>1, <1>4, <2>1 DEF TaskOK, LinkOK
<1>10. TaskOK(t)'
    BY <1>7, <1>8, <1>9 DEF TaskOK
<1> QED
    BY <1>4, <1>5, <1>6, <1>10, OneTaskStep

LEMMA HideKeeps ==
    ASSUME IInv, NEW T \in SUBSET Task, Hide(T)
    PROVE  IInv'
<1>1. TypeOK'
    BY DEF IInv, TypeOK, Hide, loop, budget
<1>2. (RowConsistent /\ WorkerMeansPending /\ PendingHasWorker /\ LinkKept)'
    BY DEF IInv, Hide, loop, budget, RowConsistent, WorkerMeansPending, PendingHasWorker,
           LinkKept, Contradicts
<1> QED
    BY <1>1, <1>2 DEF IInv

LEMMA CrashKeeps ==
    ASSUME IInv, Crash
    PROVE  IInv'
<1>1. TypeOK'
    BY TaskAssumption DEF IInv, TypeOK, Crash, row
<1>2. (RowConsistent /\ LinkKept)'
    BY DEF IInv, Crash, row, RowConsistent, LinkKept, Contradicts
<1>3. WorkerMeansPending'
    BY DEF Crash, WorkerMeansPending
<1>4. PendingHasWorker'
    BY TaskAssumption DEF IInv, TypeOK, Crash, PendingHasWorker
<1> QED
    BY <1>1, <1>2, <1>3, <1>4 DEF IInv

-----------------------------------------------------------------------------
(* The invariants.                                                         *)

LEMMA InitInv == Init => IInv
    BY TaskAssumption
       DEF Init, IInv, TypeOK, RowConsistent, WorkerMeansPending, PendingHasWorker, LinkKept,
           Terminal, Contradicts

LEMMA NextInv == IInv /\ [Next]_vars => IInv'
<1> SUFFICES ASSUME IInv, [Next]_vars PROVE IInv'
    OBVIOUS
<1>1. ASSUME NEW t \in Task, Submit(t) PROVE IInv'
    BY <1>1, SubmitKeeps
<1>2. ASSUME NEW t \in Task, First(t) PROVE IInv'
    BY <1>2, FirstReplyKeeps, FirstCallFailsKeeps DEF First
<1>3. ASSUME NEW t \in Task, Follow(t) PROVE IInv'
    BY <1>3, ReplyKeeps, CandidateFailsKeeps, FollowFailsKeeps, WakeUpKeeps DEF Follow
<1>4. ASSUME NEW t \in Task, Read(t) PROVE IInv'
    BY <1>4, ReadKeeps
<1>5. ASSUME NEW T \in SUBSET Task, Hide(T) PROVE IInv'
    BY <1>5, HideKeeps
<1>6. CASE Crash
    BY <1>6, CrashKeeps
<1>7. CASE UNCHANGED vars
    BY <1>7 DEF IInv, TypeOK, RowConsistent, WorkerMeansPending, PendingHasWorker, LinkKept,
                Contradicts, vars, row, loop, budget
<1> QED
    BY <1>1, <1>2, <1>3, <1>4, <1>5, <1>6, <1>7 DEF Next

\* The inductive invariant holds in every reachable state.
THEOREM Invariance == Spec => []IInv
    BY InitInv, NextInv, PTL DEF Spec

\* The columns of a row agree in every reachable state, whatever updates of
\* update_status fail and whenever a GET writes a stored result back; a failed
\* task has a result only after one of them failed behind its commit.
THEOREM RowsConsistent == Spec => []RowConsistent
<1>1. IInv => RowConsistent
    BY DEF IInv
<1> QED
    BY <1>1, Invariance, PTL

\* No request and no background task of submit_analysis works on an ended task,
\* and never both on one task; without faults every pending task has one.
THEOREM WorkersPending == Spec => []WorkersMatch
<1>1. IInv => WorkersMatch
    BY DEF IInv, WorkersMatch
<1> QED
    BY <1>1, Invariance, PTL

\* A link _follow_until_close received is the link of the task from then on,
\* unless an update failed.
THEOREM LinksKept == Spec => []LinkKept
<1>1. IInv => LinkKept
    BY DEF IInv
<1> QED
    BY <1>1, Invariance, PTL

-----------------------------------------------------------------------------
(* The refinement of TaskLifecycle.                                        *)

\* A worker's ending of a pending row is the client's Finish, or nothing.
LEMMA EndingFinishes ==
    ASSUME TypeOK, NEW t \in Task, status[t] = "pending",
           \/ StoreFailed(t)
           \/ UNCHANGED row
           \/ \E parts \in SUBSET Part : parts # {} /\ StoreCompleted(t, parts)
           \/ \E parts \in SUBSET Part : StoreBoth(t, parts)
    PROVE  Lifecycle!Finish(t) \/ UNCHANGED Lifecycle!vars
<1>1. CASE StoreFailed(t)
    <2>1. result[t] \in SUBSET Lifecycle!Part
        BY DEF TypeOK, Part, Lifecycle!Part
    <2>2. result' = [result EXCEPT ![t] = result[t]]
        BY <1>1 DEF StoreFailed, TypeOK
    <2> QED
        BY <1>1, <2>1, <2>2 DEF StoreFailed, Lifecycle!Finish
<1>2. CASE UNCHANGED row
    BY <1>2 DEF row, Lifecycle!vars
<1>3. ASSUME NEW parts \in SUBSET Part, parts # {}, StoreCompleted(t, parts)
      PROVE  Lifecycle!Finish(t)
    BY <1>3 DEF StoreCompleted, Lifecycle!Finish, Lifecycle!Part, Part
<1>4. ASSUME NEW parts \in SUBSET Part, StoreBoth(t, parts)
      PROVE  Lifecycle!Finish(t)
    BY <1>4 DEF StoreBoth, Lifecycle!Finish, Lifecycle!Part, Part
<1> QED
    BY <1>1, <1>2, <1>3, <1>4

LEMMA StepRefines == IInv /\ [Next]_vars => [Lifecycle!Next]_Lifecycle!vars
<1> SUFFICES ASSUME IInv, [Next]_vars PROVE [Lifecycle!Next]_Lifecycle!vars
    OBVIOUS
<1>1. TypeOK
    BY DEF IInv
<1>2. ASSUME NEW t \in Task, Submit(t) PROVE Lifecycle!Submit(t)
    BY <1>2 DEF Submit, Lifecycle!Submit
<1>3. ASSUME NEW t \in Task, First(t) PROVE Lifecycle!Finish(t) \/ UNCHANGED Lifecycle!vars
    <2>1. CASE FirstReply(t)
        <3>1. status[t] = "pending"
            BY <2>1 DEF IInv, WorkerMeansPending, FirstReply
        <3>2. status' = status /\ result' = result /\ hidden' = hidden
            BY <1>1, <2>1, <3>1 DEF FirstReply, Written, StorePending, row, TypeOK
        <3> QED
            BY <3>2 DEF Lifecycle!vars
    <2>2. CASE FirstCallFails(t)
        <3>1. status[t] = "pending"
            BY <2>2 DEF IInv, WorkerMeansPending, FirstCallFails
        <3> QED
            BY <1>1, <2>2, <3>1, EndingFinishes DEF FirstCallFails, GiveUp, Written
    <2> QED
        BY <1>3, <2>1, <2>2 DEF First
<1>4. ASSUME NEW t \in Task, Follow(t) PROVE Lifecycle!Finish(t) \/ UNCHANGED Lifecycle!vars
    <2>1. CASE Reply(t)
        <3>1. status[t] = "pending"
            BY <2>1 DEF IInv, WorkerMeansPending, Reply
        <3>2. PICK parts \in SUBSET Part : Conclude(t, parts) \/ UNCHANGED row
            BY <2>1 DEF Reply
        <3>3. \/ StoreFailed(t)
              \/ UNCHANGED row
              \/ parts # {} /\ StoreCompleted(t, parts)
              \/ StoreBoth(t, parts)
            BY <3>2 DEF Conclude, GiveUp, Written
        <3> QED
            BY <1>1, <3>1, <3>3, EndingFinishes
    <2>2. CASE CandidateFails(t) \/ WakeUp(t)
        BY <2>2 DEF CandidateFails, WakeUp, row, Lifecycle!vars
    <2>3. CASE FollowFails(t)
        <3>1. status[t] = "pending"
            BY <2>3 DEF IInv, WorkerMeansPending, FollowFails
        <3> QED
            BY <1>1, <2>3, <3>1, EndingFinishes DEF FollowFails, GiveUp, Written
    <2> QED
        BY <1>4, <2>1, <2>2, <2>3 DEF Follow
<1>5. ASSUME NEW t \in Task, Read(t) PROVE UNCHANGED Lifecycle!vars
    BY <1>5 DEF Read, Lifecycle!vars
<1>6. ASSUME NEW T \in SUBSET Task, Hide(T) PROVE Lifecycle!Hide(T)
    BY <1>6 DEF Hide, Lifecycle!Hide
<1>7. CASE Crash \/ UNCHANGED vars
    BY <1>7 DEF Crash, vars, row, Lifecycle!vars
<1> QED
    BY <1>2, <1>3, <1>4, <1>5, <1>6, <1>7 DEF Next, Lifecycle!Next

\* The rows implement the life cycle a client may rely on, whatever calls of the
\* workflow and updates of the row fail and whenever the server is restarted.
THEOREM LifecycleImplemented == Spec => ImplementsLifecycle
<1>1. Init => Lifecycle!Init
    BY DEF Init, Lifecycle!Init
<1> QED
    BY <1>1, StepRefines, Invariance, PTL DEF Spec, ImplementsLifecycle, Lifecycle!Spec

-----------------------------------------------------------------------------
(* AnalysisSubmit.                                                         *)

AtMostOne(S) == \A x, y \in S : x = y

\* While no click came in between, one attempt is under way, at one stage:
\* matching its data source, asking the user, posted, delayed, or polled.
OneStage ==
    /\ AtMostOne(matching) /\ AtMostOne(posts) /\ AtMostOne(delays)
    /\ matching # {} => posts = {} /\ delays = {} /\ intervals = {} /\ ~dialog.open
    /\ dialog.open => posts = {} /\ delays = {} /\ intervals = {} /\ dialog.pending # 0
    /\ posts # {} => delays = {} /\ intervals = {}
    /\ delays # {} => intervals = {}
    /\ intervals \subseteq {ref}
    /\ \A p \in posts : p.of # 0

\* From its post on, the progress dialog masks the buttons.
Masked ==
    onPage /\ (posts # {} \/ delays # {} \/ intervals # {}) => progress.visible

Apart == SubmitTypeOK /\ (~doubled => OneStage /\ Masked)

\* The stage starts empty.
LEMMA ApartInit == SubmitInit => Apart
<1> SUFFICES ASSUME SubmitInit PROVE Apart
    OBVIOUS
<1>1. SubmitTypeOK
    <2>1. dialog \in [open : BOOLEAN, pending : 0 .. MaxAttempts]
        BY SubmitAssumption DEF SubmitInit, Closed
    <2>2. progress \in [visible : BOOLEAN, status : Status]
        BY DEF SubmitInit, Hidden, Status
    <2>3. task \in [Attempt -> Status]
        BY DEF SubmitInit, Status
    <2>4. leaving \in [Attempt -> 0 .. MaxPolls]
        BY SubmitAssumption DEF SubmitInit
    <2>5. used \in 0 .. MaxAttempts /\ lost \in 0 .. MaxLost /\ ref \in 0 .. MaxAttempts
        BY SubmitAssumption DEF SubmitInit
    <2> QED
        BY <2>1, <2>2, <2>3, <2>4, <2>5 DEF SubmitInit, SubmitTypeOK
<1>2. OneStage /\ Masked
    BY DEF SubmitInit, OneStage, Masked, AtMostOne, Closed
<1> QED
    BY <1>1, <1>2 DEF Apart

-----------------------------------------------------------------------------
(* The type.                                                               *)

\* The parts of the type each handler touches.
LEMMA SubmitTypeParts ==
    ASSUME SubmitTypeOK
    PROVE  /\ used \in 0 .. MaxAttempts /\ ref \in 0 .. MaxAttempts
           /\ dialog \in [open : BOOLEAN, pending : 0 .. MaxAttempts]
           /\ progress \in [visible : BOOLEAN, status : Status]
           /\ {"none", "pending", "completed", "failed"} = Status
           /\ Attempt \subseteq 0 .. MaxAttempts
           /\ \A v \in BOOLEAN, s \in Status :
                 /\ [visible |-> v, status |-> s] \in [visible : BOOLEAN, status : Status]
                 /\ [progress EXCEPT !.visible = v] \in [visible : BOOLEAN, status : Status]
                 /\ [progress EXCEPT !.status = s] \in [visible : BOOLEAN, status : Status]
           /\ 0 \in 0 .. MaxAttempts
    BY SubmitAssumption DEF SubmitTypeOK, Status, Attempt

\* Clearing the ref's interval keeps the type.
LEMMA ClearType ==
    ASSUME SubmitTypeOK, ClearRef
    PROVE  intervals' \subseteq Attempt /\ ref' \in 0 .. MaxAttempts
<1>1. intervals' \subseteq Attempt
    BY DEF SubmitTypeOK, ClearRef
<1>2. ref' = 0
    BY DEF ClearRef
<1> QED
    BY <1>1, <1>2, SubmitAssumption

\* Clicks and dialogs keep the type.
LEMMA ScreenType ==
    ASSUME SubmitTypeOK, Analyze \/ DialogOk \/ DialogCancel \/ Leave
    PROVE  SubmitTypeOK'
<1>1. CASE Analyze
    <2>1. used' \in 0 .. MaxAttempts /\ used' \in Attempt
        BY <1>1, SubmitAssumption DEF Analyze, SubmitTypeOK, Attempt
    <2> QED
        BY <1>1, <2>1 DEF Analyze, SubmitTypeOK, timers, screen
<1>2. CASE DialogOk
    <2>1. [of |-> dialog.pending, chosen |-> TRUE] \in Post
        BY SubmitTypeParts DEF Post
    <2>2. progress' \in [visible : BOOLEAN, status : Status]
        BY <1>2, SubmitTypeParts DEF DialogOk, SubmitAnalysis, Show
    <2>3. dialog' \in [open : BOOLEAN, pending : 0 .. MaxAttempts]
        BY <1>2, SubmitTypeParts DEF DialogOk
    <2>4. posts' \subseteq Post /\ intervals' \subseteq Attempt /\ ref' \in 0 .. MaxAttempts
        BY <1>2, <2>1, ClearType DEF DialogOk, SubmitAnalysis, SubmitTypeOK
    <2> QED
        BY <1>2, <2>2, <2>3, <2>4 DEF DialogOk, SubmitTypeOK
<1>3. CASE DialogCancel
    BY <1>3, SubmitTypeParts DEF DialogCancel, Closed, SubmitTypeOK, requests, timers
<1>4. CASE Leave
    BY <1>4, SubmitTypeParts DEF Leave, PageLeft, ClearRef, Closed, Hidden, SubmitTypeOK, requests
<1> QED
    BY <1>1, <1>2, <1>3, <1>4

\* So do matching a data source and posting.
LEMMA PostType ==
    ASSUME SubmitTypeOK, (\E n \in Attempt : Match(n)) \/ (\E p \in posts : PostEnds(p))
    PROVE  SubmitTypeOK'
<1>1. ASSUME NEW n \in Attempt, MatchedOne(n) PROVE SubmitTypeOK'
    <2>1. [of |-> n, chosen |-> FALSE] \in Post
        BY SubmitTypeParts DEF Post
    <2>2. progress' \in [visible : BOOLEAN, status : Status]
        BY <1>1, SubmitTypeParts DEF MatchedOne, SubmitAnalysis, Show
    <2>3. posts' \subseteq Post /\ intervals' \subseteq Attempt /\ ref' \in 0 .. MaxAttempts
        BY <1>1, <2>1, ClearType DEF MatchedOne, SubmitAnalysis, SubmitTypeOK
    <2> QED
        BY <1>1, <2>2, <2>3 DEF MatchedOne, SubmitTypeOK
<1>2. ASSUME NEW n \in Attempt, MatchedMany(n) PROVE SubmitTypeOK'
    <2>1. dialog' \in [open : BOOLEAN, pending : 0 .. MaxAttempts]
        BY <1>2, SubmitTypeParts DEF MatchedMany
    <2> QED
        BY <1>2, <2>1 DEF MatchedMany, SubmitTypeOK, timers
<1>3. ASSUME NEW n \in Attempt, MatchFailed(n) PROVE SubmitTypeOK'
    BY <1>3 DEF MatchFailed, SubmitTypeOK, timers, screen
<1>4. ASSUME NEW p \in posts, PostAccepted(p) PROVE SubmitTypeOK'
    <2>1. p.of \in Attempt
        BY <1>4, SubmitAssumption DEF PostAccepted, SubmitTypeOK, Post, Attempt
    <2>2. dialog' \in [open : BOOLEAN, pending : 0 .. MaxAttempts]
        BY <1>4, SubmitTypeParts DEF PostAccepted, EmptyPending
    <2>3. progress' \in [visible : BOOLEAN, status : Status]
        BY <1>4, SubmitTypeParts DEF PostAccepted, Show
    <2>4. task' \in [Attempt -> Status]
        BY <1>4, <2>1, SubmitTypeParts DEF PostAccepted, SubmitTypeOK
    <2> QED
        BY <1>4, <2>1, <2>2, <2>3, <2>4 DEF PostAccepted, SubmitTypeOK
<1>5. ASSUME NEW p \in posts, PostRefused(p) PROVE SubmitTypeOK'
    <2>1. dialog' \in [open : BOOLEAN, pending : 0 .. MaxAttempts]
        BY <1>5, SubmitTypeParts DEF PostRefused, EmptyPending
    <2>2. progress' \in [visible : BOOLEAN, status : Status]
        BY <1>5, SubmitTypeParts DEF PostRefused, Show
    <2> QED
        BY <1>5, <2>1, <2>2, SubmitTypeParts DEF PostRefused, ClearRef, SubmitTypeOK
<1> QED
    BY <1>1, <1>2, <1>3, <1>4, <1>5 DEF Match, PostEnds

\* So do timers and the server.
LEMMA TimerType ==
    ASSUME SubmitTypeOK, NEW n \in Attempt, DelayOver(n) \/ Tick(n) \/ OpenResults(n) \/ TaskEnds(n)
    PROVE  SubmitTypeOK'
<1>1. ASSUME SendPoll(n) PROVE polls' \subseteq Poll
    BY <1>1 DEF SendPoll, SubmitTypeOK, Poll
<1>2. CASE DelayOver(n)
    BY <1>1, <1>2, SubmitTypeParts DEF DelayOver, SubmitTypeOK, screen
<1>3. CASE Tick(n)
    BY <1>1, <1>3 DEF Tick, SubmitTypeOK, timers, screen
<1>4. CASE OpenResults(n)
    <2>1. leaving' \in [Attempt -> 0 .. MaxPolls]
        BY <1>4, SubmitAssumption DEF OpenResults, SubmitTypeOK
    <2>2. CASE onPage
        <3>1. /\ dialog' \in [open : BOOLEAN, pending : 0 .. MaxAttempts]
              /\ progress' \in [visible : BOOLEAN, status : Status]
            <4>1. dialog' = Closed /\ progress' = Hidden
                BY <1>4, <2>2 DEF OpenResults, PageLeft
            <4> QED
                BY <4>1, SubmitAssumption DEF Closed, Hidden, Status
        <3>2. intervals' \subseteq Attempt /\ ref' \in 0 .. MaxAttempts /\ onPage' \in BOOLEAN
            BY <1>4, <2>2, ClearType DEF OpenResults, PageLeft
        <3> QED
            BY <1>4, <2>1, <3>1, <3>2 DEF OpenResults, SubmitTypeOK, requests
    <2>3. CASE ~onPage
        BY <1>4, <2>1, <2>3 DEF OpenResults, SubmitTypeOK, requests, screen
    <2> QED
        BY <2>2, <2>3
<1>5. CASE TaskEnds(n)
    <2>1. task' \in [Attempt -> Status]
        BY <1>5, SubmitTypeParts DEF TaskEnds, SubmitTypeOK
    <2> QED
        BY <1>5, <2>1 DEF TaskEnds, SubmitTypeOK, requests, timers, screen
<1> QED
    BY <1>2, <1>3, <1>4, <1>5

\* And so does the answer of a poll.
LEMMA PollType ==
    ASSUME SubmitTypeOK, NEW p \in polls, PollEnds(p)
    PROVE  SubmitTypeOK'
<1>1. p \in Poll /\ p.of \in Attempt
    BY DEF SubmitTypeOK, Poll
<1>2. CASE PollPending(p)
    <2>1. progress' \in [visible : BOOLEAN, status : Status]
        BY <1>2, SubmitTypeParts DEF PollPending, Show
    <2> QED
        BY <1>2, <2>1 DEF PollPending, SubmitTypeOK, timers
<1>3. CASE PollCompleted(p)
    <2>1. progress' \in [visible : BOOLEAN, status : Status]
        BY <1>3, SubmitTypeParts DEF PollCompleted, Show
    <2>2. leaving' \in [Attempt -> 0 .. MaxPolls]
        BY <1>1, <1>3, SubmitAssumption DEF PollCompleted, SubmitTypeOK
    <2> QED
        BY <1>3, <2>1, <2>2, SubmitTypeParts DEF PollCompleted, ClearRef, SubmitTypeOK
<1>4. CASE PollFailed(p)
    <2>1. progress' \in [visible : BOOLEAN, status : Status]
        BY <1>4, SubmitTypeParts DEF PollFailed, Show
    <2> QED
        BY <1>4, <2>1, SubmitTypeParts DEF PollFailed, ClearRef, SubmitTypeOK
<1>5. CASE PollLost(p)
    <2>1. lost' \in 0 .. MaxLost
        BY <1>5, SubmitAssumption DEF PollLost, SubmitTypeOK
    <2> QED
        BY <1>5, <2>1 DEF PollLost, SubmitTypeOK, timers, screen
<1> QED
    BY <1>2, <1>3, <1>4, <1>5 DEF PollEnds

\* Every step keeps the type.
LEMMA TypeNext == SubmitTypeOK /\ [SubmitNext]_submitVars => SubmitTypeOK'
<1> SUFFICES ASSUME SubmitTypeOK, [SubmitNext]_submitVars PROVE SubmitTypeOK'
    OBVIOUS
<1>1. CASE UNCHANGED submitVars
    BY <1>1 DEF submitVars, requests, timers, screen, SubmitTypeOK
<1> QED
    BY <1>1, ScreenType, PostType, TimerType, PollType DEF SubmitNext

-----------------------------------------------------------------------------
(* One attempt at a time.                                                  *)

\* A click while nothing matches starts the only attempt.
LEMMA AnalyzeApart ==
    ASSUME SubmitTypeOK, OneStage, Masked, Analyze, ~doubled'
    PROVE  OneStage' /\ Masked'
<1>1. matching = {} /\ posts = {} /\ delays = {} /\ intervals = {}
    BY DEF Analyze, Masked
<1> QED
    BY <1>1 DEF Analyze, OneStage, Masked, AtMostOne, timers, screen

\* Posting is the only attempt's next stage.
LEMMA SubmitApart ==
    ASSUME SubmitTypeOK, OneStage, NEW n \in Attempt, NEW chosen \in BOOLEAN, SubmitAnalysis(n, chosen),
           posts = {}, delays = {}, delays' = delays, matching' = {}, ~dialog'.open,
           onPage' = onPage
    PROVE  OneStage' /\ Masked'
<1>1. posts' = {[of |-> n, chosen |-> chosen]} /\ intervals' = {} /\ n # 0
    BY SubmitAssumption DEF SubmitAnalysis, ClearRef, OneStage, Attempt
<1>2. onPage => progress'.visible
    BY DEF SubmitAnalysis, Show
<1> QED
    BY <1>1, <1>2 DEF OneStage, Masked, AtMostOne

\* The interval that is cleared is the only one.
LEMMA ClearApart ==
    ASSUME OneStage, ClearRef
    PROVE  intervals' = {}
    BY DEF OneStage, ClearRef

\* Every step of the only attempt leads to one stage.
LEMMA ApartNext == Apart /\ [SubmitNext]_submitVars => Apart'
<1> SUFFICES ASSUME Apart, [SubmitNext]_submitVars, ~doubled' PROVE OneStage' /\ Masked'
    BY TypeNext DEF Apart
<1>1. SubmitTypeOK /\ OneStage /\ Masked
    <2>1. ~doubled
        <3>1. CASE UNCHANGED submitVars
            BY <3>1 DEF submitVars
        <3>2. CASE SubmitNext
            BY <3>2 DEF SubmitNext, Analyze, DialogOk, DialogCancel, Leave, Match, MatchedOne,
                        MatchedMany, MatchFailed, DelayOver, Tick, OpenResults, TaskEnds,
                        PostEnds, PostAccepted, PostRefused, PollEnds, PollPending,
                        PollCompleted, PollFailed, PollLost
        <3> QED
            BY <3>1, <3>2
    <2> QED
        BY <2>1 DEF Apart
<1>2. CASE UNCHANGED submitVars
    BY <1>1, <1>2 DEF submitVars, requests, timers, screen, OneStage, Masked, AtMostOne
<1>3. CASE Analyze
    BY <1>1, <1>3, AnalyzeApart
<1>4. CASE DialogOk
    <2>1. dialog.pending \in Attempt
        BY <1>1, <1>4, SubmitAssumption DEF DialogOk, OneStage, SubmitTypeOK, Attempt
    <2>2. /\ matching = {} /\ posts = {} /\ delays = {}
          /\ SubmitAnalysis(dialog.pending, TRUE) /\ matching' = matching /\ delays' = delays
          /\ onPage' = onPage
        BY <1>1, <1>4 DEF DialogOk, OneStage
    <2>3. ~dialog'.open
        BY <1>1, <1>4 DEF DialogOk, SubmitTypeOK
    <2> QED
        BY <1>1, <2>1, <2>2, <2>3, SubmitApart
<1>5. CASE DialogCancel
    BY <1>1, <1>5 DEF DialogCancel, Closed, requests, timers, OneStage, Masked
<1>6. CASE Leave
    BY <1>1, <1>6, ClearApart DEF Leave, PageLeft, Closed, requests, OneStage, Masked
<1>7. ASSUME NEW n \in Attempt, MatchedOne(n) PROVE OneStage' /\ Masked'
    <2>1. matching' = {} /\ posts = {} /\ delays = {} /\ ~dialog.open
        BY <1>1, <1>7 DEF MatchedOne, OneStage, AtMostOne
    <2>2. SubmitAnalysis(n, FALSE) /\ delays' = delays /\ dialog' = dialog /\ onPage' = onPage
        BY <1>7 DEF MatchedOne
    <2> QED
        BY <1>1, <2>1, <2>2, SubmitApart
<1>8. ASSUME NEW n \in Attempt, MatchedMany(n) PROVE OneStage' /\ Masked'
    <2>1. matching' = {} /\ posts = {} /\ delays = {} /\ intervals = {} /\ ~dialog.open /\ n # 0
        BY <1>1, <1>8, SubmitAssumption DEF MatchedMany, OneStage, AtMostOne, Attempt
    <2>2. ~dialog'.open \/ dialog'.pending # 0
        BY <1>8, <2>1 DEF MatchedMany
    <2> QED
        BY <1>1, <1>8, <2>1, <2>2 DEF MatchedMany, timers, OneStage, Masked, AtMostOne
<1>9. ASSUME NEW n \in Attempt, MatchFailed(n) PROVE OneStage' /\ Masked'
    BY <1>1, <1>9 DEF MatchFailed, timers, screen, OneStage, Masked, AtMostOne
<1>10. ASSUME NEW p \in posts, PostAccepted(p) PROVE OneStage' /\ Masked'
    <2>1. /\ posts' = {} /\ matching = {} /\ delays' = {p.of} /\ intervals = {} /\ ~dialog.open
        BY <1>1, <1>10 DEF PostAccepted, OneStage, AtMostOne
    <2>2. ~dialog'.open
        BY <1>1, <1>10, <2>1 DEF PostAccepted, EmptyPending, SubmitTypeOK
    <2>3. onPage => progress'.visible
        BY <1>1, <1>10 DEF PostAccepted, Show, Masked, SubmitTypeOK
    <2> QED
        BY <1>10, <2>1, <2>2, <2>3 DEF PostAccepted, OneStage, Masked, AtMostOne
<1>11. ASSUME NEW p \in posts, PostRefused(p) PROVE OneStage' /\ Masked'
    <2>1. /\ posts' = {} /\ matching = {} /\ delays = {} /\ intervals' = {} /\ ~dialog.open
        BY <1>1, <1>11, ClearApart DEF PostRefused, OneStage, AtMostOne
    <2>2. ~dialog'.open
        BY <1>1, <1>11, <2>1 DEF PostRefused, EmptyPending, SubmitTypeOK
    <2> QED
        BY <1>11, <2>1, <2>2 DEF PostRefused, OneStage, Masked, AtMostOne
<1>12. ASSUME NEW n \in Attempt, DelayOver(n) PROVE OneStage' /\ Masked'
    <2>1. /\ posts = {} /\ matching = {} /\ delays' = {} /\ ~dialog.open
          /\ intervals' = {n} /\ ref' = n
        BY <1>1, <1>12 DEF DelayOver, OneStage, AtMostOne
    <2>2. onPage => progress.visible
        BY <1>1, <1>12 DEF DelayOver, Masked
    <2> QED
        BY <1>12, <2>1, <2>2 DEF DelayOver, screen, OneStage, Masked, AtMostOne
<1>13. ASSUME NEW n \in Attempt, Tick(n) \/ TaskEnds(n) PROVE OneStage' /\ Masked'
    BY <1>1, <1>13 DEF Tick, TaskEnds, requests, timers, screen, OneStage, Masked, AtMostOne
<1>14. ASSUME NEW n \in Attempt, OpenResults(n) PROVE OneStage' /\ Masked'
    <2>1. CASE onPage
        BY <1>1, <1>14, <2>1, ClearApart DEF OpenResults, PageLeft, Closed, requests, OneStage, Masked
    <2>2. CASE ~onPage
        BY <1>1, <1>14, <2>2 DEF OpenResults, requests, screen, OneStage, Masked
    <2> QED
        BY <2>1, <2>2
<1>15. ASSUME NEW p \in polls, PollEnds(p) PROVE OneStage' /\ Masked'
    <2>1. /\ UNCHANGED <<matching, posts, delays, dialog, onPage>>
          /\ (ref' = ref /\ intervals' = intervals) \/ ClearRef
        BY <1>15 DEF PollEnds, PollPending, PollCompleted, PollFailed, PollLost, timers, screen
    <2>2. progress'.visible = progress.visible
        BY <1>1, <1>15 DEF PollEnds, PollPending, PollCompleted, PollFailed, PollLost, Show,
                           screen, SubmitTypeOK
    <2>3. intervals' \subseteq intervals /\ intervals' \subseteq {ref'}
        BY <1>1, <2>1, ClearApart DEF OneStage
    <2> QED
        BY <1>1, <2>1, <2>2, <2>3 DEF OneStage, Masked
<1> QED
    BY <1>2, <1>3, <1>4, <1>5, <1>6, <1>7, <1>8, <1>9, <1>10, <1>11, <1>12, <1>13, <1>14,
       <1>15 DEF SubmitNext, Match, PostEnds

\* No interval leaks and no empty batch is posted, whatever polls are lost or late
\* and wherever the user goes, as long as no click came while another attempt
\* was matching its data source.
THEOREM AttemptsStayApart == SubmitSpec => []AttemptsApart
<1>1. Apart => AttemptsApart
    BY DEF Apart, OneStage, AttemptsApart
<1> QED
    BY <1>1, ApartInit, ApartNext, PTL DEF SubmitSpec

-----------------------------------------------------------------------------
(* The progress dialog.                                                    *)

\* The page that has left the screen shows no progress.
GoneHidesProgress == ~onPage => ~progress.visible

\* A poll that saw a failure tells the truth for good.
SawFailure == \A p \in polls : p.saw = "failed" => task[p.of] = "failed"

\* An attempt is posted once: until then it has no task, and it is at one
\* place, in a request for its data source, in the dialog, or in a post.
PostedOnce ==
    /\ \A n \in Attempt : n > used => task[n] = "none"
    /\ \A n \in matching :
          n <= used /\ task[n] = "none" /\ (dialog.open => dialog.pending # n)
    /\ dialog.open /\ dialog.pending # 0 =>
          dialog.pending <= used /\ task[dialog.pending] = "none"
    /\ \A p \in posts : p.of # 0 =>
          /\ p.of <= used /\ task[p.of] = "none"
          /\ p.of \notin matching /\ (dialog.open => dialog.pending # p.of)
    /\ \A p, q \in posts : p.of = q.of /\ p.of # 0 => p = q

\* Behind the progress dialog there is a post, a timer, or a task that failed.
Followed ==
    progress.visible =>
       \/ posts # {} \/ delays # {} \/ intervals # {}
       \/ \E n \in Attempt : leaving[n] > 0
       \/ \E n \in Attempt : task[n] = "failed"

Dialog == SubmitTypeOK /\ GoneHidesProgress /\ SawFailure /\ PostedOnce /\ Followed

\* No dialog is open at first.
LEMMA DialogInit == SubmitInit => Dialog
    BY ApartInit
       DEF Apart, SubmitInit, Dialog, GoneHidesProgress, SawFailure, PostedOnce, Followed, Hidden, Closed

\* Attempts stay posted at most once.
LEMMA PostedOnceNext ==
    ASSUME SubmitTypeOK, PostedOnce, [SubmitNext]_submitVars
    PROVE  PostedOnce'
<1>1. CASE UNCHANGED submitVars
    BY <1>1 DEF submitVars, requests, timers, screen, PostedOnce
<1>2. CASE Analyze
    <2>1. /\ used' = used + 1 /\ matching' = matching \cup {used + 1} /\ ~dialog.open
          /\ used \in Nat /\ used + 1 \in Attempt
          /\ UNCHANGED <<posts, task, dialog>>
        BY <1>2, SubmitAssumption DEF Analyze, SubmitTypeOK, timers, screen, Attempt
    <2>2. task[used + 1] = "none"
        BY <2>1 DEF PostedOnce
    <2>3. \A p \in posts : p.of \in Nat
        BY SubmitAssumption DEF SubmitTypeOK, Post
    <2>4. \A n \in matching : n \in Nat
        BY DEF SubmitTypeOK, Attempt
    <2> QED
        BY <2>1, <2>2, <2>3, <2>4 DEF PostedOnce, Attempt
<1>3. ASSUME NEW n, NEW chosen, SubmitAnalysis(n, chosen), UNCHANGED <<used, task>>,
             matching' \subseteq matching, ~dialog'.open,
             n # 0 => /\ n <= used /\ task[n] = "none" /\ n \notin matching'
                      /\ \A p \in posts : p.of # n
      PROVE  PostedOnce'
    BY <1>3 DEF SubmitAnalysis, PostedOnce
<1>4. CASE DialogOk
    <2>1. dialog.open /\ ~dialog'.open
        BY <1>4 DEF DialogOk, SubmitTypeOK
    <2>2. dialog.pending # 0 =>
            /\ dialog.pending <= used /\ task[dialog.pending] = "none"
            /\ dialog.pending \notin matching
            /\ \A p \in posts : p.of # dialog.pending
        BY <2>1 DEF PostedOnce
    <2>3. SubmitAnalysis(dialog.pending, TRUE) /\ UNCHANGED <<used, task, matching>>
        BY <1>4 DEF DialogOk
    <2> QED
        BY <1>3, <2>1, <2>2, <2>3
<1>5. CASE DialogCancel
    BY <1>5 DEF DialogCancel, Closed, requests, PostedOnce
<1>6. CASE Leave
    BY <1>6 DEF Leave, PageLeft, Closed, requests, PostedOnce
<1>7. ASSUME NEW n \in Attempt, MatchedOne(n) PROVE PostedOnce'
    <2>1. /\ n \in matching /\ matching' = matching \ {n}
          /\ UNCHANGED <<used, task, dialog>>
        BY <1>7 DEF MatchedOne
    <2>2. PICK post : post.of = n /\ posts' = posts \cup {post}
        <3>1. posts' = posts \cup {[of |-> n, chosen |-> FALSE]}
            BY <1>7 DEF MatchedOne, SubmitAnalysis
        <3> QED
            BY <3>1
    <2>3. n # 0
        BY SubmitAssumption DEF Attempt
    <2> QED
        BY <2>1, <2>2, <2>3 DEF PostedOnce
<1>8. ASSUME NEW n \in Attempt, MatchedMany(n) PROVE PostedOnce'
    <2>1. /\ n \in matching /\ matching' = matching \ {n} /\ UNCHANGED <<used, task, posts>>
          /\ dialog' = dialog \/ (dialog'.open /\ dialog'.pending = n)
        BY <1>8 DEF MatchedMany
    <2> QED
        BY <2>1 DEF PostedOnce
<1>9. ASSUME NEW n \in Attempt, MatchFailed(n) PROVE PostedOnce'
    BY <1>9 DEF MatchFailed, screen, PostedOnce
<1>10. ASSUME NEW p \in posts, PostEnds(p) PROVE PostedOnce'
    <2>1. /\ posts' = posts \ {p} /\ UNCHANGED <<used, matching>>
          /\ dialog' = dialog \/ dialog' = [dialog EXCEPT !.pending = 0]
          /\ task' = task \/ (p.of # 0 /\ task' = [task EXCEPT ![p.of] = "pending"])
        BY <1>10 DEF PostEnds, PostAccepted, PostRefused, EmptyPending
    <2>2. dialog'.open = dialog.open /\ dialog'.pending \in {dialog.pending, 0}
        BY <2>1 DEF SubmitTypeOK
    <2>3. \A n \in Attempt : n # p.of \/ p.of = 0 => task'[n] = task[n]
        BY <2>1 DEF SubmitTypeOK
    <2>4. /\ matching \subseteq Attempt /\ 0 \notin Attempt /\ dialog.pending \in Attempt \cup {0}
          /\ \A q \in posts : q.of \in Attempt \cup {0}
        BY SubmitAssumption DEF SubmitTypeOK, Post, Attempt
    <2>5. \A n \in Attempt : n > used' => task'[n] = "none"
        BY <2>1, <2>3, <2>4 DEF PostedOnce, Attempt, SubmitTypeOK
    <2>6. \A n \in matching' :
            n <= used' /\ task'[n] = "none" /\ (dialog'.open => dialog'.pending # n)
        BY <2>1, <2>2, <2>3, <2>4 DEF PostedOnce
    <2>7. dialog'.open /\ dialog'.pending # 0 =>
            dialog'.pending <= used' /\ task'[dialog'.pending] = "none"
        BY <2>1, <2>2, <2>3, <2>4 DEF PostedOnce
    <2>8. \A q \in posts' : q.of # 0 =>
            /\ q.of <= used' /\ task'[q.of] = "none"
            /\ q.of \notin matching' /\ (dialog'.open => dialog'.pending # q.of)
        BY <2>1, <2>2, <2>3, <2>4 DEF PostedOnce
    <2>9. \A q, r \in posts' : q.of = r.of /\ q.of # 0 => q = r
        BY <2>1 DEF PostedOnce
    <2> QED
        BY <2>5, <2>6, <2>7, <2>8, <2>9 DEF PostedOnce
<1>11. ASSUME NEW n \in Attempt, DelayOver(n) \/ Tick(n) PROVE PostedOnce'
    BY <1>11 DEF DelayOver, Tick, screen, PostedOnce
<1>12. ASSUME NEW n \in Attempt, OpenResults(n) PROVE PostedOnce'
    <2>1. /\ UNCHANGED <<used, matching, posts, task>>
          /\ dialog' = dialog \/ dialog' = Closed
        BY <1>12 DEF OpenResults, PageLeft, requests, screen
    <2> QED
        BY <2>1 DEF Closed, PostedOnce
<1>13. ASSUME NEW n \in Attempt, TaskEnds(n) PROVE PostedOnce'
    <2>1. /\ UNCHANGED <<used, matching, posts, dialog>>
          /\ task[n] # "none" /\ \A m \in Attempt \ {n} : task'[m] = task[m]
        BY <1>13 DEF TaskEnds, requests, screen, SubmitTypeOK
    <2>2. /\ matching \subseteq Attempt /\ 0 \notin Attempt /\ dialog.pending \in Attempt \cup {0}
          /\ \A q \in posts : q.of \in Attempt \cup {0}
        BY SubmitAssumption DEF SubmitTypeOK, Post, Attempt
    <2>3. \A m \in Attempt : task[m] = "none" => task'[m] = "none"
        BY <2>1
    <2> QED
        BY <2>1, <2>2, <2>3 DEF PostedOnce
<1>14. ASSUME NEW p \in polls, PollEnds(p) PROVE PostedOnce'
    BY <1>14 DEF PollEnds, PollPending, PollCompleted, PollFailed, PollLost, screen, PostedOnce
<1> QED
    BY <1>1, <1>2, <1>4, <1>5, <1>6, <1>7, <1>8, <1>9, <1>10, <1>11, <1>12, <1>13, <1>14
       DEF SubmitNext, Match

\* A task that failed stays failed: no attempt is posted again.
LEMMA FailureStays ==
    ASSUME SubmitTypeOK, PostedOnce, [SubmitNext]_submitVars, NEW n \in Attempt, task[n] = "failed"
    PROVE  task'[n] = "failed"
<1>1. ASSUME NEW p \in posts, PostAccepted(p) PROVE task'[n] = "failed"
    BY <1>1 DEF PostAccepted, PostedOnce, SubmitTypeOK
<1>2. ASSUME NEW m \in Attempt, TaskEnds(m) PROVE task'[n] = "failed"
    BY <1>2 DEF TaskEnds, SubmitTypeOK
<1> QED
    BY <1>1, <1>2
       DEF submitVars, SubmitNext, Analyze, DialogOk, DialogCancel, Leave, Match, MatchedOne, MatchedMany,
           MatchFailed, DelayOver, Tick, OpenResults, PostEnds, PostRefused, PollEnds,
           PollPending, PollCompleted, PollFailed, PollLost

\* A poll is sent with what the server has at that moment.
LEMMA SawFailureNext ==
    ASSUME SubmitTypeOK, PostedOnce, SawFailure, [SubmitNext]_submitVars
    PROVE  SawFailure'
<1>1. \A p \in polls' : p \in polls \/ (p.of \in Attempt /\ p.saw = task[p.of] /\ task' = task)
    <2>1. ASSUME NEW n \in Attempt, SendPoll(n), task' = task
          PROVE  \A p \in polls' : p \in polls \/ (p.of \in Attempt /\ p.saw = task[p.of])
        BY <2>1 DEF SendPoll
    <2> QED
        BY <2>1
           DEF submitVars, requests, SubmitNext, Analyze, DialogOk, DialogCancel, Leave, Match, MatchedOne,
               MatchedMany, MatchFailed, DelayOver, Tick, OpenResults, TaskEnds, PostEnds,
               PostAccepted, PostRefused, PollEnds, PollPending, PollCompleted, PollFailed,
               PollLost
<1>2. \A p \in polls : p.of \in Attempt
    BY DEF SubmitTypeOK, Poll
<1> QED
    BY <1>1, <1>2, FailureStays DEF SawFailure

\* The steps that show, hide and feed the progress dialog.
LEMMA FollowedNext ==
    ASSUME Dialog, [SubmitNext]_submitVars
    PROVE  GoneHidesProgress' /\ Followed'
<1>1. SubmitTypeOK /\ GoneHidesProgress /\ SawFailure /\ PostedOnce /\ Followed
    BY DEF Dialog
<1>2. (\E n \in Attempt : task[n] = "failed") => (\E n \in Attempt : task'[n] = "failed")
    BY <1>1, FailureStays
<1>3. CASE UNCHANGED submitVars
    BY <1>1, <1>3 DEF submitVars, requests, timers, screen, GoneHidesProgress, Followed
<1>4. CASE Analyze \/ DialogCancel
    BY <1>1, <1>4 DEF Analyze, DialogCancel, requests, timers, screen, GoneHidesProgress, Followed
<1>5. ASSUME NEW n, NEW chosen, SubmitAnalysis(n, chosen), onPage' = onPage
      PROVE  GoneHidesProgress' /\ Followed'
    BY <1>1, <1>5 DEF SubmitAnalysis, Show, GoneHidesProgress, Followed
<1>6. CASE DialogOk
    BY <1>5, <1>6 DEF DialogOk
<1>7. CASE Leave
    BY <1>7 DEF Leave, PageLeft, Hidden, GoneHidesProgress, Followed
<1>8. ASSUME NEW n \in Attempt, Match(n) PROVE GoneHidesProgress' /\ Followed'
    <2>1. CASE MatchedOne(n)
        BY <1>5, <2>1 DEF MatchedOne
    <2>2. CASE MatchedMany(n) \/ MatchFailed(n)
        BY <1>1, <2>2 DEF MatchedMany, MatchFailed, timers, screen, GoneHidesProgress, Followed
    <2> QED
        BY <1>8, <2>1, <2>2 DEF Match
<1>9. ASSUME NEW p \in posts, PostAccepted(p) PROVE GoneHidesProgress' /\ Followed'
    <2>1. delays' # {} /\ onPage' = onPage /\ (~onPage => progress' = progress)
        BY <1>9 DEF PostAccepted, Show
    <2> QED
        BY <1>1, <2>1 DEF GoneHidesProgress, Followed
<1>10. ASSUME NEW p \in posts, PostRefused(p) PROVE GoneHidesProgress' /\ Followed'
    <2>1. ~progress'.visible
        BY <1>1, <1>10 DEF PostRefused, Show, GoneHidesProgress, SubmitTypeOK
    <2> QED
        BY <2>1 DEF GoneHidesProgress, Followed
<1>11. ASSUME NEW n \in Attempt, DelayOver(n) PROVE GoneHidesProgress' /\ Followed'
    BY <1>1, <1>11 DEF DelayOver, screen, GoneHidesProgress, Followed
<1>12. ASSUME NEW n \in Attempt, Tick(n) PROVE GoneHidesProgress' /\ Followed'
    BY <1>1, <1>12 DEF Tick, timers, screen, GoneHidesProgress, Followed
<1>13. ASSUME NEW n \in Attempt, OpenResults(n) PROVE GoneHidesProgress' /\ Followed'
    <2>1. ~progress'.visible
        BY <1>1, <1>13 DEF OpenResults, PageLeft, Hidden, screen, GoneHidesProgress
    <2> QED
        BY <2>1 DEF GoneHidesProgress, Followed
<1>14. ASSUME NEW n \in Attempt, TaskEnds(n) PROVE GoneHidesProgress' /\ Followed'
    BY <1>1, <1>2, <1>14 DEF TaskEnds, requests, timers, screen, GoneHidesProgress, Followed
<1>15. ASSUME NEW p \in polls, PollEnds(p) PROVE GoneHidesProgress' /\ Followed'
    <2>1. /\ progress'.visible = progress.visible /\ onPage' = onPage
          /\ UNCHANGED <<posts, delays, task>>
        BY <1>1, <1>15 DEF PollEnds, PollPending, PollCompleted, PollFailed, PollLost, Show,
                           timers, screen, SubmitTypeOK
    <2>2. GoneHidesProgress'
        BY <1>1, <2>1 DEF GoneHidesProgress
    <2>3. p.of \in Attempt
        BY <1>1 DEF SubmitTypeOK, Poll
    <2>4. CASE PollPending(p) \/ PollLost(p)
        BY <1>1, <2>1, <2>2, <2>4 DEF PollPending, PollLost, timers, Followed
    <2>5. CASE PollCompleted(p)
        <3>1. leaving'[p.of] > 0
            BY <1>1, <2>3, <2>5, SubmitAssumption DEF PollCompleted, SubmitTypeOK
        <3> QED
            BY <2>2, <2>3, <3>1 DEF Followed
    <2>6. CASE PollFailed(p)
        <3>1. task'[p.of] = "failed"
            BY <1>1, <2>1, <2>6 DEF PollFailed, SawFailure
        <3> QED
            BY <2>2, <2>3, <3>1 DEF Followed
    <2> QED
        BY <1>15, <2>4, <2>5, <2>6 DEF PollEnds
<1> QED
    BY <1>3, <1>4, <1>6, <1>7, <1>8, <1>9, <1>10, <1>11, <1>12, <1>13, <1>14, <1>15
       DEF SubmitNext, PostEnds

\* Every step keeps what is known of the dialog.
LEMMA DialogNext == Dialog /\ [SubmitNext]_submitVars => Dialog'
    BY TypeNext, PostedOnceNext, SawFailureNext, FollowedNext DEF Dialog

\* The progress dialog, which the user cannot close, is stuck only after a task has
\* failed, however often the user clicks, leaves, and whatever requests fail.
THEOREM DialogStuckByFailure == SubmitSpec => []StuckNeedsFailure
<1>1. Dialog => StuckNeedsFailure
    BY DEF Dialog, Followed, StuckNeedsFailure, Alive
<1> QED
    BY <1>1, DialogInit, DialogNext, PTL DEF SubmitSpec
=============================================================================
