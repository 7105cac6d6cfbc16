------------------------------- MODULE LogTail -------------------------------
(***************************************************************************)
(* LogFileProducer (producer/base.py): a thread follows the log file at a  *)
(* path, sends each line to Kafka and saves now and then, in a checkpoint  *)
(* file, the inode and the position it has reached.  The log is rotated    *)
(* under it: the file at the path is renamed or deleted, and a new one     *)
(* created.                                                                *)
(*                                                                         *)
(* Line i of the g-th file is <<g, i>>; a position is a number of lines.   *)
(* The files, their writer and Kafka are external.                         *)
(***************************************************************************)
EXTENDS Naturals, Sequences

CONSTANTS
    MaxFiles,       \* bound on the files there ever are
    MaxSize,        \* bound on the lines of a file
    MaxCrashes,     \* bound on deaths of the process
    MaxSaveFaults,  \* bound on checkpoints that cannot be written
    MaxSendFaults   \* bound on lines that produce() or the broker refuses

ASSUME TailAssumption ==
    /\ MaxFiles \in Nat \ {0}
    /\ MaxSize \in Nat
    /\ MaxCrashes \in Nat
    /\ MaxSaveFaults \in Nat
    /\ MaxSendFaults \in Nat

Inode == 1 .. MaxFiles
None == 0                  \* no inode; no file
Checkpoint == [inode : Inode \cup {None}, position : 0 .. MaxSize]
Line == (1 .. MaxFiles) \X (1 .. MaxSize)

VARIABLES
    files,     \* every file so far: its inode and its number of lines
    path,      \* the file at log_path, or None
    pc,        \* where the thread is
    fh,        \* the file it has open
    inode,     \* current_inode
    pos,       \* _checkpoint_pos; the offset of fh while it reads
    saved,     \* _checkpoint_inode
    due,       \* 30 seconds since the last periodic save
    disk,      \* the checkpoint file; survives a crash
    stopping,  \* _stop_event
    queue,     \* lines in the local queue of the Kafka producer
    delivered, \* lines in the topic; survive a crash
    refused,   \* lines that were logged as failed and given up
    killed,    \* history: lines that were queued when the process died
    crashes, saveFaults, sendFaults

log == <<files, path>>
memory == <<pc, fh, inode, pos, saved, due>>
kafka == <<queue, delivered, refused, killed>>
budget == <<crashes, saveFaults, sendFaults>>
tailVars == <<log, memory, disk, stopping, kafka, budget>>

TailTypeOK ==
    /\ files \in Seq([inode : Inode, size : 0 .. MaxSize])
    /\ Len(files) \in 1 .. MaxFiles
    /\ path \in {None, Len(files)}
    /\ pc \in {"stat", "open", "read", "wait", "stopped"}
    /\ fh \in 0 .. Len(files)
    /\ inode \in Inode \cup {None}
    /\ pos \in 0 .. MaxSize
    /\ saved \in Inode \cup {None}
    /\ due \in BOOLEAN
    /\ disk \in Checkpoint
    /\ stopping \in BOOLEAN
    /\ queue \in SUBSET Line
    /\ delivered \in SUBSET Line
    /\ refused \in SUBSET Line
    /\ killed \in SUBSET Line
    /\ crashes \in 0 .. MaxCrashes
    /\ saveFaults \in 0 .. MaxSaveFaults
    /\ sendFaults \in 0 .. MaxSendFaults

TailInit ==
    /\ files = <<[inode |-> 1, size |-> 0]>> /\ path = 1
    /\ pc = "stat" /\ fh = None /\ inode = None
    /\ pos = 0 /\ saved = None /\ due = TRUE
    /\ disk = [inode |-> None, position |-> 0]
    /\ stopping = FALSE
    /\ queue = {} /\ delivered = {} /\ refused = {} /\ killed = {}
    /\ crashes = 0 /\ saveFaults = 0 /\ sendFaults = 0

-----------------------------------------------------------------------------
(* The log: the database writes to the newest file, even when that was     *)
(* renamed already; an inode is free once its file is neither at the path  *)
(* nor open.                                                               *)

Write ==
    /\ files[Len(files)].size < MaxSize
    /\ files' = [files EXCEPT ![Len(files)].size = @ + 1]
    /\ UNCHANGED <<path, memory, disk, stopping, kafka, budget>>

Remove ==
    /\ path # None /\ Len(files) < MaxFiles
    /\ path' = None
    /\ UNCHANGED <<files, memory, disk, stopping, kafka, budget>>

FreeInodes ==
    {Len(files) + 1} \cup {files[g].inode : g \in (1 .. Len(files)) \ {fh}}

Create ==
    /\ path = None
    /\ \E i \in FreeInodes : files' = Append(files, [inode |-> i, size |-> 0])
    /\ path' = Len(files) + 1
    /\ UNCHANGED <<memory, disk, stopping, kafka, budget>>

-----------------------------------------------------------------------------
(* Kafka's producer delivers in the background, or gives a line up.        *)

Deliver ==
    /\ \E l \in queue :
        /\ queue' = queue \ {l}
        /\ \/ delivered' = delivered \cup {l} /\ UNCHANGED <<refused, sendFaults>>
           \/ /\ sendFaults < MaxSendFaults /\ sendFaults' = sendFaults + 1
              /\ refused' = refused \cup {l} /\ UNCHANGED delivered
    /\ UNCHANGED <<log, memory, disk, stopping, killed, crashes, saveFaults>>

\* _send: produce() queues the line, or raises, which is logged.
Send(l) ==
    /\ UNCHANGED <<delivered, killed>>
    /\ \/ queue' = queue \cup {l} /\ UNCHANGED <<refused, sendFaults>>
       \/ /\ sendFaults < MaxSendFaults /\ sendFaults' = sendFaults + 1
          /\ refused' = refused \cup {l} /\ UNCHANGED queue

-----------------------------------------------------------------------------
(* _save_checkpoint.                                                       *)

\* open(..., "w") has emptied the file when the dump fails; it may fail before.
Save(i, p) ==
    \/ /\ disk' = [inode |-> i, position |-> p]
       /\ saved' = i
       /\ UNCHANGED saveFaults
    \/ /\ saveFaults < MaxSaveFaults /\ saveFaults' = saveFaults + 1
       /\ disk' \in {disk, [inode |-> None, position |-> 0]}
       /\ UNCHANGED saved

NoSave == UNCHANGED <<disk, saved, saveFaults>>

(* _tail_file.                                                             *)

\* Mutant: a rotation is never seen when the file is opened.
NeverRotated(i) == FALSE

\* The inode at the path differs from the one saved: read from the start.
Rotated(i) == saved # None /\ i # saved

Stat ==
    /\ pc = "stat" /\ ~stopping /\ path # None
    /\ inode' = files[path].inode
    /\ pos' = IF Rotated(inode') THEN 0 ELSE pos
    /\ pc' = "open"
    /\ UNCHANGED <<log, fh, saved, due, disk, stopping, kafka, budget>>

\* open() and seek(): the path may have changed since stat().
Open ==
    /\ pc = "open"
    /\ fh' = path
    /\ pc' = IF path = None THEN "stat" ELSE "read"
    /\ UNCHANGED <<log, inode, pos, saved, due, disk, stopping, kafka, budget>>

ReadLine ==
    /\ pc = "read" /\ ~stopping /\ pos < files[fh].size
    /\ pos' = pos + 1
    /\ Send(<<fh, pos + 1>>)
    /\ IF due THEN Save(inode, pos + 1) ELSE NoSave
    /\ due' = FALSE
    /\ UNCHANGED <<log, pc, fh, inode, stopping, crashes>>

\* readline() returns nothing, also behind the end of the file.
EndOfFile ==
    /\ pc = "read" /\ ~stopping /\ pos >= files[fh].size
    /\ pc' = "wait"
    /\ UNCHANGED <<log, fh, inode, pos, saved, due, disk, stopping, kafka, budget>>

\* Mutant: the open file is read on, whatever is at the path.
NeverLook ==
    /\ pc = "wait"
    /\ pc' = "read"
    /\ UNCHANGED <<log, fh, inode, pos, saved, due, disk, stopping, kafka, budget>>

\* After the pause: is it still the same file?
Look ==
    /\ pc = "wait"
    /\ \/ /\ path # None /\ files[path].inode = inode
          /\ pc' = "read" /\ UNCHANGED fh /\ NoSave
       \/ /\ path # None /\ files[path].inode # inode
          /\ Save(inode, pos)
          /\ pc' = "stat" /\ fh' = None
       \/ /\ path = None
          /\ pc' = "stat" /\ fh' = None /\ NoSave
    /\ UNCHANGED <<log, inode, pos, due, stopping, kafka, crashes, sendFaults>>

\* The loops see the stop event; the reading one saves a last checkpoint.
LeaveLoop ==
    /\ stopping
    /\ \/ pc = "read" /\ Save(inode, pos)
       \/ pc = "stat" /\ NoSave
    /\ pc' = "stopped" /\ fh' = None
    /\ UNCHANGED <<log, inode, pos, due, stopping, kafka, crashes, sendFaults>>

SaveIntervalPasses ==
    /\ ~due
    /\ due' = TRUE
    /\ UNCHANGED <<log, pc, fh, inode, pos, saved, disk, stopping, kafka, budget>>

Signal ==
    /\ ~stopping
    /\ stopping' = TRUE
    /\ UNCHANGED <<log, memory, disk, kafka, budget>>

\* The process dies and is started again: _load_checkpoint.
Crash ==
    /\ crashes < MaxCrashes
    /\ crashes' = crashes + 1
    /\ pc' = "stat" /\ fh' = None /\ inode' = None
    /\ pos' = disk.position /\ saved' = disk.inode /\ due' = TRUE
    /\ stopping' = FALSE
    /\ queue' = {} /\ killed' = killed \cup queue
    /\ UNCHANGED <<log, disk, delivered, refused, saveFaults, sendFaults>>

Step == Stat \/ Open \/ ReadLine \/ EndOfFile \/ Look \/ LeaveLoop

TailNext ==
    \/ Write \/ Remove \/ Create
    \/ Deliver
    \/ Step
    \/ SaveIntervalPasses
    \/ Signal
    \/ Crash

TailSpec == TailInit /\ [][TailNext]_tailVars

\* The thread runs.
TailFairSpec == TailSpec /\ WF_tailVars(Step)
-----------------------------------------------------------------------------
(* Properties.                                                             *)

\* What has been handed to Kafka's producer, whatever became of it.
Sent == queue \cup delivered \cup refused \cup killed

\* A file that has the inode number of an earlier one.
Reused(f) == \E g \in 1 .. f - 1 : files[g].inode = files[f].inode

\* The lines of the open file that the thread has behind it, and never sent.
\* (Between stat and open the path may change; then the inodes differ, and the
\* file will be read again.)
Skipped ==
    IF pc \in {"read", "wait"} /\ inode = files[fh].inode
    THEN {<<fh, i>> : i \in {j \in 1 .. files[fh].size : j <= pos}} \ Sent
    ELSE {}

\* The position runs ahead of what was sent only in a file with a reused inode
\* number, or after a checkpoint could not be written: rotations, crashes, and
\* checkpoints of other files never make _tail_file skip a line.
SkipsExplained ==
    /\ TailTypeOK
    /\ Skipped # {} => Reused(fh) \/ saveFaults > 0

\* A line of the file at the path is sent, unless the file is rotated away,
\* has the inode number of another, or the producer is stopped: no order of
\* stat, open, reads, rotations and crashes leaves the thread behind a line
\* for ever.
LineSent ==
    \A l \in Line :
        path = l[1] /\ l[2] <= files[l[1]].size
            ~> \/ l \in Sent
               \/ path # l[1] \/ Reused(l[1])
               \/ saveFaults > 0
               \/ stopping
=============================================================================
