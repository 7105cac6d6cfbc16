--------------------------- MODULE ConsumerPipeline ---------------------------
(***************************************************************************)
(* The consuming half of kafka-consumer: the consumer threads              *)
(* (consumer/base.py) and the one ESWriter they share without a lock       *)
(* (es_writer.py, created once in main.py).  A thread polls its topic,     *)
(* turns a message into a document, appends it to the writer's buffer,     *)
(* flushes the buffer when it is full or stale, and commits the offset.    *)
(*                                                                         *)
(* A message is the pair <<consumer, offset>>; the document that carries   *)
(* its SQL has the same name, because a document's _id is computed from    *)
(* the content of that message alone.  What process_message does with a    *)
(* message depends on its kind in Topic, under PairingContract; the        *)
(* pairing itself is in PgPairing and UdalPairing.                         *)
(***************************************************************************)
EXTENDS Naturals, Sequences, Functions, PairingContract

CONSTANTS
    Consumer,      \* the consumer threads of the process
    Topic,         \* for each consumer, the kinds of its topic's messages
    BatchSize,     \* es_batch_size: the buffer length that forces a flush
    MaxCrashes,    \* bound on crashes (a crash restarts the process)
    MaxFailures    \* bound on bulk requests and commits that raise

\* Why a document may never reach the index.
Reason == {"displaced", "overlap", "refused", "killed"}

ASSUME ConsumerAssumption ==
    /\ Topic \in [Consumer -> Seq(Kind)]
    /\ BatchSize \in Nat \ {0}
    /\ MaxCrashes \in Nat
    /\ MaxFailures \in Nat

Message == Consumer \X Nat

VARIABLES
    position,   \* next offset to fetch, minus one: what a commit would store
    committed,  \* the offset stored in Kafka: survives a crash
    held,       \* messages kept unpaired (pending_sql_by_key / merger.pending)
    aged,       \* the held messages older than the pairing timeout
    due,        \* timed-out messages flush_pending has still to add
    pc, ret,    \* where each thread is, and where its flush() returns to
    batch,      \* what each thread's helpers.bulk has read from the buffer
    actions,    \* ESWriter.actions, the shared buffer
    stale,      \* flush_interval has passed since _last_flush
    stopping,   \* the stop events are set
    indexed,    \* documents in Elasticsearch: survive a crash
    crashes, failures,
    lost,       \* history: documents that a known hazard may have dropped
    handed      \* history: what was appended since the process started

memory == <<held, aged, due>>
thread == <<pc, ret, batch>>
writer == <<actions, handed, stale>>
budget == <<crashes, failures>>
vars == <<position, committed, memory, thread, writer, stopping, indexed,
          budget, lost>>

PC == {"loop", "poll", "added", "flush", "bulk", "clear", "commit", "expire", "drain",
       "closed"}

\* Where a flush() or an add() may have been called from.
Return == {"loop", "commit", "expire", "drain", "closed"}

TypeOK ==
    /\ position \in [Consumer -> Nat]
    /\ committed \in [Consumer -> Nat]
    /\ held \in [Consumer -> SUBSET Message]
    /\ aged \in [Consumer -> SUBSET Message]
    /\ due \in [Consumer -> SUBSET Message]
    /\ pc \in [Consumer -> PC]
    /\ ret \in [Consumer -> Return]
    /\ batch \in [Consumer -> Seq(Message)]
    /\ actions \in Seq(Message)
    /\ stale \in BOOLEAN
    /\ stopping \in BOOLEAN
    /\ indexed \in SUBSET Message
    /\ crashes \in Nat
    /\ failures \in Nat
    /\ lost \in [Reason -> SUBSET Message]
    /\ handed \in Seq(Message)

Init ==
    /\ position = [c \in Consumer |-> 0]
    /\ committed = [c \in Consumer |-> 0]
    /\ held = [c \in Consumer |-> {}]
    /\ aged = [c \in Consumer |-> {}]
    /\ due = [c \in Consumer |-> {}]
    /\ pc = [c \in Consumer |-> "loop"]
    /\ ret = [c \in Consumer |-> "loop"]
    /\ batch = [c \in Consumer |-> <<>>]
    /\ actions = <<>>
    /\ stale = FALSE
    /\ stopping = FALSE
    /\ indexed = {}
    /\ crashes = 0
    /\ failures = 0
    /\ lost = [r \in Reason |-> {}]
    /\ handed = <<>>

-----------------------------------------------------------------------------
(* The thread's program counter and the operations several steps share.    *)

Goto(c, there) == pc' = [pc EXCEPT ![c] = there]

\* Call flush() (or the append that may call it) and come back at `back`.
Call(c, there, back) ==
    /\ pc' = [pc EXCEPT ![c] = there]
    /\ ret' = [ret EXCEPT ![c] = back]

\* Some other thread is between reading the buffer and clearing it.
Flushing(c) == \E o \in Consumer \ {c} : pc[o] \in {"bulk", "clear"}

\* The document is in the buffer, and on record as handed over.
Hand(d) ==
    /\ actions' = Append(actions, d)
    /\ handed' = Append(handed, d)

\* ESWriter.add, up to the append.
Add(c, d) ==
    /\ Hand(d)
    /\ lost' = [lost EXCEPT !["overlap"] = IF Flushing(c) THEN @ \cup {d} ELSE @]

\* process_message: keep and drop as the outcome says; add its document.
Process(c, kind, o) ==
    /\ held' = [held EXCEPT ![c] = o.kept]
    /\ aged' = [aged EXCEPT ![c] = @ \cap o.kept]
    /\ IF o.doc = {}
       THEN /\ Goto(c, IF kind = "poison" THEN "loop" ELSE "commit")
            /\ lost' = [lost EXCEPT !["displaced"] = @ \cup o.gone]
            /\ UNCHANGED <<ret, actions, handed>>
       ELSE /\ Call(c, "added", "commit")
            /\ \E d \in o.doc : Hand(d)
            /\ lost' = [lost EXCEPT !["displaced"] = @ \cup o.gone,
                                    !["overlap"] = IF Flushing(c) THEN @ \cup o.doc ELSE @]

\* The loop finds its stop event unset and calls poll(), which takes up to a
\* second: whatever it returns is handled, though a signal came meanwhile.
EnterPoll(c) ==
    /\ pc[c] = "loop"
    /\ ~stopping
    /\ Goto(c, "poll")
    /\ UNCHANGED <<position, committed, memory, ret, batch, writer, stopping,
                   indexed, budget, lost>>

\* poll() returns an error event, or the end of a partition: only counted.
PollFails(c) ==
    /\ pc[c] = "poll"
    /\ Goto(c, "loop")
    /\ UNCHANGED <<position, committed, memory, ret, batch, writer, stopping,
                   indexed, budget, lost>>

\* poll() returns a message and the thread processes it.
Consume(c) ==
    LET m == <<c, position[c] + 1>>
        kind == Topic[c][position[c] + 1]
    IN  /\ pc[c] = "poll"
        /\ position[c] < Len(Topic[c])
        /\ position' = [position EXCEPT ![c] = @ + 1]
        /\ \E o \in Outcomes(kind, m, held[c]) : Process(c, kind, o)
        /\ UNCHANGED <<committed, due, batch, stale, stopping, indexed, budget>>

-----------------------------------------------------------------------------
(* ESWriter: the size check of add(), and flush().                         *)

\* add() looks at the buffer again: the other thread may have changed it.
CheckSize(c) ==
    /\ pc[c] = "added"
    /\ Goto(c, IF Len(actions) >= BatchSize THEN "flush" ELSE ret[c])
    /\ UNCHANGED <<position, committed, memory, ret, batch, writer, stopping,
                   indexed, budget, lost>>

\* Mutant: one request of at most BatchSize documents, the rest is forgotten.
StartFlushOneChunk(c) ==
    /\ pc[c] = "flush"
    /\ IF actions = <<>>
       THEN Goto(c, ret[c]) /\ UNCHANGED batch
       ELSE /\ Goto(c, "bulk")
            /\ batch' = [batch EXCEPT ![c] =
                  IF Len(actions) < BatchSize THEN actions ELSE SubSeq(actions, 1, BatchSize)]
    /\ UNCHANGED <<position, committed, memory, ret, writer, stopping, indexed,
                   budget, lost>>

\* flush() returns at once on an empty buffer; else helpers.bulk reads it, in
\* chunks of 500 (a buffer longer than that is modelled as one chunk).
StartFlush(c) ==
    /\ pc[c] = "flush"
    /\ IF actions = <<>>
       THEN Goto(c, ret[c]) /\ UNCHANGED batch
       ELSE Goto(c, "bulk") /\ batch' = [batch EXCEPT ![c] = actions]
    /\ UNCHANGED <<position, committed, memory, ret, writer, stopping, indexed,
                   budget, lost>>

BulkSucceeds(c) ==
    /\ pc[c] = "bulk"
    /\ indexed' = indexed \cup Range(batch[c])
    /\ Goto(c, "clear")
    /\ UNCHANGED <<position, committed, memory, ret, batch, writer, stopping,
                   budget, lost>>

\* The bulk request raises: some of the documents may be in, the rest are not.
BulkRaises(c) ==
    /\ pc[c] = "bulk"
    /\ failures < MaxFailures
    /\ failures' = failures + 1
    /\ \E written \in SUBSET Range(batch[c]) :
        /\ indexed' = indexed \cup written
        /\ lost' = [lost EXCEPT !["refused"] = @ \cup (Range(batch[c]) \ written)]
    /\ Goto(c, "clear")
    /\ UNCHANGED <<position, committed, memory, ret, batch, writer, stopping,
                   crashes>>

\* The finally clause: the whole buffer goes, whatever bulk did with it.
Clear(c) ==
    /\ pc[c] = "clear"
    /\ actions' = <<>>
    /\ stale' = FALSE
    /\ batch' = [batch EXCEPT ![c] = <<>>]
    /\ Goto(c, ret[c])
    /\ UNCHANGED <<position, committed, memory, ret, handed, stopping, indexed,
                   budget, lost>>

-----------------------------------------------------------------------------
(* The rest of the loop: commit, the idle branch, the exit.                *)

\* The commit stores the position of the last poll, or raises and is skipped.
Commit(c) ==
    /\ pc[c] = "commit"
    /\ \/ /\ committed' = [committed EXCEPT ![c] = position[c]]
          /\ UNCHANGED failures
       \/ /\ failures < MaxFailures
          /\ failures' = failures + 1
          /\ UNCHANGED committed
    /\ Goto(c, "loop")
    /\ UNCHANGED <<position, memory, ret, batch, writer, stopping, indexed,
                   crashes, lost>>

\* Mutant: maybe_flush never finds its interval passed.
NeverDue == FALSE

\* maybe_flush: there is something to write, and flush_interval has passed.
FlushDue == actions # <<>> /\ stale

\* poll() returns nothing: maybe_flush, then flush_pending.
Idle(c) ==
    /\ pc[c] = "poll"
    /\ IF FlushDue
       THEN Call(c, "flush", "expire")
       ELSE Goto(c, "expire") /\ UNCHANGED ret
    /\ UNCHANGED <<position, committed, memory, batch, writer, stopping,
                   indexed, budget, lost>>

\* Mutant: flush_pending adds the expired messages without popping them, so
\* that the next idle poll finds them expired again.
ExpireKeeping(c) ==
    /\ pc[c] = "expire"
    /\ due' = [due EXCEPT ![c] = aged[c]]
    /\ Goto(c, "drain")
    /\ UNCHANGED <<position, committed, held, aged, ret, batch, writer, stopping,
                   indexed, budget, lost>>

\* Mutant: BaseConsumer.flush_pending, which does nothing, is not overridden.
NoneExpired(c) == {}

\* expired_keys: what has waited longer than the pairing timeout.
Expired(c) == aged[c]

\* flush_pending pops the expired messages ...
Expire(c) ==
    /\ pc[c] = "expire"
    /\ due' = [due EXCEPT ![c] = Expired(c)]
    /\ held' = [held EXCEPT ![c] = @ \ Expired(c)]
    /\ aged' = [aged EXCEPT ![c] = @ \ Expired(c)]
    /\ Goto(c, "drain")
    /\ UNCHANGED <<position, committed, ret, batch, writer, stopping, indexed,
                   budget, lost>>

\* ... and adds those messages, one by one, with the default cost.
Drain(c) ==
    /\ pc[c] = "drain"
    /\ \/ /\ due[c] = {}
          /\ Goto(c, "loop")
          /\ UNCHANGED <<due, ret, actions, handed, lost>>
       \/ \E d \in due[c] :
          /\ due' = [due EXCEPT ![c] = @ \ {d}]
          /\ Add(c, d)
          /\ Call(c, "added", "drain")
    /\ UNCHANGED <<position, committed, held, aged, batch, stale, stopping,
                   indexed, budget>>

\* Mutant: the consumer closes without the last flush.
LeaveWithoutFlush(c) ==
    /\ pc[c] = "loop"
    /\ stopping
    /\ Goto(c, "closed")
    /\ UNCHANGED <<position, committed, memory, ret, batch, writer, stopping,
                   indexed, budget, lost>>

\* The loop sees the stop event: one last flush, then consumer.close().
LeaveLoop(c) ==
    /\ pc[c] = "loop"
    /\ stopping
    /\ Call(c, "flush", "closed")
    /\ UNCHANGED <<position, committed, memory, batch, writer, stopping,
                   indexed, budget, lost>>

-----------------------------------------------------------------------------
(* Time, the signal handler, and the death of the process.                 *)

FlushIntervalPasses ==
    /\ ~stale
    /\ stale' = TRUE
    /\ UNCHANGED <<position, committed, memory, thread, actions, handed,
                   stopping, indexed, budget, lost>>

PairingTimeoutPasses(c) ==
    /\ aged[c] # held[c]
    /\ aged' = [aged EXCEPT ![c] = held[c]]
    /\ UNCHANGED <<position, committed, held, due, thread, writer, stopping,
                   indexed, budget, lost>>

\* SIGTERM or SIGINT: signal_handler sets every component's stop event.
Signal ==
    /\ ~stopping
    /\ stopping' = TRUE
    /\ UNCHANGED <<position, committed, memory, thread, writer, indexed, budget,
                   lost>>

\* What only the process's memory holds.
Volatile ==
    Range(actions) \cup UNION {held[c] \cup due[c] \cup Range(batch[c]) : c \in Consumer}

\* Mutants: the group resumes at the start of the topic, or one message early.
ResumeAtStart(c) == 0
ResumeOneBack(c) == committed[c] - 1

\* Where a consumer group resumes: at the offset it committed.
Resume(c) == committed[c]

\* The process dies (or main's join times out on the daemon threads) and is
\* started again: each consumer resumes from the offset it had committed.
Crash ==
    /\ crashes < MaxCrashes
    /\ crashes' = crashes + 1
    /\ position' = [c \in Consumer |-> Resume(c)]
    /\ held' = [c \in Consumer |-> {}]
    /\ aged' = [c \in Consumer |-> {}]
    /\ due' = [c \in Consumer |-> {}]
    /\ pc' = [c \in Consumer |-> "loop"]
    /\ ret' = [c \in Consumer |-> "loop"]
    /\ batch' = [c \in Consumer |-> <<>>]
    /\ actions' = <<>>
    /\ handed' = <<>>
    /\ stale' = FALSE
    /\ stopping' = FALSE
    /\ lost' = [lost EXCEPT !["killed"] =
                    @ \cup {m \in Volatile \ indexed : m[2] <= committed[m[1]]}]
    /\ UNCHANGED <<committed, indexed, failures>>

Flush(c) == StartFlush(c) \/ BulkSucceeds(c) \/ BulkRaises(c) \/ Clear(c)

Step(c) ==
    \/ EnterPoll(c)
    \/ PollFails(c)
    \/ Consume(c)
    \/ CheckSize(c)
    \/ Flush(c)
    \/ Commit(c)
    \/ Idle(c)
    \/ Expire(c)
    \/ Drain(c)
    \/ LeaveLoop(c)

Next ==
    \/ \E c \in Consumer : Step(c)
    \/ \E c \in Consumer : PairingTimeoutPasses(c)
    \/ FlushIntervalPasses
    \/ Signal
    \/ Crash

Spec == Init /\ [][Next]_vars

\* Threads keep running, clocks keep going, poll() does not return nothing
\* for ever while the topic has messages, and not only errors for ever.
\* Nobody has to send a signal, and nothing has to fail.
Fairness ==
    /\ \A c \in Consumer :
        /\ WF_vars(Step(c))
        /\ SF_vars(Consume(c))
        /\ SF_vars(Idle(c))
        /\ WF_vars(PairingTimeoutPasses(c))
    /\ WF_vars(FlushIntervalPasses)

FairSpec == Spec /\ Fairness
-----------------------------------------------------------------------------
(* Properties.                                                             *)

CarriesSql(c, i) == Topic[c][i] \in SqlKind

\* Where a consumed document is safe: written, or still on its way.
Tracked ==
    indexed \cup Range(actions) \cup
    UNION {held[c] \cup due[c] \cup (IF pc[c] = "bulk" THEN Range(batch[c]) ELSE {})
           : c \in Consumer}

Lost == UNION {lost[r] : r \in Reason}

\* Every SQL row behind a consumer's position is written, still on its way,
\* or was dropped by one of the four known hazards: displaced by a newer row
\* of its key, appended while the other thread was flushing, refused by a bulk
\* request, or in memory with its offset committed when the process died.
\* This is what run(), add(), flush() and process_message promise together.
ConsumedAccounted ==
    \A c \in Consumer : \A i \in 1 .. position[c] :
        CarriesSql(c, i) => <<c, i>> \in Tracked \cup Lost

\* add() and flush() of two threads: when a thread is about to clear the
\* buffer, whatever is in it was written, refused or overlapped that flush.
ClearDropsNothingElse ==
    \A c \in Consumer :
        /\ pc[c] = "bulk" => Range(actions) \subseteq Range(batch[c]) \cup Lost
        /\ pc[c] = "clear" => Range(actions) \subseteq indexed \cup Lost

\* From one start of the process to the next no document is handed to the
\* writer twice, whatever was flushed in between: pairing, displacement and the
\* timeout never release the same row.  And when every consumer has stopped,
\* the last flush left nothing in the buffer, even though the other thread may
\* append after one's final flush, and a poll() may return after the signal.
BufferedOnceAndWritten ==
    /\ IsInjective(handed)
    /\ (\A c \in Consumer : pc[c] = "closed") => actions = <<>>

\* A committed offset never goes back, across crashes and redelivery.
CommittedNeverRewinds ==
    [][\A c \in Consumer : committed'[c] >= committed[c]]_vars

\* The buffer is never stuck below the batch size: it is emptied eventually.
BufferDrains == actions # <<>> ~> actions = <<>>

\* A row that is kept for pairing does not wait for ever: it is paired,
\* displaced, released by the timeout, or the process stops.
HeldReleased ==
    \A c \in Consumer : \A i \in 1 .. Len(Topic[c]) :
        <<c, i>> \in held[c] ~> (<<c, i>> \notin held[c] \/ stopping)

=============================================================================
