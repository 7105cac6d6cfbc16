------------------------------ MODULE PgPairing ------------------------------
(***************************************************************************)
(* PgConsumer.process_message and flush_pending (pg_consumer.py), fed by   *)
(* the log of a PostgreSQL server.  A server process (a pid) runs its      *)
(* statements one after another.  It logs a statement as two rows, one     *)
(* with the SQL when it starts and one with the duration when it ends, or  *)
(* as one row with both when it ends; a statement that fails never gets a  *)
(* duration.  The rows of a pid reach the consumer in the order of the     *)
(* log, or not at all when the producer lost them.                         *)
(*                                                                         *)
(* Statement n of pid p is named <<p, n>>, and so are its SQL and its      *)
(* duration.  A dictionary keyed by pid is the set of the names in it.     *)
(***************************************************************************)
EXTENDS Naturals

CONSTANTS
    Pid,           \* the server processes, which are the keys
    Category,      \* the sorts of statement the server runs
    MaxStatement,  \* bound on the statements of a pid
    MaxExpiry,     \* bound on the expiries of pending SQL
    MaxLost        \* bound on the rows that never reach the topic

\* "business"   the row's SQL is extracted and wanted
\* "filtered"   the SQL is a heartbeat or of a framework table
\* "control"    normalize_sql extracts no SQL: BEGIN, a parse or bind phase,
\*              or the first line of a statement that was cut
ASSUME PgAssumption ==
    /\ Category \subseteq {"business", "filtered", "control"}
    /\ MaxStatement \in Nat
    /\ MaxExpiry \in Nat
    /\ MaxLost \in Nat

Statement == Pid \X (1 .. MaxStatement)

\* A document: its statement, and the statement its query_time came from; no
\* statement stands for default_query_time.
Document == [sql : Statement, cost : SUBSET Statement]

VARIABLES
    begun,            \* how many statements each pid has started
    running,          \* what each pid runs: "none", or a category
    pendingSql,       \* pending_sql_by_key
    pendingDuration,  \* pending_duration_by_key
    aged,             \* the pending SQL older than pending_timeout
    docs,             \* the documents built
    dropped,          \* SQL popped from pendingSql without a document
    unfinished,       \* statements whose duration never reached the consumer
    muddled,          \* history: pids that had a row lost or ignored, or SQL
                      \* that timed out
    expiries, losses

server == <<begun, running>>
table == <<pendingSql, pendingDuration, aged>>
vars == <<server, table, docs, dropped, unfinished, muddled, expiries, losses>>

TypeOK ==
    /\ begun \in [Pid -> 0 .. MaxStatement]
    /\ running \in [Pid -> Category \cup {"none"}]
    /\ pendingSql \in SUBSET Statement
    /\ pendingDuration \in SUBSET Statement
    /\ aged \in SUBSET pendingSql
    /\ docs \in SUBSET Document
    /\ dropped \in SUBSET Statement
    /\ unfinished \in SUBSET Statement
    /\ muddled \in SUBSET Pid
    /\ expiries \in 0 .. MaxExpiry
    /\ losses \in 0 .. MaxLost

Init ==
    /\ begun = [p \in Pid |-> 0]
    /\ running = [p \in Pid |-> "none"]
    /\ pendingSql = {} /\ pendingDuration = {} /\ aged = {}
    /\ docs = {} /\ dropped = {} /\ unfinished = {} /\ muddled = {}
    /\ expiries = 0 /\ losses = 0

-----------------------------------------------------------------------------
(* process_message, by what extract_sql and extract_duration_ms found.     *)

\* Mutant: one slot for all pids.
AtAny(dict, p) == dict

At(dict, p) == {s \in dict : s[1] = p}

\* Mutant: get(p) where the code has pop(p).
GetOnly(dict, p) == dict

\* pop(p) leaves the other keys.
Without(dict, p) == dict \ At(dict, p)

\* build_pg_es_doc: cost is what _pop_duration returned.
Build(sql, cost) == docs' = docs \cup {[sql |-> sql, cost |-> cost]}

\* _flush_pending(p): the pending SQL of p goes, a duration with it, and the
\* document it returns is used by neither caller.
DurationLeft(p) ==
    IF At(pendingSql, p) = {} THEN pendingDuration ELSE Without(pendingDuration, p)

DropPending(p) == dropped' = dropped \cup At(pendingSql, p)

\* SQL and duration in one row.
WholeRow(s) ==
    /\ DropPending(s[1])
    /\ pendingSql' = Without(pendingSql, s[1])
    /\ pendingDuration' = DurationLeft(s[1])
    /\ Build(s, {s})

\* SQL alone: a document if a duration of the pid waits, else it is kept.
SqlRow(s) ==
    /\ DropPending(s[1])
    /\ LET waiting == At(DurationLeft(s[1]), s[1])
       IN  \/ /\ waiting # {}
              /\ pendingDuration' = DurationLeft(s[1]) \ waiting
              /\ pendingSql' = Without(pendingSql, s[1])
              /\ Build(s, waiting)
           \/ /\ waiting = {}
              /\ pendingDuration' = DurationLeft(s[1])
              /\ pendingSql' = Without(pendingSql, s[1]) \cup {s}
              /\ UNCHANGED docs

\* A duration alone: it completes the pending SQL of the pid, or is kept.
DurationRow(s) ==
    /\ \/ /\ At(pendingSql, s[1]) # {}
          /\ \E sql \in At(pendingSql, s[1]) : Build(sql, {s})
          /\ pendingSql' = Without(pendingSql, s[1])
          /\ UNCHANGED pendingDuration
       \/ /\ At(pendingSql, s[1]) = {}
          /\ pendingDuration' = Without(pendingDuration, s[1]) \cup {s}
          /\ UNCHANGED <<pendingSql, docs>>
    /\ UNCHANGED dropped

Ignored == UNCHANGED <<pendingSql, pendingDuration, docs, dropped>>

-----------------------------------------------------------------------------
(* The rows a statement leads to.  Each is processed, or lost before the   *)
(* topic; a heartbeat's SQL is filtered out, and so is a row with both.    *)

StatementRow(s, cat) ==
    \/ cat = "business" /\ SqlRow(s)
    \/ cat # "business" /\ Ignored

JoinedRow(s, cat) ==
    \/ cat = "business" /\ WholeRow(s)
    \/ cat = "filtered" /\ Ignored
    \/ cat = "control" /\ DurationRow(s)

\* collected_at goes with its row.
Forget == aged' = aged \cap pendingSql'

Lose == losses < MaxLost /\ losses' = losses + 1 /\ Ignored

Muddle(p) == muddled' = muddled \cup {p}

\* A statement starts, and its first row is logged.
Begin(p, cat) ==
    LET s == <<p, begun[p] + 1>>
    IN  /\ running[p] = "none" /\ begun[p] < MaxStatement
        /\ begun' = [begun EXCEPT ![p] = @ + 1]
        /\ running' = [running EXCEPT ![p] = cat]
        /\ \/ /\ StatementRow(s, cat)
              /\ IF cat = "business" THEN UNCHANGED muddled ELSE Muddle(p)
              /\ UNCHANGED losses
           \/ Lose /\ Muddle(p)
        /\ Forget
        /\ UNCHANGED <<unfinished, expiries>>

\* It ends: the row with its duration.
Finish(p) ==
    LET s == <<p, begun[p]>>
    IN  /\ running[p] # "none"
        /\ running' = [running EXCEPT ![p] = "none"]
        /\ \/ DurationRow(s) /\ UNCHANGED <<losses, muddled, unfinished>>
           \/ Lose /\ Muddle(p) /\ unfinished' = unfinished \cup {s}
        /\ Forget
        /\ UNCHANGED <<begun, expiries>>

\* It fails: an ERROR row, which is no SQL event level, and no duration.
Fail(p) ==
    /\ running[p] # "none"
    /\ running' = [running EXCEPT ![p] = "none"]
    /\ unfinished' = unfinished \cup {<<p, begun[p]>>}
    /\ UNCHANGED <<begun, table, docs, dropped, muddled, expiries, losses>>

\* It was logged when it ended, as one row.
Joined(p, cat) ==
    LET s == <<p, begun[p] + 1>>
    IN  /\ running[p] = "none" /\ begun[p] < MaxStatement
        /\ begun' = [begun EXCEPT ![p] = @ + 1]
        /\ \/ /\ JoinedRow(s, cat)
              /\ IF cat = "business" THEN UNCHANGED muddled ELSE Muddle(p)
              /\ UNCHANGED losses
           \/ Lose /\ Muddle(p)
        /\ Forget
        /\ UNCHANGED <<running, unfinished, expiries>>

TimeoutPasses ==
    /\ aged # pendingSql
    /\ aged' = pendingSql
    /\ UNCHANGED <<server, pendingSql, pendingDuration, docs, dropped,
                   unfinished, muddled, expiries, losses>>

\* flush_pending: documents for the expired SQL, with the duration that
\* _pop_duration finds.
FlushPending ==
    /\ aged # {} /\ expiries < MaxExpiry
    /\ expiries' = expiries + 1
    /\ docs' = docs \cup {[sql |-> s, cost |-> At(pendingDuration, s[1])] : s \in aged}
    /\ pendingSql' = pendingSql \ aged
    /\ pendingDuration' = {d \in pendingDuration : At(aged, d[1]) = {}}
    /\ aged' = {}
    /\ muddled' = muddled \cup {s[1] : s \in aged}
    /\ UNCHANGED <<server, dropped, unfinished, losses>>

Next ==
    \/ \E p \in Pid, cat \in Category : Begin(p, cat)
    \/ \E p \in Pid : Finish(p)
    \/ \E p \in Pid : Fail(p)
    \/ \E p \in Pid, cat \in Category : Joined(p, cat)
    \/ TimeoutPasses
    \/ FlushPending

Spec == Init /\ [][Next]_vars
-----------------------------------------------------------------------------
(* Properties.                                                             *)

\* SQL and duration of one pid never wait for each other: whichever row comes
\* second takes the first.  (So _pop_duration inside _flush_pending and
\* flush_pending never finds a duration.)
OneSideWaits == \A p \in Pid : At(pendingSql, p) = {} \/ At(pendingDuration, p) = {}

\* A duration is spent on one document, and a statement becomes one document,
\* however rows are lost, filtered and timed out.
SpentOnce ==
    \A d, e \in docs : d # e => d.sql # e.sql /\ d.cost \cap e.cost = {}

\* SQL is dropped only if its own duration never came: _flush_pending throws a
\* document away, but never one that was still to be completed.
DroppedNeverFinished == dropped \subseteq unfinished

\* The two dictionaries and what became of their rows, in every state.
TablesConsistent == TypeOK /\ OneSideWaits /\ SpentOnce /\ DroppedNeverFinished

\* process_message merges the rows of one statement by their pid.  It finds
\* the right duration for every pid whose rows all arrive in time and are
\* wanted, whatever statements fail and whatever happens to the other pids; a
\* filtered statement is enough to give its duration to the next one.
WrongCostExplained ==
    \A d \in docs : d.cost \subseteq {d.sql} \/ d.sql[1] \in muddled

\* The tables of PgConsumer implement the pairing the consumer loop relies on.
Abstract == INSTANCE Pairing WITH
    Sql <- Statement,
    kept <- pendingSql,
    released <- {d.sql : d \in docs},
    dropped <- dropped

ImplementsPairing == Abstract!Spec
=============================================================================
