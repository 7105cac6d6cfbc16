----------------------------- MODULE UdalPairing -----------------------------
(***************************************************************************)
(* UdalConsumer.process_message (udal_consumer.py) and UdalEventMerger     *)
(* (udal_merger.py), fed by the audit log of a UDAL proxy.  The proxy logs *)
(* RECEIVE_REQUEST when a request comes in and END_REQUEST with the cost   *)
(* when it is done; any number of requests are open at a time, and the     *)
(* proxy may use a request id again once its request is done.              *)
(*                                                                         *)
(* Use n of id r is named <<r, n>>; the pending dictionary, keyed by id,   *)
(* is the set of the names in it.                                          *)
(***************************************************************************)
EXTENDS Naturals

CONSTANTS
    Id,        \* request ids
    MaxUse,    \* bound on the uses of an id
    MaxLost    \* bound on the events that never reach the topic

ASSUME UdalAssumption == MaxUse \in Nat /\ MaxLost \in Nat

Request == Id \X (1 .. MaxUse)

\* A document: its request, and the request its cost came from; no request
\* stands for default_cost_ms.
Document == [sql : Request, cost : SUBSET Request]

VARIABLES
    used,        \* how often each id has been used
    open,        \* the ids whose request is being served
    pending,     \* UdalEventMerger.pending
    aged,        \* the pending requests older than the timeout
    docs,        \* the documents built
    dropped,     \* requests taken from pending without a document
    unfinished,  \* requests whose cost never arrived, or was not a number
    losses

proxy == <<used, open>>
vars == <<proxy, pending, aged, docs, dropped, unfinished, losses>>

TypeOK ==
    /\ used \in [Id -> 0 .. MaxUse]
    /\ open \in SUBSET Id
    /\ pending \in SUBSET Request
    /\ aged \in SUBSET pending
    /\ docs \in SUBSET Document
    /\ dropped \in SUBSET Request
    /\ unfinished \in SUBSET Request
    /\ losses \in 0 .. MaxLost

Init ==
    /\ used = [r \in Id |-> 0]
    /\ open = {} /\ pending = {} /\ aged = {}
    /\ docs = {} /\ dropped = {} /\ unfinished = {}
    /\ losses = 0

-----------------------------------------------------------------------------
(* The events, as add_event handles them.                                  *)

\* Mutant: one slot for all ids.
AtAny(r) == pending

At(r) == {q \in pending : q[1] = r}

Build(sql, cost) == docs' = docs \cup {[sql |-> sql, cost |-> cost]}

Lose == losses < MaxLost /\ losses' = losses + 1 /\ UNCHANGED <<pending, docs, dropped>>

\* pending[request_id] = event: an older request of the same id is overwritten.
Store(q) ==
    /\ pending' = (pending \ At(q[1])) \cup {q}
    /\ dropped' = dropped \cup At(q[1])
    /\ UNCHANGED docs

\* pending.pop, then _merge: float(cost) may raise when the request is out of
\* pending already; an END without its request is ignored.
Pop(q, numeric) ==
    /\ pending' = pending \ At(q[1])
    /\ IF numeric
       THEN /\ docs' = docs \cup {[sql |-> p, cost |-> {q}] : p \in At(q[1])}
            /\ UNCHANGED dropped
       ELSE /\ dropped' = dropped \cup At(q[1])
            /\ UNCHANGED docs

\* collected_at goes with its request.
Forget == aged' = aged \cap pending'

\* RECEIVE_REQUEST: clean_sql keeps its SQL, or drops it (BEGIN, SET, ...).
Receive(r) ==
    /\ r \notin open /\ used[r] < MaxUse
    /\ used' = [used EXCEPT ![r] = @ + 1]
    /\ open' = open \cup {r}
    /\ \/ Store(<<r, used[r] + 1>>) /\ UNCHANGED losses
       \/ UNCHANGED <<pending, docs, dropped, losses>>
       \/ Lose
    /\ Forget
    /\ UNCHANGED unfinished

\* END_REQUEST, with a cost that is a number or not.
End(r) ==
    LET q == <<r, used[r]>>
    IN  /\ r \in open
        /\ open' = open \ {r}
        /\ \/ Pop(q, TRUE) /\ UNCHANGED <<unfinished, losses>>
           \/ Pop(q, FALSE) /\ unfinished' = unfinished \cup {q} /\ UNCHANGED losses
           \/ Lose /\ unfinished' = unfinished \cup {q}
        /\ Forget
        /\ UNCHANGED used

TimeoutPasses ==
    /\ aged # pending
    /\ aged' = pending
    /\ UNCHANGED <<proxy, pending, docs, dropped, unfinished, losses>>

\* Mutant: the expired requests are returned, but not deleted.
AllLeft == pending

\* del self.pending[rid], for the expired ids.
Left == pending \ aged

\* flush_expired: the expired requests become documents with the default cost.
FlushExpired ==
    /\ aged # {}
    /\ docs' = docs \cup {[sql |-> q, cost |-> {}] : q \in aged}
    /\ pending' = Left
    /\ aged' = {}
    /\ UNCHANGED <<proxy, dropped, unfinished, losses>>

Next ==
    \/ \E r \in Id : Receive(r)
    \/ \E r \in Id : End(r)
    \/ TimeoutPasses
    \/ FlushExpired

Spec == Init /\ [][Next]_vars
-----------------------------------------------------------------------------
(* Properties.                                                             *)

\* A request becomes at most one document, and a cost is spent on one: a
\* request that timed out is out of pending before its END comes.
SpentOnce ==
    \A d, e \in docs : d # e => d.sql # e.sql /\ d.cost \cap e.cost = {}

\* A document has the cost of its own request, however many requests are open,
\* time out, or use an id again; it takes a lost END for two uses of one id
\* to be mixed up.
RightCost == losses = 0 => \A d \in docs : d.cost \subseteq {d.sql}

\* A request is dropped only if its cost never came or was not a number: the
\* overwrite in add_event never hits a request that was still to end.
DroppedNeverFinished == dropped \subseteq unfinished

\* The merger's table and what became of its requests, in every state.
TablesConsistent == TypeOK /\ SpentOnce /\ DroppedNeverFinished

\* The merger implements the pairing the consumer loop relies on.
Abstract == INSTANCE Pairing WITH
    Sql <- Request,
    kept <- pending,
    released <- {d.sql : d \in docs},
    dropped <- dropped

ImplementsPairing == Abstract!Spec
=============================================================================
