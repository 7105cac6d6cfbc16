------------------------------- MODULE Pairing -------------------------------
(***************************************************************************)
(* The pairing a consumer does, seen from outside: one set of kept         *)
(* messages, fed a message at a time under PairingContract, and emptied    *)
(* by the timeout of flush_pending.  PgPairing and UdalPairing implement   *)
(* this specification, each with its own tables and keys.                  *)
(***************************************************************************)
EXTENDS PairingContract

CONSTANT Sql           \* the SQL rows: the messages that can become documents

VARIABLES
    kept,              \* rows waiting for their cost
    released,          \* rows that became documents
    dropped            \* rows that were popped and dropped

vars == <<kept, released, dropped>>

Init == kept = {} /\ released = {} /\ dropped = {}

\* A row can be offered once: its topic delivers it once.
Fresh(m) == m \notin kept \cup released \cup dropped

Process(kind, m) ==
    /\ kind \in SqlKind => Fresh(m)
    /\ \E o \in Outcomes(kind, m, kept) :
        /\ kept' = o.kept
        /\ released' = released \cup o.doc
        /\ dropped' = dropped \cup o.gone

\* flush_pending releases any of the kept rows, with the default cost.
Expire ==
    \E E \in SUBSET kept :
        /\ kept' = kept \ E
        /\ released' = released \cup E
        /\ UNCHANGED dropped

Next ==
    \/ \E kind \in Kind, m \in Sql : Process(kind, m)
    \/ Expire

Spec == Init /\ [][Next]_vars
=============================================================================
