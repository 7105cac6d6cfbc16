---------------------------- MODULE PairingContract ----------------------------
(***************************************************************************)
(* What consumer/base.py relies on from process_message, whichever         *)
(* consumer implements it: how one message may change the set of messages  *)
(* kept in memory, and which document it may return.  ConsumerPipeline     *)
(* uses this contract; PgPairing and UdalPairing are shown to meet it.     *)
(*                                                                         *)
(* The kinds of message:                                                   *)
(*   "whole"   SQL and cost together: a document at once                   *)
(*   "open"    SQL without a cost: kept in memory until paired             *)
(*   "close"   a cost without SQL: completes a kept message, if any        *)
(*   "noise"   filtered out                                                *)
(*   "poison"  process_message raises                                      *)
(***************************************************************************)

Kind == {"whole", "open", "close", "noise", "poison"}

\* The kinds whose message carries the SQL of a document.
SqlKind == {"whole", "open"}

\* What is kept afterwards, the document returned (if any), and the kept
\* messages that were popped and dropped on the way.
Out(kept, doc, gone) == [kept |-> kept, doc |-> doc, gone |-> gone]

AtMostOneOf(S) == {{}} \cup {{x} : x \in S}

\* A self-contained message: what its key had pending may be dropped unread.
WholeOutcomes(m, H) == {Out(H \ g, {m}, g) : g \in AtMostOneOf(H)}

\* SQL alone is kept, perhaps in the place of the message its key had; or its
\* cost came first, and it is a document at once.
OpenOutcomes(m, H) ==
    {Out((H \ g) \cup {m}, {}, g) : g \in AtMostOneOf(H)} \cup {Out(H, {m}, {})}

\* Mutant: the kept message is popped, but its document is not returned.
CloseReturnsNothing(H) == {Out(H \ {h}, {}, {}) : h \in H} \cup {Out(H, {}, {})}

\* A cost completes a kept message, or finds none.
CloseOutcomes(H) == {Out(H \ {h}, {h}, {}) : h \in H} \cup {Out(H, {}, {})}

\* An exception may come after a kept message was popped.
PoisonOutcomes(H) == {Out(H \ g, {}, g) : g \in AtMostOneOf(H)}

Outcomes(kind, m, H) ==
    CASE kind = "whole" -> WholeOutcomes(m, H)
      [] kind = "open" -> OpenOutcomes(m, H)
      [] kind = "close" -> CloseOutcomes(H)
      [] kind = "noise" -> {Out(H, {}, {})}
      [] kind = "poison" -> PoisonOutcomes(H)
=============================================================================
