------------------------ MODULE ConsumerPipelineProofs ------------------------
(***************************************************************************)
(* Proofs about ConsumerPipeline, for any number of consumers, topics of   *)
(* any length, and any bounds: type correctness; the accounting (no        *)
(* consumed SQL row goes missing except by one of the four known hazards,  *)
(* and committed offsets never go back); and that the writer is given no   *)
(* document twice and left with none.                                      *)
(***************************************************************************)
EXTENDS ConsumerPipeline, TLAPS

-----------------------------------------------------------------------------
(* Lemmas about the operators of the model.                                *)

\* A message that process_message is given, and those it kept before, are
\* either kept, returned as a document, or dropped with `gone`; nothing else
\* appears; and the SQL of the message itself is never among the dropped.
LEMMA OutcomeKeepsRows ==
    ASSUME NEW kind \in Kind, NEW m, NEW H, NEW o \in Outcomes(kind, m, H)
    PROVE  /\ o.kept \subseteq H \cup {m}
           /\ o.doc \subseteq H \cup {m}
           /\ o.gone \subseteq H
           /\ H \subseteq o.kept \cup o.doc \cup o.gone
           /\ kind \in SqlKind => m \in o.kept \cup o.doc
           /\ \A x, y \in o.doc : x = y
<1>1. CASE kind = "whole"
    BY <1>1 DEF Outcomes, WholeOutcomes, Out, AtMostOneOf
<1>2. CASE kind = "open"
    BY <1>2 DEF Outcomes, OpenOutcomes, Out, AtMostOneOf
<1>3. CASE kind = "close"
    BY <1>3 DEF Outcomes, CloseOutcomes, Out, SqlKind
<1>4. CASE kind = "noise"
    BY <1>4 DEF Outcomes, Out, SqlKind
<1>5. CASE kind = "poison"
    BY <1>5 DEF Outcomes, PoisonOutcomes, Out, AtMostOneOf, SqlKind
<1> QED
    BY <1>1, <1>2, <1>3, <1>4, <1>5 DEF Kind

\* Appending to the buffer adds one document to it, and nothing else.
LEMMA RangeAppend ==
    ASSUME NEW S, NEW s \in Seq(S), NEW d \in S
    PROVE  Range(Append(s, d)) = Range(s) \cup {d}
<1>1. DOMAIN Append(s, d) = DOMAIN s \cup {Len(s) + 1}
    OBVIOUS
<1>2. Append(s, d)[Len(s) + 1] = d
    OBVIOUS
<1>3. \A i \in DOMAIN s : Append(s, d)[i] = s[i]
    OBVIOUS
<1> QED
    BY <1>1, <1>2, <1>3 DEF Range

LEMMA EmptySeq == \A S : <<>> \in Seq(S)
    OBVIOUS

LEMMA RangeEmpty == Range(<<>>) = {}
    BY DEF Range

LEMMA RangeOfSeq ==
    ASSUME NEW S, NEW s \in Seq(S)
    PROVE  Range(s) \subseteq S
    BY DEF Range

-----------------------------------------------------------------------------
(* Type correctness.                                                       *)

\* Every state of the pipeline has the type TypeOK says: the counters, program
\* counters, buffer and message sets of main.py's threads and their writer.
THEOREM TypeCorrect == Spec => []TypeOK
<1>1. Init => TypeOK
    <2> SUFFICES ASSUME Init PROVE TypeOK
        OBVIOUS
    <2>2. /\ batch \in [Consumer -> Seq(Message)]
          /\ actions \in Seq(Message) /\ handed \in Seq(Message)
        BY EmptySeq DEF Init
    <2>3. lost \in [Reason -> SUBSET Message]
        BY DEF Init
    <2> QED
        BY <2>2, <2>3 DEF Init, TypeOK, PC, Return
<1>2. TypeOK /\ [Next]_vars => TypeOK'
    <2> SUFFICES ASSUME TypeOK, [Next]_vars PROVE TypeOK'
        OBVIOUS
    <2> USE ConsumerAssumption
    <2>1. ASSUME NEW c \in Consumer, Consume(c) PROVE TypeOK'
        <3> DEFINE m == <<c, position[c] + 1>>
                   kind == Topic[c][position[c] + 1]
        <3>1. position[c] \in Nat /\ m \in Message /\ kind \in Kind
            BY <2>1 DEF Consume, TypeOK, Message
        <3>2. PICK o \in Outcomes(kind, m, held[c]) : Process(c, kind, o)
            BY <2>1 DEF Consume
        <3> HIDE DEF m, kind
        <3>3. o.kept \in SUBSET Message /\ o.doc \in SUBSET Message
              /\ o.gone \in SUBSET Message
            BY <3>1, <3>2, OutcomeKeepsRows DEF TypeOK
        <3>4. /\ held' \in [Consumer -> SUBSET Message]
              /\ aged' \in [Consumer -> SUBSET Message]
            BY <3>2, <3>3 DEF Process, TypeOK
        <3>5. lost' \in [Reason -> SUBSET Message]
            <4>1. lost \in [Reason -> SUBSET Message] /\ "displaced" \in Reason /\ "overlap" \in Reason
                BY DEF TypeOK, Reason
            <4>2. CASE lost' = [lost EXCEPT !["displaced"] = @ \cup o.gone]
                BY <3>3, <4>1, <4>2
            <4>3. CASE lost' = [lost EXCEPT !["displaced"] = @ \cup o.gone,
                                            !["overlap"] = IF Flushing(c) THEN @ \cup o.doc ELSE @]
                <5>1. CASE Flushing(c)
                    BY <3>3, <4>1, <4>3, <5>1
                <5>2. CASE ~Flushing(c)
                    BY <3>3, <4>1, <4>3, <5>2
                <5> QED
                    BY <5>1, <5>2
            <4> QED
                BY <3>2, <4>2, <4>3 DEF Process
        <3>7. /\ pc' \in [Consumer -> PC]
              /\ ret' \in [Consumer -> Return]
            BY <3>2 DEF Process, Goto, Call, TypeOK, PC, Return
        <3>8. actions' \in Seq(Message) /\ handed' \in Seq(Message)
            <4>1. CASE o.doc = {}
                BY <3>2, <4>1 DEF Process, TypeOK
            <4>2. CASE o.doc # {}
                <5>1. PICK d \in o.doc : Hand(d)
                    BY <3>2, <4>2 DEF Process
                <5>2. d \in Message
                    BY <3>3
                <5> QED
                    BY <5>1, <5>2 DEF Hand, TypeOK
            <4> QED
                BY <4>1, <4>2
        <3>6. position' \in [Consumer -> Nat]
            BY <2>1, <3>1 DEF Consume, TypeOK
        <3> QED
            BY <2>1, <3>4, <3>5, <3>6, <3>7, <3>8 DEF Consume, TypeOK, budget
    <2>2. ASSUME NEW c \in Consumer, CheckSize(c) PROVE TypeOK'
        BY <2>2 DEF CheckSize, Goto, TypeOK, PC, Return, memory, writer, budget
    <2>3. ASSUME NEW c \in Consumer, StartFlush(c) PROVE TypeOK'
        <3>1. batch' \in [Consumer -> Seq(Message)]
            BY <2>3 DEF StartFlush, TypeOK
        <3>2. pc' \in [Consumer -> PC]
            BY <2>3 DEF StartFlush, Goto, TypeOK, PC, Return
        <3> QED
            BY <2>3, <3>1, <3>2 DEF StartFlush, TypeOK, memory, writer, budget
    <2>4. ASSUME NEW c \in Consumer, BulkSucceeds(c) PROVE TypeOK'
        <3>1. Range(batch[c]) \subseteq Message
            BY RangeOfSeq DEF TypeOK
        <3> QED
            BY <2>4, <3>1 DEF BulkSucceeds, Goto, TypeOK, PC, Return, memory, writer, budget
    <2>5. ASSUME NEW c \in Consumer, BulkRaises(c) PROVE TypeOK'
        <3>1. Range(batch[c]) \subseteq Message
            BY RangeOfSeq DEF TypeOK
        <3> QED
            BY <2>5, <3>1 DEF BulkRaises, Goto, TypeOK, PC, Return, Reason, memory, writer
    <2>6. ASSUME NEW c \in Consumer, Clear(c) PROVE TypeOK'
        <3>1. batch' \in [Consumer -> Seq(Message)] /\ actions' \in Seq(Message)
            BY <2>6, EmptySeq DEF Clear, TypeOK
        <3> QED
            BY <2>6, <3>1 DEF Clear, Goto, TypeOK, PC, Return, memory, budget
    <2>7. ASSUME NEW c \in Consumer, Commit(c) PROVE TypeOK'
        <3>1. committed' \in [Consumer -> Nat] /\ failures' \in Nat
            BY <2>7 DEF Commit, TypeOK
        <3>2. pc' \in [Consumer -> PC]
            BY <2>7 DEF Commit, Goto, TypeOK, PC
        <3> QED
            BY <2>7, <3>1, <3>2 DEF Commit, TypeOK, memory, writer
    <2>8. ASSUME NEW c \in Consumer, Idle(c) PROVE TypeOK'
        BY <2>8 DEF Idle, Goto, Call, TypeOK, PC, Return, memory, writer, budget
    <2>17. ASSUME NEW c \in Consumer, EnterPoll(c) \/ PollFails(c) PROVE TypeOK'
        BY <2>17 DEF EnterPoll, PollFails, Goto, TypeOK, PC, Return, memory, writer, budget
    <2>9. ASSUME NEW c \in Consumer, Expire(c) PROVE TypeOK'
        BY <2>9 DEF Expire, Expired, Goto, TypeOK, PC, Return, writer, budget
    <2>10. ASSUME NEW c \in Consumer, Drain(c) PROVE TypeOK'
        <3>1. CASE /\ due[c] = {} /\ Goto(c, "loop")
                   /\ UNCHANGED <<due, ret, actions, handed, lost>>
            BY <2>10, <3>1 DEF Drain, Goto, TypeOK, PC, Return, budget
        <3>2. ASSUME NEW d \in due[c], Add(c, d), Call(c, "added", "drain"),
                     due' = [due EXCEPT ![c] = @ \ {d}]
              PROVE  TypeOK'
            <4>1. d \in Message
                BY <3>2 DEF TypeOK
            <4>2. /\ actions' \in Seq(Message) /\ handed' \in Seq(Message)
                  /\ lost' \in [Reason -> SUBSET Message]
                BY <3>2, <4>1 DEF Add, Hand, TypeOK, Reason
            <4> QED
                BY <2>10, <3>2, <4>2 DEF Drain, Call, TypeOK, PC, Return, budget
        <3> QED
            BY <2>10, <3>1, <3>2 DEF Drain
    <2>11. ASSUME NEW c \in Consumer, LeaveLoop(c) PROVE TypeOK'
        BY <2>11 DEF LeaveLoop, Call, TypeOK, PC, Return, memory, writer, budget
    <2>12. ASSUME NEW c \in Consumer, PairingTimeoutPasses(c) PROVE TypeOK'
        BY <2>12 DEF PairingTimeoutPasses, TypeOK, thread, writer, budget
    <2>13. CASE FlushIntervalPasses
        BY <2>13 DEF FlushIntervalPasses, TypeOK, memory, thread, budget
    <2>14. CASE Signal
        BY <2>14 DEF Signal, TypeOK, memory, thread, writer, budget
    <2>15. CASE Crash
        <3>1. \A s \in Seq(Message) : Range(s) \subseteq Message
            BY RangeOfSeq
        <3>2. Volatile \subseteq Message
            BY <3>1 DEF Volatile, TypeOK
        <3>3. lost' \in [Reason -> SUBSET Message]
            BY <2>15, <3>2 DEF Crash, TypeOK, Reason
        <3> QED
            <4>1. /\ batch' \in [Consumer -> Seq(Message)]
                  /\ actions' \in Seq(Message) /\ handed' \in Seq(Message)
                BY <2>15, EmptySeq DEF Crash
            <4>2. position' \in [Consumer -> Nat]
                BY <2>15 DEF Crash, Resume, TypeOK
            <4>3. /\ held' \in [Consumer -> SUBSET Message]
                  /\ aged' \in [Consumer -> SUBSET Message]
                  /\ due' \in [Consumer -> SUBSET Message]
                BY <2>15 DEF Crash
            <4>4. pc' \in [Consumer -> PC] /\ ret' \in [Consumer -> Return]
                BY <2>15 DEF Crash, PC, Return
            <4>5. /\ stale' = FALSE /\ stopping' = FALSE
                  /\ crashes' = crashes + 1
                  /\ UNCHANGED <<committed, indexed, failures>>
                BY <2>15 DEF Crash
            <4>6. stale' \in BOOLEAN /\ stopping' \in BOOLEAN
                BY <4>5
            <4>7. crashes' \in Nat
                BY <4>5 DEF TypeOK
            <4>8. /\ committed' \in [Consumer -> Nat]
                  /\ indexed' \in SUBSET Message
                  /\ failures' \in Nat
                BY <4>5 DEF TypeOK
            <4> QED
                BY <3>3, <4>1, <4>2, <4>3, <4>4, <4>6, <4>7, <4>8 DEF TypeOK
    <2>16. CASE UNCHANGED vars
        BY <2>16 DEF vars, memory, thread, writer, budget, TypeOK
    <2> QED
        BY <2>1, <2>2, <2>3, <2>4, <2>5, <2>6, <2>7, <2>8, <2>9, <2>10, <2>11,
           <2>12, <2>13, <2>14, <2>15, <2>16, <2>17 DEF Next, Step, Flush
<1> QED
    BY <1>1, <1>2, PTL DEF Spec


\* A commit stores a position that was reached; a restart resumes from it.
OffsetsOrdered == \A c \in Consumer : committed[c] <= position[c]

\* flush_pending is not entered again while it still has rows to add: it calls
\* add(), which may flush, and comes back to the same loop.
DueWhileDraining ==
    \A c \in Consumer : due[c] # {} =>
        \/ pc[c] = "drain"
        \/ pc[c] \in {"added", "flush", "bulk", "clear"} /\ ret[c] = "drain"

\* The inductive invariant.  The accounting needs ClearDropsNothingElse, which
\* says what the finally clause of flush() may clear; OffsetsOrdered, which
\* says that a crash does not move a position forward; and DueWhileDraining,
\* without which flush_pending could forget the rows it had popped before.
IInv ==
    /\ TypeOK
    /\ OffsetsOrdered
    /\ DueWhileDraining
    /\ ConsumedAccounted
    /\ ClearDropsNothingElse

-----------------------------------------------------------------------------
(* Membership in Tracked and Lost, before and after a step.                *)

LEMMA TrackedElement ==
    /\ \A m : m \in Tracked <=>
        \/ m \in indexed
        \/ m \in Range(actions)
        \/ \E c \in Consumer : \/ m \in held[c]
                               \/ m \in due[c]
                               \/ pc[c] = "bulk" /\ m \in Range(batch[c])
    /\ \A m : m \in Tracked' <=>
        \/ m \in indexed'
        \/ m \in Range(actions')
        \/ \E c \in Consumer : \/ m \in held'[c]
                               \/ m \in due'[c]
                               \/ pc'[c] = "bulk" /\ m \in Range(batch'[c])
    BY DEF Tracked

LEMMA LostElement ==
    /\ \A m : m \in Lost <=> \E r \in Reason : m \in lost[r]
    /\ \A m : m \in Lost' <=> \E r \in Reason : m \in lost'[r]
    BY DEF Lost

\* Nothing that was accounted for is forgotten, and no row was consumed.
LEMMA AccountingKept ==
    ASSUME ConsumedAccounted, UNCHANGED position,
           \A m : m \in Tracked \cup Lost => m \in Tracked' \cup Lost'
    PROVE  ConsumedAccounted'
    BY DEF ConsumedAccounted, CarriesSql

\* A step that adds nothing to the buffer and starts no flush.
LEMMA ClearKept ==
    ASSUME ClearDropsNothingElse, UNCHANGED <<actions, batch>>,
           indexed \subseteq indexed', Lost \subseteq Lost',
           \A c \in Consumer : pc'[c] \in {"bulk", "clear"} => pc'[c] = pc[c]
    PROVE  ClearDropsNothingElse'
    BY DEF ClearDropsNothingElse

\* What keeps its place is still tracked.
LEMMA TrackedKept ==
    ASSUME UNCHANGED <<actions, held, due, batch>>, indexed \subseteq indexed',
           \A c \in Consumer : pc[c] = "bulk" => pc'[c] = "bulk"
    PROVE  Tracked \subseteq Tracked'
    BY TrackedElement

-----------------------------------------------------------------------------
(* The actions that only move a program counter, a timer or an offset.     *)

LEMMA QuietStep ==
    ASSUME IInv,
           UNCHANGED <<position, actions, held, due, batch, indexed, lost>>,
           \A c \in Consumer : committed'[c] <= position[c],
           \A c \in Consumer : pc[c] \in {"bulk", "clear"} => pc'[c] = pc[c],
           \A c \in Consumer : pc'[c] \in {"bulk", "clear"} => pc'[c] = pc[c]
    PROVE  OffsetsOrdered' /\ ConsumedAccounted' /\ ClearDropsNothingElse'
<1>1. OffsetsOrdered'
    BY DEF OffsetsOrdered
<1>2. Lost' = Lost
    BY DEF Lost
<1>3. ConsumedAccounted'
    BY <1>2, TrackedKept, AccountingKept DEF IInv
<1>4. ClearDropsNothingElse'
    BY <1>2, ClearKept DEF IInv
<1> QED
    BY <1>1, <1>3, <1>4

LEMMA CheckSizeStep ==
    ASSUME IInv, NEW c \in Consumer, CheckSize(c)
    PROVE  OffsetsOrdered' /\ ConsumedAccounted' /\ ClearDropsNothingElse'
<1>1. pc' = [pc EXCEPT ![c] = IF Len(actions) >= BatchSize THEN "flush" ELSE ret[c]]
    BY DEF CheckSize, Goto
<1>2. pc[c] = "added" /\ ret[c] \in Return /\ pc \in [Consumer -> PC]
    BY DEF CheckSize, IInv, TypeOK
<1>3. /\ \A o \in Consumer : pc[o] \in {"bulk", "clear"} => pc'[o] = pc[o]
      /\ \A o \in Consumer : pc'[o] \in {"bulk", "clear"} => pc'[o] = pc[o]
    BY <1>1, <1>2 DEF Return
<1>4. UNCHANGED <<position, committed, actions, held, due, batch, indexed, lost>>
    BY DEF CheckSize, memory, writer
<1> QED
    BY <1>3, <1>4, QuietStep DEF IInv, OffsetsOrdered

LEMMA CommitStep ==
    ASSUME IInv, NEW c \in Consumer, Commit(c)
    PROVE  OffsetsOrdered' /\ ConsumedAccounted' /\ ClearDropsNothingElse'
<1>1. pc[c] = "commit" /\ pc' = [pc EXCEPT ![c] = "loop"] /\ pc \in [Consumer -> PC]
    BY DEF Commit, Goto, IInv, TypeOK
<1>2. /\ \A o \in Consumer : pc[o] \in {"bulk", "clear"} => pc'[o] = pc[o]
      /\ \A o \in Consumer : pc'[o] \in {"bulk", "clear"} => pc'[o] = pc[o]
    BY <1>1
<1>3. UNCHANGED <<position, actions, held, due, batch, indexed, lost>>
    BY DEF Commit, memory, writer
<1>4. /\ committed \in [Consumer -> Nat] /\ position \in [Consumer -> Nat]
      /\ \A o \in Consumer : committed[o] <= position[o]
    BY DEF IInv, TypeOK, OffsetsOrdered
<1>5. \/ committed' = [committed EXCEPT ![c] = position[c]]
      \/ committed' = committed
    BY DEF Commit
<1>6. \A o \in Consumer : committed'[o] <= position[o]
    BY <1>4, <1>5
<1> QED
    BY <1>2, <1>3, <1>6, QuietStep

LEMMA IdleStep ==
    ASSUME IInv, NEW c \in Consumer,
           EnterPoll(c) \/ PollFails(c) \/ Idle(c) \/ LeaveLoop(c)
    PROVE  OffsetsOrdered' /\ ConsumedAccounted' /\ ClearDropsNothingElse'
<1>1. /\ pc[c] \in {"loop", "poll"} /\ pc \in [Consumer -> PC]
      /\ \E there \in {"loop", "poll", "flush", "expire"} :
            pc' = [pc EXCEPT ![c] = there]
    BY DEF EnterPoll, PollFails, Idle, LeaveLoop, Goto, Call, IInv, TypeOK
<1>2. /\ \A o \in Consumer : pc[o] \in {"bulk", "clear"} => pc'[o] = pc[o]
      /\ \A o \in Consumer : pc'[o] \in {"bulk", "clear"} => pc'[o] = pc[o]
    BY <1>1
<1>3. UNCHANGED <<position, committed, actions, held, due, batch, indexed, lost>>
    BY DEF EnterPoll, PollFails, Idle, LeaveLoop, memory, writer
<1> QED
    BY <1>2, <1>3, QuietStep DEF IInv, OffsetsOrdered

LEMMA EnvironmentStep ==
    ASSUME IInv,
           \/ \E c \in Consumer : PairingTimeoutPasses(c)
           \/ FlushIntervalPasses
           \/ Signal
           \/ UNCHANGED vars
    PROVE  OffsetsOrdered' /\ ConsumedAccounted' /\ ClearDropsNothingElse'
<1>1. UNCHANGED <<position, committed, pc, actions, held, due, batch, indexed, lost>>
    BY DEF PairingTimeoutPasses, FlushIntervalPasses, Signal, vars, memory,
           thread, writer
<1> QED
    BY <1>1, QuietStep DEF IInv, OffsetsOrdered

-----------------------------------------------------------------------------
(* flush().                                                                *)

LEMMA StartFlushStep ==
    ASSUME IInv, NEW c \in Consumer, StartFlush(c)
    PROVE  OffsetsOrdered' /\ ConsumedAccounted' /\ ClearDropsNothingElse'
<1>1. /\ UNCHANGED <<position, committed, actions, held, due, indexed, lost>>
      /\ pc[c] = "flush" /\ pc \in [Consumer -> PC] /\ ret[c] \in Return
      /\ batch \in [Consumer -> Seq(Message)]
    BY DEF StartFlush, memory, writer, IInv, TypeOK
<1>2. Lost' = Lost
    BY <1>1 DEF Lost
<1>3. CASE actions = <<>>
    <2>1. UNCHANGED batch /\ pc' = [pc EXCEPT ![c] = ret[c]]
        BY <1>3 DEF StartFlush, Goto
    <2>2. /\ \A o \in Consumer : pc[o] \in {"bulk", "clear"} => pc'[o] = pc[o]
          /\ \A o \in Consumer : pc'[o] \in {"bulk", "clear"} => pc'[o] = pc[o]
        BY <1>1, <2>1 DEF Return
    <2> QED
        BY <1>1, <2>1, <2>2, QuietStep DEF IInv, OffsetsOrdered
<1>4. CASE actions # <<>>
    <2>1. /\ batch' = [batch EXCEPT ![c] = actions]
          /\ pc' = [pc EXCEPT ![c] = "bulk"]
        BY <1>4 DEF StartFlush, Goto
    <2>2. Tracked \subseteq Tracked'
        BY <1>1, <2>1, TrackedElement
    <2>3. ConsumedAccounted'
        BY <1>1, <1>2, <2>2, AccountingKept DEF IInv
    <2>4. ClearDropsNothingElse'
        BY <1>1, <1>2, <2>1 DEF IInv, ClearDropsNothingElse
    <2> QED
        BY <1>1, <2>3, <2>4 DEF IInv, OffsetsOrdered
<1> QED
    BY <1>3, <1>4

\* The end of a bulk request: each document of it is indexed or lost.
LEMMA BulkEnds ==
    ASSUME IInv, NEW c \in Consumer, pc[c] = "bulk",
           pc' = [pc EXCEPT ![c] = "clear"],
           UNCHANGED <<position, committed, actions, held, due, batch>>,
           indexed \subseteq indexed', Lost \subseteq Lost',
           Range(batch[c]) \subseteq indexed' \cup Lost'
    PROVE  OffsetsOrdered' /\ ConsumedAccounted' /\ ClearDropsNothingElse'
<1>1. pc \in [Consumer -> PC]
    BY DEF IInv, TypeOK
<1>2. \A m : m \in Tracked \cup Lost => m \in Tracked' \cup Lost'
    BY <1>1, TrackedElement
<1>3. ConsumedAccounted'
    BY <1>2, AccountingKept DEF IInv
<1>4. ClearDropsNothingElse'
    BY <1>1 DEF IInv, ClearDropsNothingElse
<1> QED
    BY <1>3, <1>4 DEF IInv, OffsetsOrdered

LEMMA BulkSucceedsStep ==
    ASSUME IInv, NEW c \in Consumer, BulkSucceeds(c)
    PROVE  OffsetsOrdered' /\ ConsumedAccounted' /\ ClearDropsNothingElse'
<1>1. /\ pc[c] = "bulk" /\ pc' = [pc EXCEPT ![c] = "clear"]
      /\ UNCHANGED <<position, committed, actions, held, due, batch, lost>>
      /\ indexed' = indexed \cup Range(batch[c])
    BY DEF BulkSucceeds, Goto, memory, writer
<1>2. Lost' = Lost
    BY <1>1 DEF Lost
<1> QED
    BY <1>1, <1>2, BulkEnds

LEMMA BulkRaisesStep ==
    ASSUME IInv, NEW c \in Consumer, BulkRaises(c)
    PROVE  OffsetsOrdered' /\ ConsumedAccounted' /\ ClearDropsNothingElse'
<1>1. /\ pc[c] = "bulk" /\ pc' = [pc EXCEPT ![c] = "clear"]
      /\ UNCHANGED <<position, committed, actions, held, due, batch>>
    BY DEF BulkRaises, Goto, memory, writer
<1>2. PICK written \in SUBSET Range(batch[c]) :
        /\ indexed' = indexed \cup written
        /\ lost' = [lost EXCEPT !["refused"] = @ \cup (Range(batch[c]) \ written)]
    BY DEF BulkRaises
<1>3. lost \in [Reason -> SUBSET Message] /\ "refused" \in Reason
    BY DEF IInv, TypeOK, Reason
<1>4. \A r \in Reason : lost[r] \subseteq lost'[r]
    BY <1>2, <1>3
<1>5. Range(batch[c]) \ written \subseteq lost'["refused"]
    BY <1>2, <1>3
<1>6. Lost \subseteq Lost'
    BY <1>4, LostElement
<1>7. Range(batch[c]) \subseteq indexed' \cup Lost'
    BY <1>2, <1>3, <1>5, LostElement
<1> QED
    BY <1>1, <1>2, <1>6, <1>7, BulkEnds

\* What the finally clause clears was indexed or lost already.
LEMMA ClearStep ==
    ASSUME IInv, NEW c \in Consumer, Clear(c)
    PROVE  OffsetsOrdered' /\ ConsumedAccounted' /\ ClearDropsNothingElse'
<1>1. /\ pc[c] = "clear" /\ pc' = [pc EXCEPT ![c] = ret[c]]
      /\ UNCHANGED <<position, committed, held, due, indexed, lost>>
      /\ actions' = <<>>
      /\ batch' = [batch EXCEPT ![c] = <<>>]
    BY DEF Clear, Goto, memory
<1>2. /\ pc \in [Consumer -> PC] /\ ret[c] \in Return
      /\ batch \in [Consumer -> Seq(Message)]
    BY DEF IInv, TypeOK
<1>3. Lost' = Lost
    BY <1>1 DEF Lost
<1>4. Range(actions) \subseteq indexed \cup Lost
    BY <1>1 DEF IInv, ClearDropsNothingElse
<1>5. \A m : m \in Tracked \cup Lost => m \in Tracked' \cup Lost'
    BY <1>1, <1>2, <1>3, <1>4, TrackedElement
<1>6. ConsumedAccounted'
    BY <1>1, <1>5, AccountingKept DEF IInv
<1>7. ClearDropsNothingElse'
    BY <1>1, RangeEmpty DEF ClearDropsNothingElse
<1> QED
    BY <1>1, <1>6, <1>7 DEF IInv, OffsetsOrdered

-----------------------------------------------------------------------------
(* The actions that move documents into the buffer.                        *)

\* An append by c: another thread's flush will drop the document only if it
\* was counted as overlapped.
LEMMA AppendKeepsClear ==
    ASSUME IInv, NEW c \in Consumer, NEW d \in Message,
           pc[c] \notin {"bulk", "clear"}, pc' = [pc EXCEPT ![c] = "added"],
           UNCHANGED <<batch, indexed>>,
           actions' = Append(actions, d),
           Lost \subseteq Lost', Flushing(c) => d \in Lost'
    PROVE  ClearDropsNothingElse'
<1>1. pc \in [Consumer -> PC] /\ actions \in Seq(Message)
    BY DEF IInv, TypeOK
<1>2. Range(actions') = Range(actions) \cup {d}
    BY <1>1, RangeAppend
<1>3. ASSUME NEW o \in Consumer, pc'[o] \in {"bulk", "clear"}
      PROVE  pc'[o] = pc[o] /\ d \in Lost'
    <2>1. o # c /\ pc'[o] = pc[o]
        BY <1>1, <1>3
    <2> QED
        BY <1>3, <2>1 DEF Flushing
<1> QED
    BY <1>2, <1>3 DEF IInv, ClearDropsNothingElse

LEMMA DrainStep ==
    ASSUME IInv, NEW c \in Consumer, Drain(c)
    PROVE  OffsetsOrdered' /\ ConsumedAccounted' /\ ClearDropsNothingElse'
<1>1. /\ pc[c] = "drain" /\ pc \in [Consumer -> PC]
      /\ UNCHANGED <<position, committed, held, batch, indexed>>
      /\ due \in [Consumer -> SUBSET Message] /\ actions \in Seq(Message)
      /\ lost \in [Reason -> SUBSET Message]
    BY DEF Drain, IInv, TypeOK
<1>2. CASE Goto(c, "loop") /\ UNCHANGED <<due, ret, actions, lost>>
    <2>1. /\ \A o \in Consumer : pc[o] \in {"bulk", "clear"} => pc'[o] = pc[o]
          /\ \A o \in Consumer : pc'[o] \in {"bulk", "clear"} => pc'[o] = pc[o]
        BY <1>1, <1>2 DEF Goto
    <2> QED
        BY <1>1, <1>2, <2>1, QuietStep DEF IInv, OffsetsOrdered
<1>3. ASSUME NEW d \in due[c], due' = [due EXCEPT ![c] = @ \ {d}],
             Add(c, d), Call(c, "added", "drain")
      PROVE  OffsetsOrdered' /\ ConsumedAccounted' /\ ClearDropsNothingElse'
    <2>1. d \in Message /\ pc' = [pc EXCEPT ![c] = "added"]
          /\ actions' = Append(actions, d)
        BY <1>1, <1>3 DEF Call, Add, Hand
    <2>2. \A r \in Reason : lost[r] \subseteq lost'[r]
        BY <1>1, <1>3 DEF Add
    <2>3. Lost \subseteq Lost'
        BY <2>2, LostElement
    <2>4. Flushing(c) => d \in lost'["overlap"] /\ "overlap" \in Reason
        BY <1>1, <1>3 DEF Add, Reason
    <2>5. Range(actions') = Range(actions) \cup {d}
        BY <1>1, <2>1, RangeAppend
    <2>6. Tracked \subseteq Tracked'
        BY <1>1, <1>3, <2>1, <2>5, TrackedElement
    <2>7. ConsumedAccounted'
        BY <1>1, <2>3, <2>6, AccountingKept DEF IInv
    <2>8. ClearDropsNothingElse'
        BY <1>1, <2>1, <2>3, <2>4, LostElement, AppendKeepsClear
    <2> QED
        BY <1>1, <2>7, <2>8 DEF IInv, OffsetsOrdered
<1> QED
    BY <1>2, <1>3 DEF Drain

LEMMA ExpireStep ==
    ASSUME IInv, NEW c \in Consumer, Expire(c)
    PROVE  OffsetsOrdered' /\ ConsumedAccounted' /\ ClearDropsNothingElse'
<1>1. /\ pc[c] = "expire" /\ pc' = [pc EXCEPT ![c] = "drain"]
      /\ UNCHANGED <<position, committed, actions, batch, indexed, lost>>
      /\ due' = [due EXCEPT ![c] = Expired(c)]
      /\ held' = [held EXCEPT ![c] = @ \ Expired(c)]
    BY DEF Expire, Goto, writer
<1>2. /\ pc \in [Consumer -> PC]
      /\ due \in [Consumer -> SUBSET Message]
      /\ held \in [Consumer -> SUBSET Message]
    BY DEF IInv, TypeOK
<1>3. due[c] = {}
    BY <1>1 DEF IInv, DueWhileDraining
<1>4. Lost' = Lost
    BY <1>1 DEF Lost
<1>5. \A m : m \in held[c] => m \in held'[c] \/ m \in due'[c]
    BY <1>1, <1>2
<1>6. \A o \in Consumer \ {c} : held'[o] = held[o] /\ due'[o] = due[o]
    BY <1>1, <1>2
<1>7. \A o \in Consumer : pc[o] = "bulk" => pc'[o] = "bulk" /\ batch'[o] = batch[o]
    BY <1>1, <1>2
<1>8. \A m : m \in Tracked => m \in Tracked'
    BY <1>1, <1>3, <1>5, <1>6, <1>7, TrackedElement
<1>9. ConsumedAccounted'
    BY <1>1, <1>4, <1>8, AccountingKept DEF IInv
<1>10. ClearDropsNothingElse'
    BY <1>1, <1>2, <1>4, ClearKept DEF IInv
<1> QED
    BY <1>1, <1>9, <1>10 DEF IInv, OffsetsOrdered

LEMMA ConsumeStep ==
    ASSUME IInv, NEW c \in Consumer, Consume(c)
    PROVE  OffsetsOrdered' /\ ConsumedAccounted' /\ ClearDropsNothingElse'
<1> DEFINE m == <<c, position[c] + 1>>
           kind == Topic[c][position[c] + 1]
<1>1. /\ position \in [Consumer -> Nat] /\ committed \in [Consumer -> Nat]
      /\ held \in [Consumer -> SUBSET Message] /\ actions \in Seq(Message)
      /\ lost \in [Reason -> SUBSET Message] /\ pc \in [Consumer -> PC]
    BY DEF IInv, TypeOK
<1>2. /\ pc[c] = "poll"
      /\ position' = [position EXCEPT ![c] = @ + 1]
      /\ UNCHANGED <<committed, due, batch, indexed>>
    BY DEF Consume
<1>3. m \in Message /\ kind \in Kind
    BY <1>1, ConsumerAssumption DEF Consume, Message
<1>4. PICK o \in Outcomes(kind, m, held[c]) : Process(c, kind, o)
    BY DEF Consume
<1>5. /\ o.kept \subseteq Message /\ o.doc \subseteq Message
      /\ held[c] \subseteq o.kept \cup o.doc \cup o.gone
      /\ CarriesSql(c, position[c] + 1) => m \in o.kept \cup o.doc
      /\ \A x, y \in o.doc : x = y
    <2> HIDE DEF m
    <2>1. CarriesSql(c, position[c] + 1) <=> kind \in SqlKind
        BY DEF CarriesSql
    <2> HIDE DEF kind
    <2> QED
        BY <1>1, <1>3, <2>1, OutcomeKeepsRows
<1> HIDE DEF kind
<1>6. OffsetsOrdered'
    BY <1>1, <1>2 DEF IInv, OffsetsOrdered
<1>7. held' = [held EXCEPT ![c] = o.kept]
    BY <1>4 DEF Process
<1>8. /\ \A r \in Reason : lost[r] \subseteq lost'[r]
      /\ o.gone \subseteq lost'["displaced"]
      /\ Flushing(c) => o.doc \subseteq lost'["overlap"]
      /\ "displaced" \in Reason /\ "overlap" \in Reason
    <2>1. CASE o.doc = {}
        BY <1>1, <1>4, <2>1 DEF Process, Reason
    <2>2. CASE o.doc # {}
        <3>1. lost' = [lost EXCEPT !["displaced"] = @ \cup o.gone,
                                   !["overlap"] = IF Flushing(c) THEN @ \cup o.doc ELSE @]
            BY <1>4, <2>2 DEF Process
        <3>2. CASE Flushing(c)
            BY <1>1, <3>1, <3>2 DEF Reason
        <3>3. CASE ~Flushing(c)
            BY <1>1, <3>1, <3>3 DEF Reason
        <3> QED
            BY <3>2, <3>3
    <2> QED
        BY <2>1, <2>2
<1>9. Lost \subseteq Lost' /\ o.gone \subseteq Lost'
    BY <1>8, LostElement
<1>10. Range(actions') = Range(actions) \cup o.doc
    <2>1. CASE o.doc = {}
        BY <1>4, <2>1 DEF Process
    <2>2. CASE o.doc # {}
        <3>1. PICK d \in o.doc : actions' = Append(actions, d)
            BY <1>4, <2>2 DEF Process, Hand
        <3>2. o.doc = {d} /\ d \in Message
            BY <1>5
        <3>3. Range(Append(actions, d)) = Range(actions) \cup {d}
            BY <1>1, <3>2, RangeAppend
        <3> QED
            BY <3>1, <3>2, <3>3
    <2> QED
        BY <2>1, <2>2
<1>11. \A x \in Consumer : pc[x] = "bulk" => pc'[x] = "bulk" /\ batch'[x] = batch[x]
    BY <1>1, <1>2, <1>4 DEF Process, Goto, Call
<1>12. o.kept \cup o.doc \subseteq Tracked'
    BY <1>1, <1>7, <1>10, TrackedElement
<1>13. held[c] \subseteq Tracked' \cup Lost'
    BY <1>5, <1>9, <1>12
<1>14. \A x \in Consumer \ {c} : held'[x] = held[x]
    BY <1>1, <1>7
<1>15. \A x : x \in Tracked \cup Lost => x \in Tracked' \cup Lost'
    BY <1>2, <1>9, <1>10, <1>11, <1>13, <1>14, TrackedElement
<1>16. ConsumedAccounted'
    <2> SUFFICES ASSUME NEW x \in Consumer, NEW i \in 1 .. position'[x], CarriesSql(x, i)
                 PROVE  <<x, i>> \in Tracked' \cup Lost'
        BY DEF ConsumedAccounted, CarriesSql
    <2>1. CASE x = c /\ i = position[c] + 1
        BY <1>5, <1>12, <2>1
    <2>2. CASE ~(x = c /\ i = position[c] + 1)
        <3>1. i \in 1 .. position[x]
            BY <1>1, <1>2, <2>2
        <3> QED
            BY <1>15, <3>1 DEF IInv, ConsumedAccounted
    <2> QED
        BY <2>1, <2>2
<1>17. ClearDropsNothingElse'
    <2>1. CASE o.doc = {}
        <3>1. UNCHANGED <<actions, batch>>
            BY <1>2, <1>4, <2>1 DEF Process
        <3>2. \A x \in Consumer : pc'[x] \in {"bulk", "clear"} => pc'[x] = pc[x]
            BY <1>1, <1>4, <2>1 DEF Process, Goto
        <3> QED
            BY <1>2, <1>9, <3>1, <3>2, ClearKept DEF IInv
    <2>2. CASE o.doc # {}
        <3>1. pc' = [pc EXCEPT ![c] = "added"]
            BY <1>4, <2>2 DEF Process, Call
        <3>2. PICK d \in o.doc : actions' = Append(actions, d)
            BY <1>4, <2>2 DEF Process, Hand
        <3>3. d \in Message /\ (Flushing(c) => d \in Lost')
            BY <1>5, <1>8, LostElement
        <3> QED
            BY <1>2, <1>9, <3>1, <3>2, <3>3, AppendKeepsClear
    <2> QED
        BY <2>1, <2>2
<1> QED
    BY <1>6, <1>16, <1>17

-----------------------------------------------------------------------------
(* The restart: a redelivered offset may be forgotten, a committed one is  *)
(* in the index or counted as killed.                                      *)

LEMMA CrashStep ==
    ASSUME IInv, Crash
    PROVE  OffsetsOrdered' /\ ConsumedAccounted' /\ ClearDropsNothingElse'
<1>1. /\ committed \in [Consumer -> Nat] /\ position \in [Consumer -> Nat]
      /\ lost \in [Reason -> SUBSET Message]
      /\ \A c \in Consumer : committed[c] <= position[c]
    BY DEF IInv, TypeOK, OffsetsOrdered
<1>2. /\ position' = [c \in Consumer |-> committed[c]]
      /\ pc' = [c \in Consumer |-> "loop"]
      /\ UNCHANGED <<committed, indexed>>
      /\ lost' = [lost EXCEPT !["killed"] =
                      @ \cup {m \in Volatile \ indexed : m[2] <= committed[m[1]]}]
    BY DEF Crash, Resume
<1>3. OffsetsOrdered'
    BY <1>1, <1>2 DEF OffsetsOrdered
<1>4. /\ \A r \in Reason : lost[r] \subseteq lost'[r]
      /\ {m \in Volatile \ indexed : m[2] <= committed[m[1]]} \subseteq lost'["killed"]
      /\ "killed" \in Reason
    BY <1>1, <1>2 DEF Reason
<1>5. /\ Lost \subseteq Lost'
      /\ \A m \in Volatile \ indexed : m[2] <= committed[m[1]] => m \in Lost'
    BY <1>4, LostElement
<1>6. \A m \in Tracked : m \in indexed \/ m \in Volatile
    BY TrackedElement DEF Volatile
<1>7. ConsumedAccounted'
    <2> SUFFICES ASSUME NEW c \in Consumer, NEW i \in 1 .. position'[c], CarriesSql(c, i)
                 PROVE  <<c, i>> \in Tracked' \cup Lost'
        BY DEF ConsumedAccounted, CarriesSql
    <2>1. i <= committed[c] /\ i \in 1 .. position[c]
        BY <1>1, <1>2
    <2>2. <<c, i>> \in Tracked \cup Lost
        BY <2>1 DEF IInv, ConsumedAccounted
    <2>3. <<c, i>> \in indexed => <<c, i>> \in Tracked'
        BY <1>2, TrackedElement
    <2> QED
        BY <1>5, <1>6, <2>1, <2>2, <2>3
<1>8. ClearDropsNothingElse'
    BY <1>2 DEF ClearDropsNothingElse
<1> QED
    BY <1>3, <1>7, <1>8

-----------------------------------------------------------------------------
(* flush_pending's own loop.                                               *)

\* A step of thread c leaves the others' flush_pending alone.
LEMMA DueKept ==
    ASSUME DueWhileDraining, NEW c \in Consumer,
           \A o \in Consumer \ {c} :
               pc'[o] = pc[o] /\ ret'[o] = ret[o] /\ due'[o] = due[o],
           due'[c] # {} => \/ pc'[c] = "drain"
                           \/ /\ pc'[c] \in {"added", "flush", "bulk", "clear"}
                              /\ ret'[c] = "drain"
    PROVE  DueWhileDraining'
    BY DEF DueWhileDraining

LEMMA DueStep ==
    ASSUME TypeOK, DueWhileDraining, [Next]_vars
    PROVE  DueWhileDraining'
<1>1. /\ pc \in [Consumer -> PC] /\ ret \in [Consumer -> Return]
      /\ due \in [Consumer -> SUBSET Message]
    BY DEF TypeOK
<1>2. ASSUME NEW c \in Consumer, Consume(c) PROVE DueWhileDraining'
    <2>1. PICK o \in Outcomes(Topic[c][position[c] + 1], <<c, position[c] + 1>>, held[c]) :
            Process(c, Topic[c][position[c] + 1], o)
        BY <1>2 DEF Consume
    <2>2. /\ UNCHANGED due /\ due[c] = {}
          /\ \A x \in Consumer \ {c} : pc'[x] = pc[x] /\ ret'[x] = ret[x]
        BY <1>1, <1>2, <2>1 DEF Consume, Process, Goto, Call, DueWhileDraining
    <2> QED
        BY <2>2, DueKept
<1>3. ASSUME NEW c \in Consumer, CheckSize(c) PROVE DueWhileDraining'
    BY <1>1, <1>3 DEF CheckSize, Goto, DueWhileDraining, memory
<1>4. ASSUME NEW c \in Consumer, StartFlush(c) PROVE DueWhileDraining'
    BY <1>1, <1>4 DEF StartFlush, Goto, DueWhileDraining, memory
<1>5. ASSUME NEW c \in Consumer, BulkSucceeds(c) \/ BulkRaises(c)
      PROVE  DueWhileDraining'
    BY <1>1, <1>5 DEF BulkSucceeds, BulkRaises, Goto, DueWhileDraining, memory
<1>6. ASSUME NEW c \in Consumer, Clear(c) PROVE DueWhileDraining'
    BY <1>1, <1>6 DEF Clear, Goto, DueWhileDraining, memory
<1>7. ASSUME NEW c \in Consumer, Commit(c) PROVE DueWhileDraining'
    BY <1>1, <1>7 DEF Commit, Goto, DueWhileDraining, memory
<1>8. ASSUME NEW c \in Consumer,
             EnterPoll(c) \/ PollFails(c) \/ Idle(c) \/ LeaveLoop(c)
      PROVE  DueWhileDraining'
    <2>1. /\ UNCHANGED due /\ due[c] = {}
          /\ \A o \in Consumer \ {c} : pc'[o] = pc[o] /\ ret'[o] = ret[o]
        BY <1>1, <1>8 DEF EnterPoll, PollFails, Idle, LeaveLoop, Goto, Call,
           DueWhileDraining, memory
    <2> QED
        BY <2>1, DueKept
<1>9. ASSUME NEW c \in Consumer, Expire(c) PROVE DueWhileDraining'
    BY <1>1, <1>9, DueKept DEF Expire, Goto
<1>10. ASSUME NEW c \in Consumer, Drain(c) PROVE DueWhileDraining'
    <2>1. CASE due[c] = {} /\ Goto(c, "loop") /\ UNCHANGED <<due, ret>>
        BY <1>1, <2>1 DEF Goto, DueWhileDraining
    <2>2. CASE Call(c, "added", "drain")
               /\ \E d \in due[c] : due' = [due EXCEPT ![c] = @ \ {d}]
        BY <1>1, <2>2, DueKept DEF Call
    <2> QED
        BY <1>10, <2>1, <2>2 DEF Drain
<1>11. CASE \/ \E c \in Consumer : PairingTimeoutPasses(c)
            \/ FlushIntervalPasses
            \/ Signal
            \/ UNCHANGED vars
    <2>1. UNCHANGED <<pc, ret, due>>
        BY <1>11 DEF PairingTimeoutPasses, FlushIntervalPasses, Signal, vars,
           memory, thread
    <2> QED
        BY <2>1 DEF DueWhileDraining
<1>12. CASE Crash
    BY <1>12 DEF Crash, DueWhileDraining
<1> QED
    BY <1>2, <1>3, <1>4, <1>5, <1>6, <1>7, <1>8, <1>9, <1>10, <1>11, <1>12
       DEF Next, Step, Flush

-----------------------------------------------------------------------------
(* The theorems.                                                           *)

LEMMA InductiveInit == Init => IInv
<1> SUFFICES ASSUME Init PROVE IInv
    OBVIOUS
<1>1. TypeOK
    <2>1. /\ batch \in [Consumer -> Seq(Message)]
          /\ actions \in Seq(Message) /\ handed \in Seq(Message)
        BY EmptySeq DEF Init
    <2> QED
        BY <2>1 DEF Init, TypeOK, PC, Return
<1>2. OffsetsOrdered /\ DueWhileDraining /\ ConsumedAccounted
    BY DEF Init, OffsetsOrdered, DueWhileDraining, ConsumedAccounted
<1>3. ClearDropsNothingElse
    BY DEF Init, ClearDropsNothingElse
<1> QED
    BY <1>1, <1>2, <1>3 DEF IInv

LEMMA InductiveStep ==
    IInv /\ TypeOK' /\ [Next]_vars => IInv'
<1> SUFFICES ASSUME IInv, TypeOK', [Next]_vars PROVE IInv'
    OBVIOUS
<1>1. DueWhileDraining'
    BY DueStep DEF IInv
<1>2. OffsetsOrdered' /\ ConsumedAccounted' /\ ClearDropsNothingElse'
    BY ConsumeStep, CheckSizeStep, StartFlushStep, BulkSucceedsStep,
       BulkRaisesStep, ClearStep, CommitStep, IdleStep, ExpireStep, DrainStep,
       EnvironmentStep, CrashStep
       DEF Next, Step, Flush
<1> QED
    BY <1>1, <1>2 DEF IInv

LEMMA Inductive == Spec => []IInv
    BY InductiveInit, InductiveStep, TypeCorrect, PTL DEF Spec

\* Every consumed SQL row is indexed, on its way, or dropped by one of the
\* four known hazards of run(), add() and flush(), in every run of the
\* process, whatever the threads' interleaving and however often it crashes.
THEOREM Accounting == Spec => []ConsumedAccounted
<1>1. IInv => ConsumedAccounted
    BY DEF IInv
<1> QED
    BY <1>1, Inductive, PTL

\* When the finally clause of flush() clears the buffer, what it removes was
\* written, refused, or appended by the other thread during that flush.
THEOREM ClearLosesNothingElse == Spec => []ClearDropsNothingElse
<1>1. IInv => ClearDropsNothingElse
    BY DEF IInv
<1> QED
    BY <1>1, Inductive, PTL

\* The offset a consumer has committed never goes back: commit() stores a
\* position that is never behind it, and a restart leaves it alone.
THEOREM CommitsMonotone == Spec => CommittedNeverRewinds
<1>1. IInv /\ [Next]_vars => [\A c \in Consumer : committed'[c] >= committed[c]]_vars
    <2> SUFFICES ASSUME IInv, [Next]_vars
                 PROVE  \A c \in Consumer : committed'[c] >= committed[c]
        OBVIOUS
    <2>1. /\ committed \in [Consumer -> Nat] /\ position \in [Consumer -> Nat]
          /\ \A c \in Consumer : committed[c] <= position[c]
        BY DEF IInv, TypeOK, OffsetsOrdered
    <2>2. \/ UNCHANGED committed
          \/ \E c \in Consumer : committed' = [committed EXCEPT ![c] = position[c]]
        BY DEF Next, Step, Flush, Consume, CheckSize, StartFlush, BulkSucceeds,
           BulkRaises, Clear, Commit, EnterPoll, PollFails, Idle, Expire, Drain,
           LeaveLoop, PairingTimeoutPasses, FlushIntervalPasses, Signal, Crash, vars
    <2> QED
        BY <2>1, <2>2
<1> QED
    BY <1>1, Inductive, PTL DEF Spec, CommittedNeverRewinds
-----------------------------------------------------------------------------
(* The writer is given no document twice, and is left with none.           *)

\* A row is in one place: held by its consumer, due to be added, or handed to
\* the writer; and it is one that its consumer has polled.
RowsKeptOnce ==
    \A c \in Consumer :
        /\ aged[c] \subseteq held[c]
        /\ held[c] \cap due[c] = {}
        /\ \A m \in held[c] \cup due[c] :
            m[1] = c /\ m[2] <= position[c] /\ m \notin Range(handed)

HandedOnce ==
    /\ \A m \in Range(handed) : m[2] <= position[m[1]]
    /\ IsInjective(handed)

\* add() comes back to the loop or to flush_pending, never to the exit, so a
\* thread that has closed has flushed after its last append; and a document
\* in the buffer has a thread that has not.
ClosedAfterFlush ==
    /\ \A c \in Consumer : pc[c] = "added" => ret[c] \in {"commit", "drain"}
    /\ actions # <<>> => \E c \in Consumer : pc[c] # "closed"

OnceInv == TypeOK /\ RowsKeptOnce /\ HandedOnce

LEMMA InjectiveAppend ==
    ASSUME NEW S, NEW s \in Seq(S), NEW d \in S, IsInjective(s), d \notin Range(s)
    PROVE  IsInjective(Append(s, d))
<1>1. /\ DOMAIN Append(s, d) = DOMAIN s \cup {Len(s) + 1}
      /\ Append(s, d)[Len(s) + 1] = d
      /\ \A i \in DOMAIN s : Append(s, d)[i] = s[i]
    OBVIOUS
<1>2. \A i \in DOMAIN s : s[i] # d
    BY DEF Range
<1> QED
    BY <1>1, <1>2 DEF IsInjective

\* A message the consumer did not have is kept or returned, never both.
LEMMA OutcomeOnePlace ==
    ASSUME NEW kind \in Kind, NEW m, NEW H, m \notin H, NEW o \in Outcomes(kind, m, H)
    PROVE  o.kept \cap o.doc = {}
<1>1. CASE kind = "whole"
    BY <1>1 DEF Outcomes, WholeOutcomes, Out, AtMostOneOf
<1>2. CASE kind = "open"
    BY <1>2 DEF Outcomes, OpenOutcomes, Out, AtMostOneOf
<1>3. CASE kind = "close"
    BY <1>3 DEF Outcomes, CloseOutcomes, Out
<1>4. CASE kind = "noise"
    BY <1>4 DEF Outcomes, Out
<1>5. CASE kind = "poison"
    BY <1>5 DEF Outcomes, PoisonOutcomes, Out, AtMostOneOf
<1> QED
    BY <1>1, <1>2, <1>3, <1>4, <1>5 DEF Kind

LEMMA OnceConsume ==
    ASSUME OnceInv, NEW c \in Consumer, Consume(c)
    PROVE  RowsKeptOnce' /\ HandedOnce'
<1> DEFINE m == <<c, position[c] + 1>>
           kind == Topic[c][position[c] + 1]
<1>1. /\ position \in [Consumer -> Nat] /\ handed \in Seq(Message)
      /\ held \in [Consumer -> SUBSET Message] /\ due \in [Consumer -> SUBSET Message]
      /\ aged \in [Consumer -> SUBSET Message]
    BY DEF OnceInv, TypeOK
<1>2. /\ position' = [position EXCEPT ![c] = @ + 1]
      /\ UNCHANGED due
    BY DEF Consume
<1>3. m \in Message /\ kind \in Kind /\ m[1] = c /\ m[2] = position[c] + 1
    BY <1>1, ConsumerAssumption DEF Consume, Message
<1>4. PICK o \in Outcomes(kind, m, held[c]) : Process(c, kind, o)
    BY DEF Consume
<1> HIDE DEF m, kind
<1>5. /\ held' = [held EXCEPT ![c] = o.kept]
      /\ aged' = [aged EXCEPT ![c] = @ \cap o.kept]
    BY <1>4 DEF Process
<1>6. m \notin held[c] /\ m \notin due[c] /\ m \notin Range(handed)
    <2>1. \A x \in held[c] \cup due[c] \cup Range(handed) :
            x[1] = c => x[2] <= position[c]
        BY DEF OnceInv, RowsKeptOnce, HandedOnce
    <2>2. position[c] \in Nat
        BY <1>1
    <2> QED
        BY <1>3, <2>1, <2>2
<1>7. /\ o.kept \subseteq held[c] \cup {m} /\ o.doc \subseteq held[c] \cup {m}
      /\ \A x, y \in o.doc : x = y
      /\ o.kept \cap o.doc = {}
    BY <1>3, <1>4, <1>6, OutcomeKeepsRows, OutcomeOnePlace
<1>8. o.doc \cap Range(handed) = {} /\ o.doc \cap due[c] = {} /\ o.kept \cap due[c] = {}
    BY <1>6, <1>7 DEF OnceInv, RowsKeptOnce
<1>9. \A x \in o.doc \cup o.kept : x[1] = c /\ x[2] <= position'[c] /\ x \in Message
    <2>1. \A x \in held[c] : x[1] = c /\ x[2] <= position[c] /\ x \in Message /\ x[2] \in Nat
        BY <1>1 DEF OnceInv, RowsKeptOnce, Message
    <2>2. position'[c] = position[c] + 1 /\ position[c] \in Nat
        BY <1>1, <1>2
    <2> QED
        BY <1>3, <1>7, <2>1, <2>2
<1>10. \/ o.doc = {} /\ handed' = handed
       \/ \E d \in o.doc : o.doc = {d} /\ handed' = Append(handed, d)
    <2>1. o.doc # {} => \E d \in o.doc : handed' = Append(handed, d)
        BY <1>4 DEF Process, Hand
    <2>2. o.doc = {} => handed' = handed
        BY <1>4 DEF Process
    <2> QED
        BY <1>7, <2>1, <2>2
<1>11. Range(handed') = Range(handed) \cup o.doc /\ IsInjective(handed')
    <2>1. CASE o.doc = {} /\ handed' = handed
        BY <2>1 DEF OnceInv, HandedOnce
    <2>2. ASSUME NEW d \in o.doc, o.doc = {d}, handed' = Append(handed, d)
          PROVE  Range(handed') = Range(handed) \cup o.doc /\ IsInjective(handed')
        <3>1. d \in Message /\ d \notin Range(handed) /\ IsInjective(handed)
            BY <1>8, <1>9, <2>2 DEF OnceInv, HandedOnce
        <3> QED
            BY <1>1, <2>2, <3>1, RangeAppend, InjectiveAppend
    <2> QED
        BY <1>10, <2>1, <2>2
<1>12. \A x \in Consumer : position[x] <= position'[x] /\ position[x] \in Nat
                            /\ position'[x] \in Nat
    BY <1>1, <1>2
<1>13. RowsKeptOnce'
    <2> SUFFICES ASSUME NEW x \in Consumer
                 PROVE  /\ aged'[x] \subseteq held'[x]
                        /\ held'[x] \cap due'[x] = {}
                        /\ \A r \in held'[x] \cup due'[x] :
                             r[1] = x /\ r[2] <= position'[x] /\ r \notin Range(handed')
        BY DEF RowsKeptOnce
    <2>1. /\ aged[x] \subseteq held[x] /\ held[x] \cap due[x] = {}
          /\ \A r \in held[x] \cup due[x] :
               /\ r[1] = x /\ r[2] <= position[x] /\ r \notin Range(handed)
               /\ r[2] \in Nat
        BY <1>1 DEF OnceInv, RowsKeptOnce, Message
    <2>2. \A r \in held[x] \cup due[x] : r[2] <= position'[x]
        BY <1>12, <2>1
    <2>3. CASE x = c
        <3>1. held'[c] = o.kept /\ aged'[c] = aged[c] \cap o.kept /\ due'[c] = due[c]
            BY <1>1, <1>2, <1>5
        <3> QED
            <4>1. aged'[c] \subseteq held'[c] /\ held'[c] \cap due'[c] = {}
                BY <1>8, <2>1, <2>3, <3>1
            <4>2. \A r \in o.kept : r[1] = c /\ r[2] <= position'[c] /\ r \notin Range(handed')
                <5>1. \A r \in o.kept : r \notin Range(handed)
                    BY <1>6, <1>7, <2>1, <2>3
                <5> QED
                    BY <1>7, <1>9, <1>11, <5>1
            <4>3. \A r \in due[c] : r[1] = c /\ r[2] <= position'[c] /\ r \notin Range(handed')
                BY <1>8, <1>11, <2>1, <2>2, <2>3
            <4> QED
                BY <2>3, <3>1, <4>1, <4>2, <4>3
    <2>4. CASE x # c
        <3>1. held'[x] = held[x] /\ aged'[x] = aged[x] /\ due'[x] = due[x]
            BY <1>1, <1>2, <1>5, <2>4
        <3>2. \A r \in held[x] \cup due[x] : r \notin o.doc
            BY <1>9, <2>1, <2>4
        <3> QED
            BY <1>11, <2>1, <2>2, <3>1, <3>2
    <2> QED
        BY <2>3, <2>4
<1>14. \A r \in Range(handed') : r[2] <= position'[r[1]]
    <2>1. ASSUME NEW r \in Range(handed) PROVE r[2] <= position'[r[1]]
        <3>1. r[1] \in Consumer /\ r[2] \in Nat /\ r[2] <= position[r[1]]
            BY <1>1, RangeOfSeq DEF OnceInv, HandedOnce, Message
        <3> QED
            BY <1>12, <3>1
    <2> QED
        BY <1>9, <1>11, <2>1
<1> QED
    BY <1>11, <1>13, <1>14 DEF HandedOnce

LEMMA OnceDrain ==
    ASSUME OnceInv, NEW c \in Consumer, Drain(c)
    PROVE  RowsKeptOnce' /\ HandedOnce'
<1>1. /\ due \in [Consumer -> SUBSET Message] /\ handed \in Seq(Message)
      /\ UNCHANGED <<position, held, aged>>
    BY DEF Drain, OnceInv, TypeOK
<1>2. CASE UNCHANGED <<due, handed>>
    BY <1>1, <1>2 DEF OnceInv, RowsKeptOnce, HandedOnce
<1>3. ASSUME NEW d \in due[c], due' = [due EXCEPT ![c] = @ \ {d}], Add(c, d)
      PROVE  RowsKeptOnce' /\ HandedOnce'
    <2>1. /\ d \in Message /\ d[1] = c /\ d[2] <= position[c] /\ d \notin Range(handed)
          /\ d \notin held[c] /\ handed' = Append(handed, d)
          /\ IsInjective(handed)
        BY <1>1, <1>3 DEF OnceInv, RowsKeptOnce, HandedOnce, Add, Hand
    <2>2. Range(handed') = Range(handed) \cup {d} /\ IsInjective(handed')
        BY <1>1, <2>1, RangeAppend, InjectiveAppend
    <2>3. RowsKeptOnce'
        BY <1>1, <1>3, <2>1, <2>2 DEF OnceInv, RowsKeptOnce
    <2> QED
        BY <1>1, <2>1, <2>2, <2>3 DEF OnceInv, HandedOnce
<1> QED
    BY <1>2, <1>3 DEF Drain

LEMMA OnceExpire ==
    ASSUME OnceInv, NEW c \in Consumer, Expire(c)
    PROVE  RowsKeptOnce' /\ HandedOnce'
<1>1. /\ due \in [Consumer -> SUBSET Message] /\ held \in [Consumer -> SUBSET Message]
      /\ aged \in [Consumer -> SUBSET Message]
      /\ UNCHANGED <<position, handed>>
      /\ due' = [due EXCEPT ![c] = aged[c]]
      /\ held' = [held EXCEPT ![c] = @ \ aged[c]]
      /\ aged' = [aged EXCEPT ![c] = @ \ aged[c]]
    BY DEF Expire, Expired, OnceInv, TypeOK, writer
<1>2. RowsKeptOnce'
    BY <1>1 DEF OnceInv, RowsKeptOnce
<1> QED
    BY <1>1, <1>2 DEF OnceInv, HandedOnce

\* The steps that move no row, or forget them all.
LEMMA OnceElsewhere ==
    ASSUME OnceInv,
           \/ /\ UNCHANGED <<position, held, due, handed>>
              /\ \A c \in Consumer : aged'[c] \subseteq held[c]
           \/ Crash
    PROVE  RowsKeptOnce' /\ HandedOnce'
<1>1. IsInjective(<<>>)
    BY DEF IsInjective
<1>2. CASE /\ UNCHANGED <<position, held, due, handed>>
           /\ \A c \in Consumer : aged'[c] \subseteq held[c]
    BY <1>2 DEF OnceInv, RowsKeptOnce, HandedOnce
<1>4. CASE Crash
    <2>1. \A c \in Consumer : aged'[c] = {} /\ held'[c] = {} /\ due'[c] = {}
        BY <1>4 DEF Crash
    <2>2. RowsKeptOnce'
        BY <2>1 DEF RowsKeptOnce
    <2>3. handed' = <<>>
        BY <1>4 DEF Crash
    <2> QED
        BY <1>1, <2>2, <2>3, RangeEmpty DEF HandedOnce
<1> QED
    BY <1>2, <1>4

LEMMA OnceStep ==
    ASSUME OnceInv, [Next]_vars
    PROVE  RowsKeptOnce' /\ HandedOnce'
<1>1. \A c \in Consumer : aged[c] \subseteq held[c]
    BY DEF OnceInv, RowsKeptOnce
<1>2. ASSUME NEW c \in Consumer,
             \/ EnterPoll(c) \/ PollFails(c) \/ Idle(c) \/ Commit(c) \/ LeaveLoop(c)
             \/ CheckSize(c) \/ StartFlush(c) \/ BulkSucceeds(c) \/ BulkRaises(c)
             \/ Clear(c)
      PROVE  RowsKeptOnce' /\ HandedOnce'
    <2>1. UNCHANGED <<position, held, aged, due, handed>>
        BY <1>2 DEF EnterPoll, PollFails, Idle, Commit, LeaveLoop, CheckSize, StartFlush,
           BulkSucceeds, BulkRaises, Clear, memory, writer
    <2> QED
        BY <1>1, <2>1, OnceElsewhere
<1>4. ASSUME NEW c \in Consumer, PairingTimeoutPasses(c)
      PROVE  RowsKeptOnce' /\ HandedOnce'
    <2>1. /\ UNCHANGED <<position, held, due, handed>>
          /\ aged' = [aged EXCEPT ![c] = held[c]]
          /\ aged \in [Consumer -> SUBSET Message]
        BY <1>4 DEF PairingTimeoutPasses, writer, OnceInv, TypeOK
    <2>2. \A o \in Consumer : aged'[o] \subseteq held[o]
        BY <1>1, <2>1
    <2> QED
        BY <2>1, <2>2, OnceElsewhere
<1>5. CASE FlushIntervalPasses \/ Signal \/ UNCHANGED vars
    <2>1. UNCHANGED <<position, held, aged, due, handed>>
        BY <1>5 DEF FlushIntervalPasses, Signal, vars, memory, writer
    <2> QED
        BY <1>1, <2>1, OnceElsewhere
<1> QED
    BY <1>2, <1>4, <1>5, OnceConsume, OnceDrain, OnceExpire, OnceElsewhere
       DEF Next, Step, Flush

LEMMA ClosedStep ==
    ASSUME TypeOK, ClosedAfterFlush, [Next]_vars
    PROVE  ClosedAfterFlush'
<1>1. /\ pc \in [Consumer -> PC] /\ ret \in [Consumer -> Return]
    BY DEF TypeOK
<1>2. ASSUME NEW c \in Consumer,
             \A o \in Consumer \ {c} : pc'[o] = pc[o] /\ ret'[o] = ret[o],
             pc'[c] = "added" => ret'[c] \in {"commit", "drain"},
             pc'[c] = "closed" => actions' = <<>>
      PROVE  ClosedAfterFlush'
    BY <1>2 DEF ClosedAfterFlush
<1>3. ASSUME NEW c \in Consumer, Consume(c) PROVE ClosedAfterFlush'
    <2>1. PICK o \in Outcomes(Topic[c][position[c] + 1], <<c, position[c] + 1>>, held[c]) :
            Process(c, Topic[c][position[c] + 1], o)
        BY <1>3 DEF Consume
    <2>2. \/ pc' = [pc EXCEPT ![c] = "loop"] /\ ret' = ret
          \/ pc' = [pc EXCEPT ![c] = "commit"] /\ ret' = ret
          \/ pc' = [pc EXCEPT ![c] = "added"] /\ ret' = [ret EXCEPT ![c] = "commit"]
        BY <2>1 DEF Process, Goto, Call
    <2> QED
        BY <1>1, <1>2, <2>2
<1>4. ASSUME NEW c \in Consumer, CheckSize(c) PROVE ClosedAfterFlush'
    <2>1. /\ pc[c] = "added" /\ UNCHANGED <<ret, actions>>
          /\ \/ pc' = [pc EXCEPT ![c] = "flush"]
             \/ pc' = [pc EXCEPT ![c] = ret[c]]
        BY <1>4 DEF CheckSize, Goto, writer
    <2>2. ret[c] \in {"commit", "drain"}
        BY <2>1 DEF ClosedAfterFlush
    <2> QED
        BY <1>1, <1>2, <2>1, <2>2
<1>5. ASSUME NEW c \in Consumer, StartFlush(c) \/ Clear(c) PROVE ClosedAfterFlush'
    <2>1. /\ UNCHANGED ret
          /\ \/ pc' = [pc EXCEPT ![c] = ret[c]] /\ actions' = <<>>
             \/ pc' = [pc EXCEPT ![c] = "bulk"]
        BY <1>5 DEF StartFlush, Clear, Goto, writer
    <2>2. ret[c] # "added"
        BY <1>1 DEF Return
    <2> QED
        BY <1>1, <1>2, <2>1, <2>2
<1>6. ASSUME NEW c \in Consumer,
             \/ BulkSucceeds(c) \/ BulkRaises(c) \/ Commit(c) \/ Expire(c)
             \/ EnterPoll(c) \/ PollFails(c) \/ Idle(c) \/ LeaveLoop(c)
      PROVE  ClosedAfterFlush'
    <2>1. /\ \E there \in {"clear", "loop", "poll", "flush", "expire", "drain"} :
               pc' = [pc EXCEPT ![c] = there]
          /\ \A o \in Consumer \ {c} : ret'[o] = ret[o]
        BY <1>1, <1>6 DEF BulkSucceeds, BulkRaises, Commit, Expire, EnterPoll, PollFails,
           Idle, LeaveLoop, Goto, Call
    <2> QED
        BY <1>1, <1>2, <2>1
<1>7. ASSUME NEW c \in Consumer, Drain(c) PROVE ClosedAfterFlush'
    <2>1. \/ pc' = [pc EXCEPT ![c] = "loop"] /\ ret' = ret
          \/ pc' = [pc EXCEPT ![c] = "added"] /\ ret' = [ret EXCEPT ![c] = "drain"]
        BY <1>7 DEF Drain, Goto, Call
    <2> QED
        BY <1>1, <1>2, <2>1
<1>8. CASE \/ \E c \in Consumer : PairingTimeoutPasses(c)
           \/ FlushIntervalPasses \/ Signal \/ UNCHANGED vars
    <2>1. UNCHANGED <<pc, ret, actions>>
        BY <1>8 DEF PairingTimeoutPasses, FlushIntervalPasses, Signal, vars, thread, writer
    <2> QED
        BY <2>1 DEF ClosedAfterFlush
<1>9. CASE Crash
    BY <1>9 DEF Crash, ClosedAfterFlush
<1> QED
    BY <1>3, <1>4, <1>5, <1>6, <1>7, <1>8, <1>9 DEF Next, Step, Flush

\* From one start of the process to the next no row is handed to the writer
\* twice, whatever was flushed in between: `handed` keeps every append.  And
\* when every consumer thread has closed the buffer is empty: process_message,
\* flush_pending, add() and the last flush() together, in every interleaving.
THEOREM BufferedOnceThenWritten == Spec => []BufferedOnceAndWritten
<1>1. Init => RowsKeptOnce /\ HandedOnce /\ ClosedAfterFlush
    <2> SUFFICES ASSUME Init PROVE RowsKeptOnce /\ HandedOnce /\ ClosedAfterFlush
        OBVIOUS
    <2>1. RowsKeptOnce /\ ClosedAfterFlush
        BY DEF Init, RowsKeptOnce, ClosedAfterFlush
    <2>2. handed = <<>>
        BY DEF Init
    <2> QED
        BY <2>1, <2>2, RangeEmpty DEF HandedOnce, IsInjective
<1>2. TypeOK /\ RowsKeptOnce /\ HandedOnce /\ ClosedAfterFlush /\ [Next]_vars
        => (RowsKeptOnce /\ HandedOnce /\ ClosedAfterFlush)'
    BY OnceStep, ClosedStep DEF OnceInv
<1>3. RowsKeptOnce /\ HandedOnce /\ ClosedAfterFlush => BufferedOnceAndWritten
    BY DEF HandedOnce, ClosedAfterFlush, BufferedOnceAndWritten
<1> QED
    BY <1>1, <1>2, <1>3, TypeCorrect, PTL DEF Spec
=============================================================================
