--------------------------- MODULE UdalPairingProofs ---------------------------
(***************************************************************************)
(* Proofs about UdalPairing, for any ids, uses of an id, losses and        *)
(* expiries: what UdalEventMerger keeps and builds, and that it implements *)
(* the pairing the consumer loop relies on.                                *)
(***************************************************************************)
EXTENDS UdalPairing, TLAPS

\* The request an id is being used for.
Current(q) == q[1] \in open /\ q[2] = used[q[1]]

\* An id that is open has been used.
OpenUsed == \A r \in open : used[r] >= 1

\* Only requests that came in are kept, dropped or written: the next use of
\* an id is new to all tables.
NamesUsed ==
    /\ \A q \in pending \cup dropped : q[2] <= used[q[1]]
    /\ \A d \in docs : d.sql[2] <= used[d.sql[1]]

\* The dictionary holds one request of an id.
OnePerId == \A p, q \in pending : p[1] = q[1] => p = q

\* A request is kept beyond its end only if its END did not come.
KeptCurrent == \A q \in pending : Current(q) \/ q \in unfinished

\* What was written is not kept.
WrittenGone == \A d \in docs : d.sql \notin pending

\* A cost that was spent came with an END.
CostsEnded ==
    \A d \in docs : \A c \in d.cost : c[2] <= used[c[1]] /\ ~Current(c)

\* While nothing is lost, only current requests are kept.
LosslessCurrent == losses = 0 => \A q \in pending : Current(q)

IInv ==
    /\ TypeOK /\ OpenUsed /\ NamesUsed /\ OnePerId /\ KeptCurrent
    /\ WrittenGone /\ CostsEnded /\ LosslessCurrent
    /\ SpentOnce /\ DroppedNeverFinished /\ RightCost

\* The invariant holds before the first event.
LEMMA InitInv == Init => IInv
    BY UdalAssumption
       DEF Init, IInv, TypeOK, OpenUsed, NamesUsed, OnePerId, KeptCurrent, WrittenGone,
           CostsEnded, LosslessCurrent, SpentOnce, DroppedNeverFinished, RightCost

-----------------------------------------------------------------------------
(* The operations on the dictionary.                                       *)

\* pop(id) finds the one request of the id, or none.
LEMMA AtMostOneAt ==
    ASSUME OnePerId, NEW r
    PROVE  At(r) \subseteq pending /\ \A p, q \in At(r) : p = q
    BY DEF OnePerId, At

\* The counter and the open ids, after a request came in.
LEMMA ReceiveEffect ==
    ASSUME TypeOK, NEW r \in Id, Receive(r)
    PROVE  /\ r \notin open /\ used[r] \in Nat /\ used[r] + 1 \in 1 .. MaxUse
           /\ used' \in [Id -> 0 .. MaxUse] /\ open' = open \cup {r}
           /\ used'[r] = used[r] + 1
           /\ \A s \in Id \ {r} : used'[s] = used[s]
           /\ unfinished' = unfinished
           /\ aged' = aged \cap pending'
           /\ \/ Store(<<r, used[r] + 1>>) /\ losses' = losses
              \/ UNCHANGED <<pending, docs, dropped>>
           /\ losses' \in 0 .. MaxLost /\ (losses' = 0 => losses = 0)
<1>1. used[r] \in 0 .. MaxUse
    BY DEF TypeOK
<1>2. used[r] + 1 \in 1 .. MaxUse
    BY <1>1, UdalAssumption DEF Receive
<1> QED
    BY <1>1, <1>2, UdalAssumption DEF Receive, TypeOK, Lose, Forget

\* RECEIVE_REQUEST keeps it: what it overwrites was never to end.
LEMMA ReceiveInv ==
    ASSUME IInv, NEW r \in Id, Receive(r)
    PROVE  IInv'
<1>1. TypeOK /\ OpenUsed /\ NamesUsed /\ OnePerId /\ KeptCurrent /\ WrittenGone /\ CostsEnded
      /\ LosslessCurrent /\ SpentOnce /\ DroppedNeverFinished /\ RightCost
    BY DEF IInv
<1>2. /\ r \notin open /\ used[r] \in Nat /\ used[r] + 1 \in 1 .. MaxUse
      /\ used' \in [Id -> 0 .. MaxUse] /\ open' = open \cup {r}
      /\ used'[r] = used[r] + 1
      /\ \A s \in Id \ {r} : used'[s] = used[s]
      /\ unfinished' = unfinished
      /\ aged' = aged \cap pending'
      /\ losses' \in 0 .. MaxLost /\ (losses' = 0 => losses = 0)
    BY <1>1, ReceiveEffect
<1>3. PICK q \in Request : q = <<r, used[r] + 1>> /\ q[1] = r /\ q[2] = used[r] + 1
    <2>1. <<r, used[r] + 1>> \in Request
        BY <1>2 DEF Request
    <2> QED
        BY <2>1
\* What the dictionary, the documents and the dropped requests become.
<1>4. /\ pending' \subseteq pending \cup {q}
      /\ docs' = docs
      /\ dropped' \subseteq dropped \cup At(r) /\ dropped \subseteq dropped'
      /\ (q \in pending' => pending' = (pending \ At(r)) \cup {q})
    <2>1. CASE Store(q)
        BY <1>3, <2>1 DEF Store
    <2>2. q \notin pending
        BY <1>1, <1>2, <1>3 DEF NamesUsed, TypeOK
    <2>3. CASE UNCHANGED <<pending, docs, dropped>>
        BY <2>2, <2>3
    <2> QED
        BY <1>1, <1>3, <2>1, <2>3, ReceiveEffect
<1>5. \A p \in Request : p[2] <= used[p[1]] => p[2] <= used'[p[1]]
    BY <1>1, <1>2 DEF Request, TypeOK
<1>6. \A p \in Request : p[2] <= used[p[1]] => (Current(p)' <=> Current(p))
    BY <1>1, <1>2, <1>5 DEF Request, Current, TypeOK
<1>7. /\ At(r) \subseteq pending /\ pending \subseteq Request /\ dropped \subseteq Request
      /\ \A d \in docs : d.sql \in Request /\ d.cost \subseteq Request
    BY <1>1 DEF At, TypeOK, Document
<1>8. TypeOK'
    BY <1>1, <1>2, <1>3, <1>4, <1>7 DEF TypeOK
<1>9. OpenUsed'
    BY <1>1, <1>2 DEF OpenUsed, TypeOK
<1>10. NamesUsed'
    <2>1. pending' \cup dropped' \subseteq pending \cup dropped \cup {q}
        BY <1>4, <1>7
    <2>2. q[2] <= used'[q[1]]
        BY <1>2, <1>3
    <2>3. \A p \in pending \cup dropped : p \in Request /\ p[2] <= used[p[1]]
        BY <1>1, <1>7 DEF NamesUsed
    <2>4. \A p \in pending' \cup dropped' : p[2] <= used'[p[1]]
        BY <1>5, <2>1, <2>2, <2>3
    <2>5. \A d \in docs' : d.sql[2] <= used'[d.sql[1]]
        BY <1>1, <1>4, <1>5, <1>7 DEF NamesUsed
    <2> QED
        BY <2>4, <2>5 DEF NamesUsed
<1>11. OnePerId'
    BY <1>1, <1>3, <1>4 DEF OnePerId, At
<1>12. Current(q)'
    BY <1>2, <1>3 DEF Current
<1>13. \A p \in pending : Current(p) => Current(p)'
    BY <1>1, <1>6, <1>7 DEF NamesUsed
<1>14. KeptCurrent'
    BY <1>1, <1>2, <1>4, <1>12, <1>13 DEF KeptCurrent
<1>15. WrittenGone'
    <2>1. \A d \in docs : d.sql # q
        BY <1>1, <1>2, <1>3 DEF NamesUsed
    <2> QED
        BY <1>1, <1>4, <2>1 DEF WrittenGone
<1>16. CostsEnded'
    BY <1>1, <1>4, <1>5, <1>6, <1>7 DEF CostsEnded
<1>17. LosslessCurrent'
    BY <1>1, <1>2, <1>4, <1>12, <1>13 DEF LosslessCurrent
<1>18. SpentOnce'
    BY <1>1, <1>4 DEF SpentOnce
<1>19. DroppedNeverFinished'
    \* What the new request overwrites is of an id that was not open.
    BY <1>1, <1>2, <1>4 DEF DroppedNeverFinished, KeptCurrent, Current, At
<1>20. RightCost'
    BY <1>1, <1>2, <1>4 DEF RightCost
<1> QED
    BY <1>8, <1>9, <1>10, <1>11, <1>14, <1>15, <1>16, <1>17, <1>18, <1>19,
       <1>20 DEF IInv

-----------------------------------------------------------------------------
(* END_REQUEST.                                                            *)

\* The three outcomes of an END, for the request q it ends.
EndsWell(q) ==
    /\ pending' = pending \ At(q[1])
    /\ docs' = docs \cup {[sql |-> p, cost |-> {q}] : p \in At(q[1])}
    /\ UNCHANGED <<dropped, unfinished, losses>>
EndsBadly(q) ==
    /\ pending' = pending \ At(q[1])
    /\ dropped' = dropped \cup At(q[1])
    /\ unfinished' = unfinished \cup {q}
    /\ UNCHANGED <<docs, losses>>
EndLost(q) ==
    /\ unfinished' = unfinished \cup {q}
    /\ losses' = losses + 1 /\ losses < MaxLost
    /\ UNCHANGED <<pending, docs, dropped>>

\* An END is of the one request its id is being used for.
LEMMA EndEffect ==
    ASSUME TypeOK, OpenUsed, NEW r \in Id, End(r)
    PROVE  \E q \in Request :
             /\ q[1] = r /\ Current(q)
             /\ \A p \in Request : Current(p) /\ p[1] = r => p = q
             /\ open' = open \ {r} /\ used' = used /\ aged' = aged \cap pending'
             /\ EndsWell(q) \/ EndsBadly(q) \/ EndLost(q)
<1>1. r \in open /\ used[r] \in 1 .. MaxUse
    BY UdalAssumption DEF End, TypeOK, OpenUsed
<1>2. PICK q \in Request : q = <<r, used[r]>>
    <2>1. <<r, used[r]>> \in Request
        BY <1>1 DEF Request
    <2> QED
        BY <2>1
<1>3. q[1] = r /\ Current(q)
    BY <1>1, <1>2 DEF Current
<1>4. \A p \in Request : Current(p) /\ p[1] = r => p = q
    BY <1>2 DEF Current, Request
<1>5. open' = open \ {r} /\ used' = used /\ aged' = aged \cap pending'
    BY DEF End, Forget
<1>6. EndsWell(q) \/ EndsBadly(q) \/ EndLost(q)
    BY <1>2 DEF End, Pop, Lose, EndsWell, EndsBadly, EndLost
<1> QED
    BY <1>3, <1>4, <1>5, <1>6

\* END_REQUEST keeps it: what it pops is its own request, or an END was lost.
LEMMA EndInv ==
    ASSUME IInv, NEW r \in Id, End(r)
    PROVE  IInv'
<1>1. TypeOK /\ OpenUsed /\ NamesUsed /\ OnePerId /\ KeptCurrent /\ WrittenGone /\ CostsEnded
      /\ LosslessCurrent /\ SpentOnce /\ DroppedNeverFinished /\ RightCost
    BY DEF IInv
<1>2. PICK q \in Request :
        /\ q[1] = r /\ Current(q)
        /\ \A p \in Request : Current(p) /\ p[1] = r => p = q
        /\ open' = open \ {r} /\ used' = used /\ aged' = aged \cap pending'
        /\ EndsWell(q) \/ EndsBadly(q) \/ EndLost(q)
    BY <1>1, EndEffect
<1>3. /\ At(r) \subseteq pending /\ pending \subseteq Request /\ dropped \subseteq Request
      /\ \A d \in docs : d.sql \in Request /\ d.cost \subseteq Request
      /\ \A p, s \in At(r) : p = s
      /\ \A p \in pending \ At(r) : p[1] # r
    BY <1>1 DEF At, TypeOK, Document, OnePerId
<1>4. \A p \in Request : Current(p)' <=> Current(p) /\ p[1] # r
    BY <1>2 DEF Current
\* What an END pops is the request it ends, or one whose own END was lost.
<1>5. \A p \in At(r) : p = q \/ p \in unfinished
    BY <1>1, <1>2, <1>3 DEF KeptCurrent, At
<1>6. losses = 0 => At(r) \subseteq {q}
    BY <1>1, <1>2, <1>3 DEF LosslessCurrent, At
<1>7. OpenUsed'
    BY <1>1, <1>2 DEF OpenUsed
<1>8. /\ \A p \in pending' : p \in pending
      /\ \A p, s \in pending' : p[1] = s[1] => p = s
    BY <1>1, <1>2, <1>3 DEF EndsWell, EndsBadly, EndLost, OnePerId
<1>9. CASE EndsWell(q)
    <2> DEFINE new == {[sql |-> p, cost |-> {q}] : p \in At(r)}
    <2>1. /\ pending' = pending \ At(r) /\ docs' = docs \cup new
          /\ dropped' = dropped /\ unfinished' = unfinished /\ losses' = losses
        BY <1>2, <1>9 DEF EndsWell
    <2>2. /\ new \subseteq Document
          /\ \A d \in new : d.sql \in At(r) /\ d.cost = {q}
        BY <1>3 DEF Document
    <2>3. TypeOK'
        BY <1>1, <1>2, <2>1, <2>2 DEF TypeOK
    <2>4. NamesUsed'
        BY <1>1, <1>2, <1>3, <2>1, <2>2 DEF NamesUsed
    <2>5. KeptCurrent' /\ LosslessCurrent'
        BY <1>1, <1>3, <1>4, <2>1 DEF KeptCurrent, LosslessCurrent
    <2>6. WrittenGone'
        BY <1>1, <2>1, <2>2 DEF WrittenGone
    <2>7. CostsEnded'
        <3>1. q[2] <= used'[q[1]] /\ ~Current(q)'
            BY <1>1, <1>2, <1>4 DEF Current, TypeOK, Request
        <3>2. \A d \in docs : \A c \in d.cost : c[2] <= used'[c[1]] /\ ~Current(c)'
            BY <1>1, <1>2, <1>3, <1>4 DEF CostsEnded
        <3> QED
            BY <2>1, <2>2, <3>1, <3>2 DEF CostsEnded
    <2>8. SpentOnce'
        <3>1. \A d, e \in new : d = e
            BY <1>3, <2>2
        <3>2. \A d \in docs : q \notin d.cost
            BY <1>1, <1>2 DEF CostsEnded
        <3>3. \A d \in docs, e \in new : d.sql # e.sql /\ d.cost \cap e.cost = {}
            BY <1>1, <1>3, <2>2, <3>2 DEF WrittenGone
        <3> QED
            BY <1>1, <2>1, <3>1, <3>3 DEF SpentOnce
    <2>9. DroppedNeverFinished'
        BY <1>1, <2>1 DEF DroppedNeverFinished
    <2>10. RightCost'
        BY <1>1, <1>6, <2>1, <2>2 DEF RightCost
    <2> QED
        BY <1>7, <1>8, <2>3, <2>4, <2>5, <2>6, <2>7, <2>8, <2>9, <2>10 DEF IInv, OnePerId
<1>10. CASE EndsBadly(q) \/ EndLost(q)
    <2>1. /\ docs' = docs /\ unfinished' = unfinished \cup {q}
          /\ dropped' \subseteq dropped \cup At(r)
          /\ \/ pending' = pending \ At(r) /\ losses' = losses
             \/ pending' = pending /\ losses' = losses + 1 /\ losses < MaxLost
        BY <1>2, <1>10 DEF EndsBadly, EndLost
    <2>2. losses' \in 0 .. MaxLost /\ (losses' = 0 => losses = 0 /\ pending' = pending \ At(r))
        BY <1>1, <2>1, UdalAssumption DEF TypeOK
    <2>3. TypeOK'
        BY <1>1, <1>2, <1>3, <2>1, <2>2 DEF TypeOK
    <2>4. NamesUsed'
        BY <1>1, <1>2, <1>3, <1>8, <2>1 DEF NamesUsed
    <2>5. KeptCurrent'
        BY <1>1, <1>2, <1>3, <1>4, <1>8, <2>1 DEF KeptCurrent
    <2>6. LosslessCurrent'
        BY <1>1, <1>3, <1>4, <2>2 DEF LosslessCurrent
    <2>7. WrittenGone'
        BY <1>1, <1>8, <2>1 DEF WrittenGone
    <2>8. CostsEnded'
        BY <1>1, <1>2, <1>3, <1>4, <2>1 DEF CostsEnded
    <2>9. SpentOnce'
        BY <1>1, <2>1 DEF SpentOnce
    <2>10. DroppedNeverFinished'
        BY <1>1, <1>5, <2>1 DEF DroppedNeverFinished
    <2>11. RightCost'
        BY <1>1, <2>1, <2>2 DEF RightCost
    <2> QED
        BY <1>7, <1>8, <2>3, <2>4, <2>5, <2>6, <2>7, <2>8, <2>9, <2>10, <2>11 DEF IInv, OnePerId
<1> QED
    BY <1>2, <1>9, <1>10

-----------------------------------------------------------------------------
(* flush_expired.                                                          *)

\* flush_expired keeps it: what it writes is no longer kept.
LEMMA FlushExpiredInv ==
    ASSUME IInv, FlushExpired
    PROVE  IInv'
<1> DEFINE new == {[sql |-> q, cost |-> {}] : q \in aged}
<1>1. TypeOK /\ OpenUsed /\ NamesUsed /\ OnePerId /\ KeptCurrent /\ WrittenGone /\ CostsEnded
      /\ LosslessCurrent /\ SpentOnce /\ DroppedNeverFinished /\ RightCost
    BY DEF IInv
<1>2. /\ docs' = docs \cup new /\ pending' = pending \ aged /\ aged' = {}
      /\ used' = used /\ open' = open /\ dropped' = dropped
      /\ unfinished' = unfinished /\ losses' = losses
    BY DEF FlushExpired, Left, proxy
<1>3. aged \subseteq pending /\ pending \subseteq Request
    BY <1>1 DEF TypeOK
<1>4. /\ new \subseteq Document
      /\ \A d \in new : d.sql \in aged /\ d.cost = {}
      /\ \A d, e \in new : d # e => d.sql # e.sql
    BY <1>3 DEF Document
<1>5. TypeOK'
    BY <1>1, <1>2, <1>4 DEF TypeOK
<1>6. OpenUsed' /\ OnePerId'
    BY <1>1, <1>2 DEF OpenUsed, OnePerId
<1>7. NamesUsed'
    BY <1>1, <1>2, <1>3, <1>4 DEF NamesUsed
<1>8. KeptCurrent' /\ LosslessCurrent'
    BY <1>1, <1>2 DEF KeptCurrent, LosslessCurrent, Current
<1>9. WrittenGone'
    BY <1>1, <1>2, <1>4 DEF WrittenGone
<1>10. CostsEnded'
    BY <1>1, <1>2, <1>4 DEF CostsEnded, Current
<1>11. SpentOnce'
    <2>1. \A d \in docs, e \in new : d.sql # e.sql
        BY <1>1, <1>3, <1>4 DEF WrittenGone
    <2> QED
        BY <1>1, <1>2, <1>4, <2>1 DEF SpentOnce
<1>12. DroppedNeverFinished' /\ RightCost'
    BY <1>1, <1>2, <1>4 DEF DroppedNeverFinished, RightCost
<1> QED
    BY <1>5, <1>6, <1>7, <1>8, <1>9, <1>10, <1>11, <1>12 DEF IInv

\* Every step keeps it.
LEMMA NextInv == IInv /\ [Next]_vars => IInv'
<1> SUFFICES ASSUME IInv, [Next]_vars PROVE IInv'
    OBVIOUS
<1>1. CASE TimeoutPasses \/ UNCHANGED vars
    <2>1. /\ UNCHANGED <<used, open, pending, docs, dropped, unfinished, losses>>
          /\ aged' \in {aged, pending}
        BY <1>1 DEF TimeoutPasses, vars, proxy
    <2> QED
        BY <2>1 DEF IInv, TypeOK, OpenUsed, NamesUsed, OnePerId, KeptCurrent, WrittenGone,
                    CostsEnded, LosslessCurrent, SpentOnce, DroppedNeverFinished, RightCost,
                    Current
<1> QED
    BY <1>1, ReceiveInv, EndInv, FlushExpiredInv DEF Next

\* The invariant holds in every reachable state.
THEOREM Invariance == Spec => []IInv
    BY InitInv, NextInv, PTL DEF Spec

\* The merger's table in every reachable state: no request is written twice, no
\* cost is spent twice, and add_event overwrites no request that is still to end.
THEOREM TablesStayConsistent == Spec => []TablesConsistent
<1>1. IInv => TablesConsistent
    BY DEF IInv, TablesConsistent
<1> QED
    BY <1>1, Invariance, PTL

\* While no event is lost, a document has the cost of its own request, whatever
\* requests are open, time out, and use an id again.
THEOREM CostsRight == Spec => []RightCost
<1>1. IInv => RightCost
    BY DEF IInv
<1> QED
    BY <1>1, Invariance, PTL

-----------------------------------------------------------------------------
(* The refinement of Pairing.                                              *)

\* What an id has pending is at most one row, as the contract asks.
LEMMA OneGone ==
    ASSUME OnePerId, NEW r
    PROVE  At(r) \in Abstract!AtMostOneOf(pending)
<1>1. CASE At(r) = {}
    BY <1>1 DEF Abstract!AtMostOneOf
<1>2. ASSUME NEW h \in At(r) PROVE At(r) \in Abstract!AtMostOneOf(pending)
    <2>1. At(r) = {h} /\ h \in pending
        BY <1>2, AtMostOneAt
    <2> QED
        BY <2>1 DEF Abstract!AtMostOneOf
<1> QED
    BY <1>1, <1>2

\* A request that is kept is an "open" message.
LEMMA ReceiveRefines ==
    ASSUME IInv, NEW r \in Id, Receive(r)
    PROVE  [Abstract!Next]_Abstract!vars
<1>1. TypeOK /\ NamesUsed /\ OnePerId
    BY DEF IInv
<1>2. r \notin open /\ used[r] \in Nat /\ used[r] + 1 \in 1 .. MaxUse
    BY <1>1, ReceiveEffect
<1>3. CASE UNCHANGED <<pending, docs, dropped>>
    BY <1>3 DEF Abstract!vars
<1>4. CASE Store(<<r, used[r] + 1>>)
    <2>1. PICK q \in Request : q = <<r, used[r] + 1>> /\ q[1] = r /\ q[2] = used[r] + 1
        <3>1. <<r, used[r] + 1>> \in Request
            BY <1>2 DEF Request
        <3> QED
            BY <3>1
    <2>2. q \notin pending \cup {d.sql : d \in docs} \cup dropped
        BY <1>1, <1>2, <2>1 DEF NamesUsed
    <2>3. /\ pending' = (pending \ At(r)) \cup {q} /\ docs' = docs
          /\ dropped' = dropped \cup At(r)
        BY <1>4, <2>1 DEF Store
    <2>4. Abstract!Out((pending \ At(r)) \cup {q}, {}, At(r)) \in Abstract!Outcomes("open", q, pending)
        BY <1>1, OneGone DEF Abstract!Outcomes, Abstract!OpenOutcomes
    <2>5. Abstract!Process("open", q)
        BY <2>2, <2>3, <2>4 DEF Abstract!Process, Abstract!Fresh, Abstract!Out
    <2> QED
        BY <2>5 DEF Abstract!Next, Abstract!Kind
<1> QED
    BY <1>1, <1>3, <1>4, ReceiveEffect

\* The requests written, when documents are added.
LEMMA StatementsOfUnion ==
    ASSUME NEW D, NEW E
    PROVE  {d.sql : d \in D \cup E} = {d.sql : d \in D} \cup {d.sql : d \in E}
<1> QED
    BY Zenon

\* An END is a "close" or a "poison" message, or changes nothing that shows.
LEMMA EndRefines ==
    ASSUME IInv, NEW r \in Id, End(r)
    PROVE  [Abstract!Next]_Abstract!vars
<1>1. TypeOK /\ OpenUsed /\ OnePerId
    BY DEF IInv
<1>2. PICK q \in Request :
        /\ q[1] = r
        /\ EndsWell(q) \/ EndsBadly(q) \/ EndLost(q)
    BY <1>1, EndEffect
<1>3. CASE EndLost(q)
    BY <1>3 DEF EndLost, Abstract!vars
<1>4. CASE EndsBadly(q)
    <2>1. /\ pending' = pending \ At(r) /\ docs' = docs
          /\ dropped' = dropped \cup At(r)
        BY <1>2, <1>4 DEF EndsBadly
    <2>2. Abstract!Out(pending \ At(r), {}, At(r)) \in Abstract!Outcomes("poison", q, pending)
        BY <1>1, OneGone DEF Abstract!Outcomes, Abstract!PoisonOutcomes
    <2>3. Abstract!Process("poison", q)
        BY <2>1, <2>2 DEF Abstract!Process, Abstract!SqlKind, Abstract!Out
    <2> QED
        BY <2>3 DEF Abstract!Next, Abstract!Kind
<1>5. CASE EndsWell(q) /\ At(r) = {}
    BY <1>2, <1>5 DEF EndsWell, Abstract!vars
<1>6. ASSUME EndsWell(q), NEW h \in At(r) PROVE Abstract!Next
    <2>1. At(r) = {h} /\ h \in pending
        BY <1>1, <1>6, AtMostOneAt
    <2>2. /\ pending' = pending \ {h} /\ dropped' = dropped
          /\ docs' = docs \cup {[sql |-> h, cost |-> {q}]}
        BY <1>2, <1>6, <2>1 DEF EndsWell
    <2>3. {d.sql : d \in docs'} = {d.sql : d \in docs} \cup {h}
        <3>1. {d.sql : d \in {[sql |-> h, cost |-> {q}]}} = {h}
            <4> DEFINE doc == [sql |-> h, cost |-> {q}]
            <4>1. doc.sql = h
                OBVIOUS
            <4> HIDE DEF doc
            <4>2. {d.sql : d \in {doc}} = {doc.sql}
                BY Zenon
            <4> QED
                BY <4>1, <4>2 DEF doc
        <3> QED
            BY <2>2, <3>1, StatementsOfUnion
    <2>4. Abstract!Out(pending \ {h}, {h}, {}) \in Abstract!Outcomes("close", q, pending)
        BY <2>1 DEF Abstract!Outcomes, Abstract!CloseOutcomes
    <2>5. Abstract!Process("close", q)
        BY <2>2, <2>3, <2>4 DEF Abstract!Process, Abstract!SqlKind, Abstract!Out
    <2> QED
        BY <2>5 DEF Abstract!Next, Abstract!Kind
<1> QED
    BY <1>2, <1>3, <1>4, <1>5, <1>6

\* flush_expired is the contract's expiry.
LEMMA FlushExpiredRefines ==
    ASSUME IInv, FlushExpired
    PROVE  Abstract!Expire
<1>1. /\ aged \subseteq pending /\ pending' = pending \ aged /\ dropped' = dropped
      /\ docs' = docs \cup {[sql |-> q, cost |-> {}] : q \in aged}
    BY DEF IInv, TypeOK, FlushExpired, Left
<1>2. {d.sql : d \in docs'} = {d.sql : d \in docs} \cup aged
    <2> DEFINE doc(q) == [sql |-> q, cost |-> {}]
    <2>1. ASSUME NEW q \in aged PROVE doc(q).sql = q
        OBVIOUS
    <2> HIDE DEF doc
    <2>2. {d.sql : d \in {doc(q) : q \in aged}} = aged
        BY <2>1, Zenon
    <2>3. {[sql |-> q, cost |-> {}] : q \in aged} = {doc(q) : q \in aged}
        BY DEF doc
    <2> QED
        BY <1>1, <2>2, <2>3, StatementsOfUnion
<1> QED
    BY <1>1, <1>2 DEF Abstract!Expire

\* Every step is one of the contract, or changes nothing it shows.
LEMMA StepRefines == IInv /\ [Next]_vars => [Abstract!Next]_Abstract!vars
<1> SUFFICES ASSUME IInv, [Next]_vars PROVE [Abstract!Next]_Abstract!vars
    OBVIOUS
<1>1. CASE TimeoutPasses \/ UNCHANGED vars
    BY <1>1 DEF TimeoutPasses, vars, Abstract!vars
<1>2. CASE FlushExpired
    BY <1>2, FlushExpiredRefines DEF Abstract!Next
<1> QED
    BY <1>1, <1>2, ReceiveRefines, EndRefines DEF Next

\* UdalEventMerger implements the pairing the consumer loop relies on: a request
\* is kept, written or dropped, once, as PairingContract says.
THEOREM PairingImplemented == Spec => ImplementsPairing
<1>1. Init => Abstract!Init
    BY DEF Init, Abstract!Init
<1> QED
    BY <1>1, StepRefines, Invariance, PTL DEF Spec, ImplementsPairing, Abstract!Spec
=============================================================================
