---------------------------- MODULE MCResultList ----------------------------
(***************************************************************************)
(* ResultList with three tasks, one of them made today, and pages of two:  *)
(* the second page has one row, so that removing a row of the first one    *)
(* empties it.                                                             *)
(***************************************************************************)
EXTENDS ResultList, TLC

CONSTANTS t1, t2, t3

MCTask == {t1, t2, t3}
MCNewest == <<t1, t2, t3>>
MCMatching == (t1 :> {}) @@ (t2 :> {"today"}) @@ (t3 :> {})
=============================================================================
