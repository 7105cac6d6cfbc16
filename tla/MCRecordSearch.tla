--------------------------- MODULE MCRecordSearch ---------------------------
(***************************************************************************)
(* RecordSearch with two clusters, of which one meets the constraint typed *)
(* into the form and both that of the quick filter.                        *)
(***************************************************************************)
EXTENDS RecordSearch, TLC

CONSTANTS k1, k2

MCCluster == {k1, k2}
MCRanking == <<k1, k2>>
MCMatching == (k1 :> {"today"}) @@ (k2 :> {"today", "typed"})
=============================================================================
