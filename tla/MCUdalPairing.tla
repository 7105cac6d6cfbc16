---------------------------- MODULE MCUdalPairing ----------------------------
(***************************************************************************)
(* Request ids for model checking UdalPairing.                             *)
(***************************************************************************)
EXTENDS UdalPairing

CONSTANTS r1, r2

MCId == {r1, r2}
=============================================================================
