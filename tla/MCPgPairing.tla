----------------------------- MODULE MCPgPairing -----------------------------
(***************************************************************************)
(* Server processes for model checking PgPairing.                          *)
(***************************************************************************)
EXTENDS PgPairing

CONSTANTS p1, p2

MCPid == {p1, p2}
MCEvery == {"business", "filtered", "control"}
=============================================================================
