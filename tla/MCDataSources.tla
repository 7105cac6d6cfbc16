---------------------------- MODULE MCDataSources ----------------------------
(***************************************************************************)
(* DataSources with one source, two targets and two passwords.             *)
(***************************************************************************)
EXTENDS DataSources

MCWorks == {<<"a", "p">>}
=============================================================================
