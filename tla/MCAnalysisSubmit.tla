-------------------------- MODULE MCAnalysisSubmit --------------------------
(***************************************************************************)
(* AnalysisSubmit has only numbers for constants; this module is the root  *)
(* TLC checks.                                                             *)
(***************************************************************************)
EXTENDS AnalysisSubmit
=============================================================================
