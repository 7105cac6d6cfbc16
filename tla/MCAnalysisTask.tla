---------------------------- MODULE MCAnalysisTask ----------------------------
(***************************************************************************)
(* Tasks for model checking AnalysisTask.                                  *)
(***************************************************************************)
EXTENDS AnalysisTask

CONSTANTS t1, t2

MCTask == {t1, t2}
=============================================================================
