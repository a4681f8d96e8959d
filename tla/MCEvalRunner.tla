---------------------------- MODULE MCEvalRunner ----------------------------
(***************************************************************************)
(* EvalRunner for TLC: scenarios of the names the first two files have.    *)
(***************************************************************************)
EXTENDS EvalRunner

MCScenarios == {"crashloop_bad_config", "crashloop_bad_image"}
=============================================================================
