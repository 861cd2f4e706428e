------------------------------- MODULE MCStages -------------------------------
(* The stages of one batch alone.                                          *)
EXTENDS RunnerStages
=============================================================================
