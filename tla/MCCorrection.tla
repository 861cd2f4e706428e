----------------------------- MODULE MCCorrection -----------------------------
(* The corrections of one batch alone.                                     *)
EXTENDS CorrectionRounds
=============================================================================
