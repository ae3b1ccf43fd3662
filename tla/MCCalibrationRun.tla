-------------------------- MODULE MCCalibrationRun --------------------------
(* Two controllers on a cohort of one intake and the verifier, with a call *)
(* to spare for a second attempt.                                          *)
EXTENDS CalibrationRun
=============================================================================
