-------------------------- MODULE MCThresholdRound --------------------------
(* Two nodes with proper key shares and one without, any two of them enough. *)
EXTENDS ThresholdRound
=============================================================================
