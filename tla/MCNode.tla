------------------------------- MODULE MCNode -------------------------------
(* The instances of Node for TLC. *)
EXTENDS Node, TLC
=============================================================================
