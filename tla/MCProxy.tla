------------------------------- MODULE MCProxy -------------------------------
(* Instances of Proxy for TLC. *)
EXTENDS Proxy, TLC

CONSTANTS b1, b2, i1

MCIdOf == [b \in Blocks |-> i1]

=============================================================================
