-------------------------- MODULE MCInstanceManager --------------------------
(* Model-checking instances of InstanceManager. *)
EXTENDS InstanceManager, TLC

Symmetry == Permutations(Calls) \cup Permutations(Ids) \cup Permutations(Tags)
=============================================================================
