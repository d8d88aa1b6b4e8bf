--------------------------- MODULE ThresholdService ---------------------------
(***************************************************************************)
(* What a threshold protocol promises for one request: a node that ends    *)
(* with a result ends with the right one, and only after at least          *)
(* Threshold nodes have released a valid share.  A node may also fail, or  *)
(* never end.                                                              *)
(***************************************************************************)
EXTENDS Naturals, FiniteSets

CONSTANTS
  Nodes,       \* all nodes, by share id
  Observers,   \* the nodes whose results are promised to be right
  Threshold

VARIABLES
  released,    \* the nodes that have released a valid share
  outcome      \* what each observer ended with

Init ==
  /\ released = {}
  /\ outcome = [p \in Observers |-> "none"]

\* A valid share of node p is on the network.
Release(p) ==
  /\ released' = released \cup {p}
  /\ UNCHANGED outcome

Finish(p) ==
  /\ outcome[p] = "none"
  /\ Cardinality(released) >= Threshold
  /\ outcome' = [outcome EXCEPT ![p] = "value"]
  /\ UNCHANGED released

Fail(p) ==
  /\ outcome[p] = "none"
  /\ outcome' = [outcome EXCEPT ![p] = "failed"]
  /\ UNCHANGED released

Next == \/ \E p \in Nodes : Release(p)
        \/ \E p \in Observers : Finish(p) \/ Fail(p)

Spec == Init /\ [][Next]_<<released, outcome>>
=============================================================================
