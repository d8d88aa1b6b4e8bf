------------------------------ MODULE MCFrost ------------------------------
(* Node ids are the numbers SignerGroup::new draws from; a configuration gives *)
(* the groups that the hash of the message may select.                         *)
EXTENDS Frost
=============================================================================
