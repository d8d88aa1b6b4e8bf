------------------------------ MODULE MCSchemes ------------------------------
(* Instances of Schemes for TLC. *)
EXTENDS Schemes

\* Any function will do for the hash; this one depends on every number.
MCHash(domain, input) ==
    FoldLeft(LAMBDA h, x : (h * 31 + x + 7) % 1009, domain, input)

=============================================================================
