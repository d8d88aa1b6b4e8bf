----------------------------- MODULE MCKeyStore -----------------------------
(* Two keys of one kind, and one of another kind for the same operation.     *)
EXTENDS KeyStore, TLC

CONSTANTS k1, k2, k3

MCKind == k1 :> "sg02" @@ k2 :> "sg02" @@ k3 :> "bz03"

\* The two keys of a kind can be exchanged.
Symmetry == Permutations({k1, k2})

MCOperation == "sg02" :> "encryption" @@ "bz03" :> "encryption"
=============================================================================
