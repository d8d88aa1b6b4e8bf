------------------------------- MODULE Schemes -------------------------------
(***************************************************************************)
(* One key and one request of a threshold scheme, from key generation to   *)
(* the assembled result, as core/schemes is driven through                 *)
(* key_generator.rs and interface.rs: the keys are dealt, a ciphertext is  *)
(* made or a message or coin name chosen, FROST's signers commit, nodes    *)
(* compute their shares in any order, and any set of enough shares is      *)
(* assembled.  The algorithms are those of DlSchemes and RsaScheme; every  *)
(* random number they draw is a choice here.                               *)
(***************************************************************************)
EXTENDS RsaScheme

CONSTANTS
    N,          \* number of nodes a key is dealt to
    Groups,     \* of "bls12381", "bn254", "ed25519", "rsa512"
    Secrets,    \* the secrets drawn
    Coeffs,     \* the coefficients drawn
    Nonces,     \* the other scalars drawn
    Messages,   \* messages and coin names, as numbers
    Vs, Us      \* the candidates drawn for v and u of an SH00 key

\* The ids are invertible modulo the order and fit the width interpolate of
\* rsa_schemes casts them to; n! has an inverse modulo p1 q1.
ASSUME SizeAssumption ==
    /\ N \in Nat \ {0} /\ N < Q /\ N < 2^IdBits
    /\ N < P1 /\ N < Q1 /\ P1 # Q1
    /\ Secrets \cup Coeffs \cup Nonces \subseteq Scalars

Label == 0

VARIABLES
    key,      \* the key dealt: public part and every node's share xi
    request,  \* the ciphertext, message or coin name being worked on
    nonces,   \* FROST: signer -> its nonces and commitments
    shares,   \* node -> the share it computed
    outcome   \* what assemble returned

vars == <<key, request, nonces, shares, outcome>>

Nodes == 1 .. N

None == [scheme |-> "none"]

Init ==
    /\ key = None
    /\ request = None
    /\ nonces = <<>>
    /\ shares = <<>>
    /\ outcome = [is |-> "none"]

-----------------------------------------------------------------------------
(* scheme_types_impl.rs and KeyGenerator::generate_keys *)

is_dl(group) == group \in {"bls12381", "bn254", "ed25519"}
supports_pairings(group) == group \in {"bls12381", "bn254"}

\* The checks generate_keys makes; FROST is given no check of its own, and
\* panics where it asks an RSA group for its order.
Compatible(scheme, group) ==
    CASE scheme \in {"bz03", "bls04"} -> supports_pairings(group) /\ is_dl(group)
      [] scheme \in {"sg02", "cks05", "frost"} -> is_dl(group)
      [] scheme = "sh00" -> ~is_dl(group)

\* 1 <= k is the caller's: k - 1 coefficients are drawn.
GenerateDl(scheme, group) ==
    /\ Compatible(scheme, group)
    /\ \E k \in Nodes, x \in Secrets, g_bar \in Nonces :
       \E coeff \in [1 .. k - 1 -> Coeffs] :
          LET xi == shamir_share(x, coeff, N)
          IN  key' = [scheme |-> scheme, group |-> group, k |-> k,
                      x |-> x, xi |-> xi, y |-> x, vk |-> xi,
                      g_bar |-> IF scheme = "sg02" THEN g_bar ELSE 0]

GenerateSh00(group) ==
    /\ Compatible("sh00", group)
    /\ \E k \in Nodes, s \in Vs, u \in Us :
       \E coeff \in [1 .. k - 1 -> Coeffs] :
          LET v  == (s * s) % Modulus
              xi == shamir_share_rsa(inv_mod(E, M), coeff, N)
          IN  /\ IsU(u)
              /\ key' = [scheme |-> "sh00", group |-> group, k |-> k, xi |-> xi,
                         v |-> v, u |-> u, delta |-> fac[N],
                         vk |-> [i \in Nodes |-> pow_mod[v, xi[i], Modulus]]]

GenerateKeys ==
    /\ key = None
    /\ \E group \in Groups :
          \/ \E scheme \in {"sg02", "bz03", "cks05", "bls04", "frost"} :
                GenerateDl(scheme, group)
          \/ GenerateSh00(group)
    /\ UNCHANGED <<request, nonces, shares, outcome>>

-----------------------------------------------------------------------------
(* interface.rs: the scheme of the key selects the algorithm *)

Encrypts == key.scheme \in {"sg02", "bz03"}

\* ThresholdCipher::encrypt
Encrypt ==
    /\ request = None /\ Encrypts
    /\ \E msg \in Messages, k \in 0 .. 1, r \in Nonces :
          \/ /\ key.scheme = "sg02"
             /\ \E s \in Nonces :
                   request' = [msg |-> msg,
                               ct |-> sg02_encrypt(msg, Label, key, k, r, s)]
          \/ /\ key.scheme = "bz03"
             /\ request' = [msg |-> msg,
                            ct |-> bz03_encrypt(msg, Label, key, k, r)]
    /\ UNCHANGED <<key, nonces, shares, outcome>>

\* A message to sign or the name of a coin.
Ask ==
    /\ request = None /\ key # None /\ ~Encrypts
    /\ \E msg \in Messages : request' = [msg |-> msg]
    /\ UNCHANGED <<key, nonces, shares, outcome>>

\* What panics: SH00 on a hash that shares a factor with the modulus, and
\* FROST's hashes, whose context string exists for Ed25519 only.
Panics ==
    \/ key.scheme = "sh00" /\ jacobi(sh00_H1(request.msg)) = 0
    \/ key.scheme = "frost" /\ key.group # "ed25519"

HandlerPanics ==
    /\ request # None /\ outcome.is = "none"
    /\ Panics
    /\ outcome' = [is |-> "panic"]
    /\ UNCHANGED <<key, request, nonces, shares>>

\* frost::commit; the signing group is complete with k commitments.
Commit(i) ==
    /\ key.scheme = "frost" /\ request # None /\ ~Panics
    /\ i \notin DOMAIN nonces
    /\ Cardinality(DOMAIN nonces) < key.k
    /\ \E d \in Nonces, e \in Nonces :
          nonces' = [j \in DOMAIN nonces \cup {i} |->
                        IF j = i THEN frost_commit(d, e) ELSE nonces[j]]
    /\ UNCHANGED <<key, request, shares, outcome>>

Committed == Cardinality(DOMAIN nonces) = key.k

partial_decrypt(i, s) ==
    IF key.scheme = "sg02" THEN sg02_partial_decrypt(request.ct, key.xi[i], s)
    ELSE bz03_partial_decrypt(request.ct, key.xi[i])

partial_sign(i, s) ==
    CASE key.scheme = "bls04" -> bls04_partial_sign(request.msg, key.xi[i])
      [] key.scheme = "sh00" ->
            sh00_partial_sign(i, request.msg, key, key.xi[i], s)
      [] key.scheme = "frost" ->
            frost_partial_sign(i, nonces[i], nonces, request.msg, key.xi[i], key)

create_share(i, s) ==
    CASE Encrypts -> partial_decrypt(i, s)
      [] key.scheme = "cks05" ->
            cks05_create_share(request.msg, i, key.xi[i], key, s)
      [] OTHER -> partial_sign(i, s)

verify_share(i, share) ==
    CASE key.scheme = "sg02"  -> sg02_verify_share(i, share, request.ct, key)
      [] key.scheme = "bz03"  -> bz03_verify_share(i, share, request.ct, key)
      [] key.scheme = "cks05" -> cks05_verify_share(i, share, request.msg, key)
      [] key.scheme = "bls04" -> bls04_verify_share(i, share, request.msg, key)
      [] key.scheme = "sh00"  -> sh00_verify_share(i, share, request.msg, key)
      [] key.scheme = "frost" ->
            frost_verify_share(i, share, nonces, request.msg, key)

verify_ciphertext ==
    IF key.scheme = "sg02" THEN sg02_verify_ciphertext(request.ct, key)
    ELSE bz03_verify_ciphertext(request.ct)

verify(sig) ==
    CASE key.scheme = "bls04" -> bls04_verify(sig, key, request.msg)
      [] key.scheme = "sh00"  -> sh00_verify(sig, request.msg)
      [] key.scheme = "frost" -> frost_verify(sig, key, request.msg)

assemble(S) ==
    LET chosen == [i \in S |-> shares[i]]
    IN  CASE key.scheme = "sg02"  -> sg02_assemble(chosen, request.ct)
          [] key.scheme = "bz03"  -> bz03_assemble(chosen, request.ct)
          [] key.scheme = "cks05" -> cks05_assemble(chosen)
          [] key.scheme = "bls04" -> bls04_assemble(chosen)
          [] key.scheme = "sh00"  -> sh00_assemble(chosen, request.msg, key)
          [] key.scheme = "frost" ->
                frost_assemble(get_group_commitment(nonces, request.msg, key),
                               chosen)

CreateShare(i) ==
    /\ request # None /\ outcome.is = "none" /\ ~Panics
    /\ i \notin DOMAIN shares
    /\ key.scheme = "frost" => Committed /\ i \in DOMAIN nonces
    /\ \E s \in Nonces :
          shares' = [j \in DOMAIN shares \cup {i} |->
                        IF j = i THEN create_share(i, s) ELSE shares[j]]
    /\ UNCHANGED <<key, request, nonces, outcome>>

\* The protocols assemble once they hold k shares or more; FROST's group has
\* exactly k signers.
Assemble(S) ==
    /\ outcome.is = "none" /\ shares # <<>>
    /\ S \subseteq DOMAIN shares
    /\ Cardinality(S) >= key.k
    /\ outcome' = [is |-> "value", value |-> assemble(S)]
    /\ UNCHANGED <<key, request, nonces, shares>>

Next ==
    \/ GenerateKeys
    \/ Encrypt
    \/ Ask
    \/ HandlerPanics
    \/ \E i \in Nodes : Commit(i)
    \/ \E i \in Nodes : CreateShare(i)
    \/ \E S \in SUBSET Nodes : Assemble(S)

Spec == Init /\ [][Next]_vars

-----------------------------------------------------------------------------
(* Properties *)

TypeOK ==
    /\ key # None => key.k \in Nodes /\ DOMAIN key.xi = Nodes /\ DOMAIN key.vk = Nodes
    /\ request # None => key # None /\ request.msg \in Messages
    /\ DOMAIN nonces \subseteq Nodes
    /\ DOMAIN shares \subseteq Nodes
    /\ outcome.is \in {"none", "panic", "value"}

(***************************************************************************)
(* What honest parties compute, honest parties accept: verify_ciphertext   *)
(* accepts the ciphertext encrypt made, and verify_share accepts the share *)
(* every node computes with its own key, for every random number drawn.    *)
(***************************************************************************)
HonestAccepted ==
    /\ request # None /\ Encrypts => verify_ciphertext
    /\ \A i \in DOMAIN shares : verify_share(i, shares[i])

(***************************************************************************)
(* Whichever set of k or more shares is assembled, the result is the one   *)
(* right result: the plaintext that was encrypted, the coin that belongs   *)
(* to the name under the key's secret, a signature that verify accepts     *)
(* under the public key.  In particular every two nodes that assemble      *)
(* different sets of shares of a request agree.                            *)
(***************************************************************************)
AssembleRight ==
    outcome.is = "value" =>
        CASE Encrypts -> outcome.value = request.msg
          [] key.scheme = "cks05" ->
                outcome.value = cks05_H2((cks05_H(request.msg) * key.x) % Q)
          [] OTHER -> verify(outcome.value)

(***************************************************************************)
(* Where verify_share is an equation in the share alone (BZ03, BLS04, and  *)
(* FROST once the signers have committed), it accepts for each node        *)
(* exactly the one value that node computes, so that a share which is      *)
(* accepted can only contribute to the right result.  (Stated before the   *)
(* first share: what is said does not change with the shares.)             *)
(***************************************************************************)
ShareExact ==
    /\ request # None /\ shares = <<>>
    /\ key.scheme \in {"bz03", "bls04", "frost"} /\ ~Panics
    /\ key.scheme = "frost" => Committed
    => \A i \in IF key.scheme = "frost" THEN DOMAIN nonces ELSE Nodes :
          LET right == create_share(i, 0).data
          IN  \A d \in Scalars : verify_share(i, [data |-> d]) <=> d = right

(***************************************************************************)
(* k - 1 shares say nothing about the secret: for every candidate secret   *)
(* there is a choice of the coefficients shamir_share draws under which    *)
(* these nodes hold the very shares they hold.  (Stated before the         *)
(* request, which does not change the key.)                                *)
(***************************************************************************)
BelowThreshold ==
    key # None /\ request = None /\ key.scheme # "sh00" =>
        \A S \in kSubset(key.k - 1, Nodes), x \in Scalars :
            \E coeff \in [1 .. key.k - 1 -> Scalars] :
                \A i \in S : shamir_share(x, coeff, N)[i] = key.xi[i]

=============================================================================
