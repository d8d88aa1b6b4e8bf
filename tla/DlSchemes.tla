------------------------------ MODULE DlSchemes ------------------------------
(***************************************************************************)
(* The algorithms of the discrete-logarithm schemes of core/schemes        *)
(* (dl_schemes/): Shamir sharing and Lagrange interpolation, the ciphers   *)
(* SG02 and BZ03, the coin CKS05 and the signatures BLS04 and FROST.       *)
(*                                                                         *)
(* The group has prime order Q and an element is represented by its        *)
(* exponent to the generator: pow is a product, mul a sum and div a        *)
(* difference modulo Q, the generator is 1 and the identity is 0.  A       *)
(* pairing multiplies exponents.  The hash functions are one function of a *)
(* domain (the name of the code's function, numbered) and a sequence of    *)
(* numbers, of which nothing is used but that it is a function.  A caller  *)
(* takes it modulo Q where the code makes a scalar or a group element of   *)
(* it.                                                                     *)
(***************************************************************************)
EXTENDS Integers, Sequences, FiniteSets, FiniteSetsExt, SequencesExt

CONSTANTS
    Q,          \* the order of the group
    Hash(_, _)  \* HASH256, by domain and input

\* The order is a prime number: it divides no product of two smaller ones.
ASSUME OrderAssumption ==
    /\ Q \in Nat \ {0, 1}
    /\ \A a, b \in 1 .. Q - 1 : (a * b) % Q # 0

Scalars == 0 .. Q - 1

\* SizedBigInt::inv_mod and BigInt::inv_mod: what is inverted has an inverse.
inv_mod(a, m) == CHOOSE b \in 0 .. m - 1 : (a * b) % m = 1 % m

SumMod(f) == MapThenSumSet(LAMBDA i : f[i], DOMAIN f) % Q

-----------------------------------------------------------------------------
(* dl_schemes/common.rs *)

\* The polynomial with coefficients a, the constant term last, at x.
horner(x, a) ==
    FoldLeft(LAMBDA result, c : (result * x + c) % Q, a[1], Tail(a))

\* Mutants: the nodes counted from 0; one random coefficient too few.
ShareFromZero(x, coeff, n) == [j \in 0 .. n - 1 |-> horner(j, Append(coeff, x))]
ShareLowDegree(x, coeff, n) ==
    [j \in 1 .. n |-> horner(j, Append(SubSeq(coeff, 1, Len(coeff) - 1), x))]

\* The random coefficients come first, the secret is the constant term.
shamir_share(x, coeff, n) == [j \in 1 .. n |-> horner(j, Append(coeff, x))]

\* Mutant: the sign of j - i is lost.
LagrangeAbsolute(indices, i) ==
    FoldSet(LAMBDA j, prod :
                LET ij == IF i > j THEN i - j ELSE j - i
                IN  (prod * inv_mod(ij, Q) * j) % Q,
            1, indices \ {i})

\* j - i is taken modulo Q by hand: Q - |j - i| when i is the larger one.
lagrange_coeff(indices, i) ==
    FoldSet(LAMBDA j, prod :
                LET ij == IF i > j THEN Q - (i - j) ELSE j - i
                IN  (prod * inv_mod(ij, Q) * j) % Q,
            1, indices \ {i})

\* shares: node id -> share.
interpolate(shares) ==
    SumMod([i \in DOMAIN shares |->
               shares[i].data * lagrange_coeff(DOMAIN shares, i)])

\* Symmetric keys are one bit long.
xor(a, b) == (a + b) % 2

MacFailure == -1

\* ChaCha20Poly1305: the tag ties the text to the key and the nonce.
seal(key, nonce, msg) == [key |-> key, nonce |-> nonce, msg |-> msg]
open(key, nonce, ctxt) ==
    IF ctxt.key = key /\ ctxt.nonce = nonce THEN ctxt.msg ELSE MacFailure

\* pair(x, y) = pair(z, w).
ddh(x, y, z, w) == (x * y) % Q = (z * w) % Q

-----------------------------------------------------------------------------
(* ciphers/sg02.rs.  pk is [y, vk, g_bar, ...]; sk is the share xi.  The   *)
(* random numbers the code draws are parameters.                           *)

sg02_h(ry) == Hash(1, <<ry>>) % 2
sg02_h1(c_k, label, u, w, u_bar, w_bar) ==
    Hash(2, <<c_k, label, u, w, u_bar, w_bar>>) % Q
sg02_h2(data, ui_bar, hi_bar) == Hash(3, <<data, ui_bar, hi_bar>>) % Q

sg02_encrypt(msg, label, pk, k, r, s) ==
    LET ry    == (pk.y * r) % Q
        c_k   == xor(sg02_h(ry), k)
        u_bar == (pk.g_bar * r) % Q
        w_bar == (pk.g_bar * s) % Q
        e     == sg02_h1(c_k, label, r, s, u_bar, w_bar)
    IN  [label |-> label, ctxt |-> seal(k, ry, msg), c_k |-> c_k, u |-> r,
         u_bar |-> u_bar, e |-> e, f |-> (s + e * r) % Q]

sg02_verify_ciphertext(ct, pk) ==
    LET w     == (ct.f - ct.u * ct.e) % Q
        w_bar == (pk.g_bar * ct.f - ct.u_bar * ct.e) % Q
    IN  ct.e = sg02_h1(ct.c_k, ct.label, ct.u, w, ct.u_bar, w_bar)

sg02_partial_decrypt(ct, xi, si) ==
    LET data == (ct.u * xi) % Q
        ei   == sg02_h2(data, (ct.u * si) % Q, si)
    IN  [data |-> data, ei |-> ei, fi |-> (si + xi * ei) % Q]

\* Mutant: multiplies where it must divide.
VerifyShareProduct(id, share, ct, pk) ==
    LET ui_bar == (ct.u * share.fi + share.data * share.ei) % Q
        hi_bar == (share.fi + pk.vk[id] * share.ei) % Q
    IN  share.ei = sg02_h2(share.data, ui_bar, hi_bar)

sg02_verify_share(id, share, ct, pk) ==
    LET ui_bar == (ct.u * share.fi - share.data * share.ei) % Q
        hi_bar == (share.fi - pk.vk[id] * share.ei) % Q
    IN  share.ei = sg02_h2(share.data, ui_bar, hi_bar)

sg02_assemble(shares, ct) ==
    LET ry == interpolate(shares)
    IN  open(xor(sg02_h(ry), ct.c_k), ry, ct.ctxt)

-----------------------------------------------------------------------------
(* ciphers/bz03.rs: u and the shares are in the second group of the        *)
(* pairing, hr and the verification keys in the first.                     *)

bz03_g(rY) == Hash(4, <<rY>>) % 2
bz03_h(u, c_k) == Hash(5, <<u, c_k>>) % Q

bz03_encrypt(msg, label, pk, k, r) ==
    LET rY  == (pk.y * r) % Q
        c_k == xor(bz03_g(rY), k)
    IN  [label |-> label, ctxt |-> seal(k, rY, msg), c_k |-> c_k, u |-> r,
         hr |-> (bz03_h(r, c_k) * r) % Q]

bz03_verify_ciphertext(ct) == ddh(ct.u, bz03_h(ct.u, ct.c_k), 1, ct.hr)

bz03_partial_decrypt(ct, xi) == [data |-> (ct.u * xi) % Q]

bz03_verify_share(id, share, ct, pk) == ddh(share.data, 1, ct.u, pk.vk[id])

bz03_assemble(shares, ct) ==
    LET rY == interpolate(shares)
    IN  open(xor(bz03_g(rY), ct.c_k), rY, ct.ctxt)

-----------------------------------------------------------------------------
(* coins/cks05.rs *)

cks05_H(name) == Hash(6, <<name>>) % Q

\* The number is not reduced: the result of rmod is dropped.
cks05_H1(vki, h, c_bar, data, h_bar) ==
    Hash(7, <<1, vki, h, c_bar, data, h_bar>>)

cks05_H2(coin) == Hash(8, <<coin>>) % 2

cks05_create_share(name, id, xi, pk, s) ==
    LET c_bar == cks05_H(name)
        data  == (c_bar * xi) % Q
        c     == cks05_H1(pk.vk[id], s, c_bar, data, (c_bar * s) % Q)
    IN  [data |-> data, c |-> c, z |-> (s + c * xi) % Q]

cks05_verify_share(id, share, name, pk) ==
    LET c_bar == cks05_H(name)
        h     == (share.z - pk.vk[id] * share.c) % Q
        h_bar == (c_bar * share.z - share.data * share.c) % Q
    IN  share.c = cks05_H1(pk.vk[id], h, c_bar, share.data, h_bar)

cks05_assemble(shares) == cks05_H2(interpolate(shares))

-----------------------------------------------------------------------------
(* signatures/bls04.rs: hashes and signatures are in the second group, the *)
(* keys in the first.                                                      *)

bls04_H(msg) == Hash(9, <<msg>>) % Q

bls04_partial_sign(msg, xi) == [data |-> (bls04_H(msg) * xi) % Q]

\* Mutant: checks a share against the key of the group.
VerifyShareGroupKey(id, share, msg, pk) ==
    ddh(bls04_H(msg), pk.y, share.data, 1)

bls04_verify_share(id, share, msg, pk) ==
    ddh(bls04_H(msg), pk.vk[id], share.data, 1)

bls04_assemble(shares) == interpolate(shares)

bls04_verify(sig, pk, msg) == ddh(bls04_H(msg), pk.y, sig, 1)

-----------------------------------------------------------------------------
(* signatures/frost.rs.  A commitment list is a function from the ids of   *)
(* the signers to their two commitments; compute_binding_factors sorts it  *)
(* by id before it is encoded.                                             *)

\* nonce: the hiding nonce d and the binding nonce e, committed to by g^d, g^e.
frost_commit(d, e) == [d |-> d, e |-> e]

encode_group_commitment_list(list) ==
    FoldLeft(LAMBDA enc, i : enc \o <<i, list[i].d, list[i].e>>, <<>>,
             SetToSortSeq(DOMAIN list, <))

compute_binding_factors(pk, list, msg) ==
    LET prefix == <<pk.y, Hash(10, <<msg>>),
                    Hash(11, encode_group_commitment_list(list))>>
    IN  [i \in DOMAIN list |-> Hash(12, Append(prefix, i)) % Q]

compute_group_commitment(list, factors) ==
    SumMod([i \in DOMAIN list |-> list[i].d + list[i].e * factors[i]])

compute_challenge(R, pk, msg) == Hash(13, <<R, pk.y, msg>>) % Q

get_group_commitment(list, msg, pk) ==
    compute_group_commitment(list, compute_binding_factors(pk, list, msg))

frost_partial_sign(id, nonce, list, msg, xi, pk) ==
    LET factors   == compute_binding_factors(pk, list, msg)
        challenge == compute_challenge(compute_group_commitment(list, factors),
                                       pk, msg)
    IN  [data |-> (nonce.d + nonce.e * factors[id]
                     + lagrange_coeff(DOMAIN list, id) * xi * challenge) % Q]

frost_verify_share(id, share, list, msg, pk) ==
    LET factors   == compute_binding_factors(pk, list, msg)
        challenge == compute_challenge(compute_group_commitment(list, factors),
                                       pk, msg)
        Ri        == list[id].d + list[id].e * factors[id]
    IN  share.data = (Ri + pk.vk[id] * lagrange_coeff(DOMAIN list, id)
                             * challenge) % Q

frost_assemble(R, shares) ==
    [R |-> R, z |-> SumMod([i \in DOMAIN shares |-> shares[i].data])]

frost_verify(sig, pk, msg) ==
    sig.z = (sig.R + pk.y * compute_challenge(sig.R, pk, msg)) % Q

=============================================================================
