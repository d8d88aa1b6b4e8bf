--------------------------- MODULE SchemesProofs -----------------------------
(* Proofs about Schemes, for any number of nodes, any threshold, any secret and any     *)
(* random numbers drawn: the schemes of the discrete logarithm.  The parts of the       *)
(* properties that speak of SH00 are left to TLC.                                       *)
EXTENDS Schemes, DlSchemesProofs

-----------------------------------------------------------------------------
(* Keys as shamir_share deals them *)

\* xi are shares of the secret x with threshold k.
Dealt(xi, k, x) == \E coeff \in [1 .. k - 1 -> Scalars] : xi = shamir_share(x, coeff, N)

\* The ids of the nodes are indices: there are fewer nodes than the order has scalars.
LEMMA NodesAreIndices ==
  /\ N \in Nat /\ N >= 1 /\ N < Q
  /\ Nodes \in SUBSET Indices
  /\ IsFiniteSet(Nodes) /\ Cardinality(Nodes) = N
  <1>1. N \in Nat /\ N >= 1 /\ N < Q
    BY SizeAssumption
  <1> QED
    BY <1>1, FS_Interval, OrderType DEF Nodes, Indices

\* Shares are the values of a polynomial with k coefficients and constant term x.
LEMMA DealtPolynomial ==
  ASSUME NEW k \in Nodes, NEW x \in Scalars, NEW xi, Dealt(xi, k, x)
  PROVE  /\ \E a \in Poly(k) : a[k] = x /\ \A i \in Nodes : xi[i] = horner(i, a)
         /\ DOMAIN xi = Nodes
         /\ \A i \in Nodes : xi[i] \in Scalars /\ xi[i] \in Int
  <1>1. PICK coeff \in [1 .. k - 1 -> Scalars] : xi = shamir_share(x, coeff, N)
    BY DEF Dealt
  <1> DEFINE a == Append(coeff, x)
  <1>2. k \in Nat /\ k >= 1 /\ k - 1 \in Nat /\ k - 1 + 1 = k
    BY NodesAreIndices DEF Nodes
  <1>3. coeff \in Seq(Scalars) /\ Len(coeff) = k - 1
    BY <1>2
  <1>4. a \in Poly(k) /\ a[k] = x
    BY <1>2, <1>3 DEF Poly
  <1>5. \A i \in Nodes : i \in Int
    BY NodesAreIndices DEF Nodes
  <1> HIDE DEF a
  <1>6. DOMAIN xi = Nodes /\ \A i \in Nodes : xi[i] = horner(i, a)
    BY <1>1 DEF shamir_share, Nodes, a
  <1>7. \A i \in Nodes : xi[i] \in Scalars /\ xi[i] \in Int
    BY <1>2, <1>4, <1>5, <1>6, HornerType
  <1> QED
    BY <1>4, <1>6, <1>7

\* Every polynomial with k coefficients is one shamir_share can draw.
LEMMA PolynomialDealt ==
  ASSUME NEW k \in Nodes, NEW p \in Poly(k)
  PROVE  \E coeff \in [1 .. k - 1 -> Scalars] :
            \A i \in Nodes : shamir_share(p[k], coeff, N)[i] = horner(i, p)
  <1>1. k \in Nat /\ k >= 1 /\ k - 1 \in Nat /\ k - 1 + 1 = k
    BY NodesAreIndices DEF Nodes
  <1>2. PICK b \in Poly(k - 1), c \in Scalars : p = Append(b, c)
    <2> DEFINE m == k - 1
    <2>1. m \in Nat /\ p \in Poly(m + 1)
      BY <1>1
    <2> HIDE DEF m
    <2>2. \E b \in Poly(m), c \in Scalars : p = Append(b, c)
      BY <2>1, PolySplit
    <2> QED
      BY <2>2 DEF m
  <1>3. b \in [1 .. k - 1 -> Scalars] /\ p[k] = c
    BY <1>1, <1>2 DEF Poly
  <1> QED
    BY <1>2, <1>3 DEF shamir_share, Nodes

\* k or more shares, each with its Lagrange coefficient, add up to the secret.
LEMMA Reconstruction ==
  ASSUME NEW k \in Nodes, NEW x \in Scalars, NEW xi, Dealt(xi, k, x),
         NEW S \in SUBSET Nodes, Cardinality(S) >= k
  PROVE  /\ Terms(S, xi) \in [S -> Int]
         /\ SumMod(Terms(S, xi)) = x
  <1>1. PICK a \in Poly(k) : a[k] = x /\ \A i \in Nodes : xi[i] = horner(i, a)
    BY DealtPolynomial
  <1>2. k \in Nat /\ k >= 1 /\ S \in SUBSET Indices
    BY NodesAreIndices DEF Nodes
  <1>3. Terms(S, xi) = Terms(S, Values(S, a))
    BY <1>1 DEF Terms, Values
  <1> QED
    BY Zenon, <1>1, <1>2, <1>3, Interpolation, HornerZero, ValuesType

\* In the exponent: interpolate takes shares c^xi to c^x.
LEMMA InterpolateShares ==
  ASSUME NEW k \in Nodes, NEW x \in Scalars, NEW xi, Dealt(xi, k, x),
         NEW S \in SUBSET Nodes, Cardinality(S) >= k, NEW c \in Int,
         NEW sh, DOMAIN sh = S, \A i \in S : sh[i].data = (c * xi[i]) % Q
  PROVE  interpolate(sh) = (c * x) % Q
  <1> DEFINE e == [i \in S |-> sh[i].data * lagrange_coeff(S, i)]
             f == Terms(S, xi)
  <1>1. interpolate(sh) = SumMod(e)
    BY DEF interpolate
  <1>2. S \in SUBSET Indices /\ IsFiniteSet(S)
    BY NodesAreIndices, FS_Subset
  <1>3. f \in [S -> Int] /\ SumMod(f) = x
    BY Reconstruction
  <1>4. ASSUME NEW i \in S
        PROVE  /\ sh[i].data * lagrange_coeff(S, i) \in Int
               /\ Cong(sh[i].data * lagrange_coeff(S, i), c * f[i] + 0 * f[i])
    <2> DEFINE d == sh[i].data
               l == lagrange_coeff(S, i)
               v == xi[i]
    <2>1. l \in Int
      BY <1>2, LagrangeType
    <2>2. v \in Int /\ c * v \in Int
      BY DealtPolynomial
    <2>3. d \in Int /\ Cong(d, c * v) /\ Cong(l, l)
      BY <2>2, ModDivision, CongMod DEF Cong
    <2>4. f[i] = v * l
      BY DEF Terms
    <2> HIDE DEF d, l, v, f
    <2>5. Cong(d * l, (c * v) * l)
      BY <2>1, <2>2, <2>3, CongArith
    <2>6. (c * v) * l = c * f[i] + 0 * f[i]
      BY <2>1, <2>2, <2>4
    <2> QED
      BY <2>1, <2>3, <2>5, <2>6 DEF d, l
  <1>5. e \in [S -> Int] /\ \A i \in S : Cong(e[i], c * f[i] + 0 * f[i])
    BY <1>4
  <1>6. 0 \in Int
    OBVIOUS
  <1> HIDE DEF e, f
  <1>7. Cong(SumMod(e), c * SumMod(f) + 0 * SumMod(f))
    BY Zenon, <1>2, <1>3, <1>5, <1>6, SumLinear
  <1>8. c * SumMod(f) + 0 * SumMod(f) = c * x /\ SumMod(e) \in Scalars
    BY <1>2, <1>3, <1>5, ScalarMod, SumType
  <1> QED
    BY <1>1, <1>7, <1>8, ScalarMod DEF Cong, Mod

\* k - 1 shares fit every secret: the polynomial through them and the secret at 0.
LEMMA AnySecretFits ==
  ASSUME NEW k \in Nodes, NEW x \in Scalars, NEW xi, Dealt(xi, k, x),
         NEW S \in SUBSET Nodes, Cardinality(S) = k - 1, NEW z \in Scalars
  PROVE  \E coeff \in [1 .. k - 1 -> Scalars] :
            \A i \in S : shamir_share(z, coeff, N)[i] = xi[i]
  <1> DEFINE T == S \cup {0}
             v == [i \in T |-> IF i = 0 THEN z ELSE xi[i]]
  <1>1. k \in Nat /\ k >= 1 /\ k - 1 \in Nat /\ k - 1 + 1 = k /\ 0 \in Scalars
    BY NodesAreIndices, OrderType DEF Nodes, Scalars
  <1>2. 0 \notin S /\ IsFiniteSet(S)
    <2>1. 0 \notin Nodes
      BY NodesAreIndices DEF Nodes
    <2> QED
      BY <2>1, NodesAreIndices, FS_Subset
  <1>3. Cardinality(T) = k
    <2>1. Cardinality(S \cup {0}) = Cardinality(S) + 1
      BY Zenon, <1>2, FS_AddElement
    <2> QED
      BY <1>1, <2>1
  <1>4. T \in SUBSET Scalars
    BY <1>1, NodesAreIndices, OrderType DEF Nodes, Scalars
  <1>5. v \in [T -> Scalars]
    <2>1. \A i \in S : xi[i] \in Scalars
      BY DealtPolynomial
    <2> QED
      BY <2>1
  <1> HIDE DEF v
  <1>6. PICK p \in Poly(k) : \A i \in T : horner(i, p) = v[i]
    <2>1. T # {}
      OBVIOUS
    <2> HIDE DEF T
    <2> QED
      BY <1>3, <1>4, <1>5, <2>1, AnyValues
  <1>7. p[k] = z
    BY Zenon, <1>1, <1>6, HornerZero DEF v
  <1>8. PICK coeff \in [1 .. k - 1 -> Scalars] :
            \A i \in Nodes : shamir_share(z, coeff, N)[i] = horner(i, p)
    BY <1>7, PolynomialDealt
  <1>9. \A i \in S : horner(i, p) = xi[i]
    BY Zenon, <1>2, <1>6 DEF v
  <1> QED
    BY <1>8, <1>9

-----------------------------------------------------------------------------
(* FROST: shares and signatures *)

\* The commitment lists of the signers D.
Commitments(D) == [D -> [d : Scalars, e : Scalars]]

\* The binding factors of a list.
Factors(list, msg, pk) == compute_binding_factors(pk, list, msg)
\* The challenge of a list.
Challenge(list, msg, pk) == compute_challenge(get_group_commitment(list, msg, pk), pk, msg)
\* What each signer adds to its share to hide it: d + e times its binding factor.
Blinds(list, msg, pk) == [i \in DOMAIN list |-> list[i].d + list[i].e * Factors(list, msg, pk)[i]]

\* They are numbers, and the group commitment is their sum.
LEMMA FrostTypes ==
  ASSUME HashIsNumber, NEW D \in SUBSET Nodes, NEW list \in Commitments(D), NEW msg, NEW pk
  PROVE  /\ DOMAIN list = D /\ IsFiniteSet(D) /\ D \in SUBSET Indices
         /\ Challenge(list, msg, pk) \in Int
         /\ Blinds(list, msg, pk) \in [D -> Int]
         /\ get_group_commitment(list, msg, pk) = SumMod(Blinds(list, msg, pk))
         /\ \A i \in D : lagrange_coeff(D, i) \in Int
  <1>1. DOMAIN list = D /\ IsFiniteSet(D) /\ D \in SUBSET Indices
    BY NodesAreIndices, FS_Subset DEF Commitments
  <1>2. Challenge(list, msg, pk) \in Int
    BY HashScalar DEF Challenge, compute_challenge
  <1>3. Blinds(list, msg, pk) \in [D -> Int]
    <2> SUFFICES ASSUME NEW i \in D
                 PROVE  list[i].d + list[i].e * Factors(list, msg, pk)[i] \in Int
      BY <1>1 DEF Blinds
    <2>1. Factors(list, msg, pk)[i] \in Int
      BY <1>1, HashScalar DEF Factors, compute_binding_factors
    <2>2. list[i].d \in Scalars /\ list[i].e \in Scalars
      BY DEF Commitments
    <2>3. list[i].d \in Int /\ list[i].e \in Int
      BY <2>2, ScalarMod
    <2> HIDE DEF Factors
    <2> QED
      BY <2>1, <2>3
  <1>4. get_group_commitment(list, msg, pk) = SumMod(Blinds(list, msg, pk))
    BY DEF get_group_commitment, compute_group_commitment, Blinds, Factors
  <1>5. \A i \in D : lagrange_coeff(D, i) \in Int
    BY <1>1, LagrangeType
  <1> QED
    BY <1>1, <1>2, <1>3, <1>4, <1>5

\* The share of node i with key share xi: what it computes, and what its commitments are
\* checked against.
FrostRight(D, list, msg, pk, i, xi) ==
    (Blinds(list, msg, pk)[i] + Challenge(list, msg, pk) * (xi * lagrange_coeff(D, i))) % Q

OneShare(D, list, msg, pk, i, xi) ==
    LET right == FrostRight(D, list, msg, pk, i, xi)
    IN  /\ frost_partial_sign(i, list[i], list, msg, xi, pk) = [data |-> right]
        /\ right \in Scalars /\ right \in Int
        /\ \A share : frost_verify_share(i, share, list, msg, pk) <=> share.data = right

\* partial_sign computes one value and verify_share accepts that value and no other.
LEMMA FrostShare ==
  ASSUME HashIsNumber, NEW D \in SUBSET Nodes, NEW list \in Commitments(D), NEW msg, NEW pk,
         NEW i \in D, NEW xi \in Int, pk.vk[i] = xi
  PROVE  OneShare(D, list, msg, pk, i, xi)
  <1> DEFINE b == Blinds(list, msg, pk)[i]
             c == Challenge(list, msg, pk)
             l == lagrange_coeff(D, i)
             right == (b + c * (xi * l)) % Q
  <1>1. b \in Int /\ c \in Int /\ l \in Int /\ DOMAIN list = D
    BY FrostTypes
  <1>2. /\ frost_partial_sign(i, list[i], list, msg, xi, pk) = [data |-> (b + l * xi * c) % Q]
        /\ \A share : frost_verify_share(i, share, list, msg, pk)
                         <=> share.data = (b + xi * l * c) % Q
    BY Zenon, <1>1 DEF frost_partial_sign, frost_verify_share, Blinds, Challenge, Factors,
                get_group_commitment
  <1> HIDE DEF b, c, l
  <1>3. b + l * xi * c = b + c * (xi * l) /\ b + xi * l * c = b + c * (xi * l)
    BY <1>1
  <1>4. b + c * (xi * l) \in Int
    BY <1>1
  <1>5. right \in Scalars /\ right \in Int
    BY <1>4, ModDivision
  <1>6. right = FrostRight(D, list, msg, pk, i, xi)
    BY Zenon DEF right, b, c, l, FrostRight
  <1> QED
    BY Zenon, <1>2, <1>3, <1>5, <1>6 DEF OneShare

\* The shares of all signers of the list, k or more, add up to a signature that
\* verifies.
LEMMA FrostVerifies ==
  ASSUME HashIsNumber, NEW D \in SUBSET Nodes, NEW list \in Commitments(D), NEW msg, NEW pk,
         NEW k \in Nodes, NEW x \in Scalars, NEW xi, Dealt(xi, k, x), Cardinality(D) >= k,
         pk.y = x, pk.vk = xi, NEW sh, DOMAIN sh = D,
         \A i \in D : sh[i] = frost_partial_sign(i, list[i], list, msg, xi[i], pk)
  PROVE  frost_verify(frost_assemble(get_group_commitment(list, msg, pk), sh), pk, msg)
  <1> DEFINE f == Blinds(list, msg, pk)
             g == Terms(D, xi)
             c == Challenge(list, msg, pk)
             e == [i \in D |-> sh[i].data]
  <1>1. /\ IsFiniteSet(D) /\ f \in [D -> Int] /\ c \in Int
        /\ get_group_commitment(list, msg, pk) = SumMod(f)
    BY FrostTypes
  <1>2. g \in [D -> Int] /\ SumMod(g) = x
    BY Reconstruction
  <1>3. ASSUME NEW i \in D
        PROVE  sh[i].data \in Int /\ Cong(sh[i].data, 1 * f[i] + c * g[i])
    <2> DEFINE l == lagrange_coeff(D, i)
               v == xi[i]
    <2>1. v \in Int
      BY Zenon, DealtPolynomial
    <2>2. sh[i].data = (f[i] + c * (v * l)) % Q /\ sh[i].data \in Int
      <3>1. pk.vk[i] = v /\ sh[i] = frost_partial_sign(i, list[i], list, msg, v, pk)
        OBVIOUS
      <3> HIDE DEF v
      <3>2. OneShare(D, list, msg, pk, i, v)
        BY Zenon, <2>1, <3>1, FrostShare
      <3>3. FrostRight(D, list, msg, pk, i, v) = (f[i] + c * (v * l)) % Q
        BY Zenon DEF FrostRight
      <3>4. /\ frost_partial_sign(i, list[i], list, msg, v, pk)
                  = [data |-> (f[i] + c * (v * l)) % Q]
            /\ (f[i] + c * (v * l)) % Q \in Int
        BY <3>2, <3>3, Zenon DEF OneShare
      <3> QED
        BY <3>1, <3>4
    <2>3. g[i] = v * l
      BY Zenon DEF Terms
    <2> HIDE DEF f, g, c, l, v
    <2>4. f[i] + c * g[i] \in Int /\ f[i] + c * g[i] = 1 * f[i] + c * g[i]
      BY <1>1, <1>2
    <2> QED
      BY Zenon, <2>2, <2>3, <2>4, CongMod
  <1>4. e \in [D -> Int] /\ \A i \in D : Cong(e[i], 1 * f[i] + c * g[i])
    BY Zenon, <1>3
  <1>5. frost_assemble(SumMod(f), sh) = [R |-> SumMod(f), z |-> SumMod(e)]
    BY Zenon DEF frost_assemble
  <1>6. compute_challenge(SumMod(f), pk, msg) = c
    BY Zenon, <1>1 DEF Challenge
  <1> DEFINE one == 1
  <1>7. one \in Int
    OBVIOUS
  <1> HIDE DEF e, f, g, c
  <1>8. Cong(SumMod(e), 1 * SumMod(f) + c * SumMod(g))
    <2>1. \A i \in D : Cong(e[i], one * f[i] + c * g[i])
      BY Zenon, <1>4
    <2> HIDE DEF one
    <2>2. Cong(SumMod(e), one * SumMod(f) + c * SumMod(g))
      BY Zenon, <1>1, <1>2, <1>4, <1>7, <2>1, SumLinear
    <2> QED
      BY <2>2 DEF one
  <1>9. /\ SumMod(e) \in Scalars /\ SumMod(f) \in Int
        /\ 1 * SumMod(f) + c * SumMod(g) = SumMod(f) + x * c
    BY <1>1, <1>2, <1>4, ScalarMod, SumType
  <1>10. SumMod(e) = (SumMod(f) + x * c) % Q
    BY Zenon, <1>8, <1>9, ScalarMod DEF Cong, Mod
  <1> QED
    BY <1>1, <1>5, <1>6, <1>10 DEF frost_verify

\* sh holds the signature share of every signer in D.
FrostSigned(D, list, msg, pk, xi, sh) ==
  /\ DOMAIN sh = D
  /\ \A i \in D : sh[i] = frost_partial_sign(i, list[i], list, msg, xi[i], pk)

\* The same with the shares of the signers as one premise.
LEMMA FrostSignedVerifies ==
  ASSUME HashIsNumber, NEW D \in SUBSET Nodes, NEW list \in Commitments(D), NEW msg, NEW pk,
         NEW k \in Nodes, NEW x \in Scalars, NEW xi, Dealt(xi, k, x), Cardinality(D) >= k,
         pk.y = x, pk.vk = xi, NEW sh, FrostSigned(D, list, msg, pk, xi, sh)
  PROVE  frost_verify(frost_assemble(get_group_commitment(list, msg, pk), sh), pk, msg)
  <1>1. DOMAIN sh = D /\ \A i \in D : sh[i] = frost_partial_sign(i, list[i], list, msg, xi[i], pk)
    BY Zenon DEF FrostSigned
  <1> QED
    BY <1>1, FrostVerifies

-----------------------------------------------------------------------------
(* The inductive invariant *)

\* The schemes of the discrete logarithm.
DlNames == {"sg02", "bz03", "cks05", "bls04", "frost"}

\* A key of one of them was dealt by shamir_share, with the verification keys that
\* belong to the shares.
KeyDealt ==
    \/ key = None
    \/ key.scheme = "sh00"
    \/ /\ key.scheme \in DlNames
       /\ key.k \in Nodes /\ key.x \in Scalars /\ key.g_bar \in Scalars
       /\ key.y = key.x /\ key.vk = key.xi
       /\ Dealt(key.xi, key.k, key.x)

\* A ciphertext was made by encrypt under the key.
RequestMade ==
    request # None =>
        /\ key.scheme = "sg02" =>
              \E k \in 0 .. 1, r \in Scalars, s \in Scalars :
                  request.ct = sg02_encrypt(request.msg, Label, key, k, r, s)
        /\ key.scheme = "bz03" =>
              \E k \in 0 .. 1, r \in Scalars :
                  request.ct = bz03_encrypt(request.msg, Label, key, k, r)

\* Nonces and commitments are pairs of scalars.
CommitmentsMade == nonces \in Commitments(DOMAIN nonces)

\* A share was computed from the key, the request and the commitments there are now:
\* in FROST the list is complete before the first share and does not change
\* afterwards.
SharesMade ==
    /\ DOMAIN shares = {} => shares = <<>>
    /\ DOMAIN shares # {} => request # None
    /\ key.scheme \in DlNames =>
          \A i \in DOMAIN shares : \E s \in Scalars : shares[i] = create_share(i, s)
    /\ key.scheme = "frost" /\ DOMAIN shares # {} =>
          Committed /\ DOMAIN shares \subseteq DOMAIN nonces

\* A result is assembled from shares.
OutcomeLater == outcome.is = "value" => request # None /\ DOMAIN shares # {}

\* The inductive invariant, but for what it says of the result.
IInv == TypeOK /\ KeyDealt /\ RequestMade /\ CommitmentsMade /\ SharesMade /\ OutcomeLater

-----------------------------------------------------------------------------
(* Types *)

\* The shape of an SH00 key.
LEMMA Sh00Key ==
  ASSUME NEW group, GenerateSh00(group)
  PROVE  /\ key'.scheme = "sh00" /\ key'.k \in Nodes
         /\ DOMAIN key'.xi = Nodes /\ DOMAIN key'.vk = Nodes
  <1> DEFINE xi(coeff) == shamir_share_rsa(inv_mod(E, M), coeff, N)
             v(s) == (s * s) % Modulus
             vk(s, coeff) == [i \in Nodes |-> pow_mod[v(s), xi(coeff)[i], Modulus]]
             delta == fac[N]
  <1>1. PICK k, s, u, coeff :
           /\ k \in Nodes
           /\ key' = [scheme |-> "sh00", group |-> group, k |-> k, xi |-> xi(coeff),
                      v |-> v(s), u |-> u, delta |-> delta, vk |-> vk(s, coeff)]
    BY Zenon DEF GenerateSh00
  <1>2. DOMAIN xi(coeff) = Nodes
    BY Zenon DEF shamir_share_rsa, Nodes
  <1>3. DOMAIN vk(s, coeff) = Nodes
    BY Zenon
  <1> HIDE DEF xi, vk, v, delta
  <1> QED
    BY Zenon, <1>1, <1>2, <1>3

\* The type invariant holds initially.
LEMMA TypeInit == Init => TypeOK
  BY DEF Init, TypeOK, None

\* Every step keeps the type invariant.
LEMMA TypeNext == TypeOK /\ [Next]_vars => TypeOK'
  <1> SUFFICES ASSUME TypeOK, [Next]_vars PROVE TypeOK'
    OBVIOUS
  <1>1. CASE GenerateKeys
    <2>1. /\ key'.k \in Nodes /\ DOMAIN key'.xi = Nodes /\ DOMAIN key'.vk = Nodes
          /\ key = None
      <3>1. ASSUME NEW scheme, NEW group, GenerateDl(scheme, group)
            PROVE  key'.k \in Nodes /\ DOMAIN key'.xi = Nodes /\ DOMAIN key'.vk = Nodes
        BY <3>1 DEF GenerateDl, shamir_share, Nodes
      <3>2. ASSUME NEW group, GenerateSh00(group)
            PROVE  key'.k \in Nodes /\ DOMAIN key'.xi = Nodes /\ DOMAIN key'.vk = Nodes
        BY <3>2, Sh00Key
      <3> QED
        BY <1>1, <3>1, <3>2 DEF GenerateKeys
    <2>2. request = None
      BY <2>1 DEF TypeOK
    <2> QED
      BY Zenon, <1>1, <2>1, <2>2 DEF GenerateKeys, TypeOK
  <1>2. CASE Encrypt
    <2>1. key # None
      BY <1>2 DEF Encrypt, Encrypts, None
    <2>2. request'.msg \in Messages
      BY <1>2 DEF Encrypt
    <2> QED
      BY Zenon, <1>2, <2>1, <2>2 DEF Encrypt, TypeOK
  <1>3. CASE Ask
    BY <1>3 DEF Ask, TypeOK
  <1>4. CASE HandlerPanics
    BY Zenon, <1>4 DEF HandlerPanics, TypeOK
  <1>5. ASSUME NEW i \in Nodes, Commit(i) PROVE TypeOK'
    <2>1. DOMAIN nonces' = DOMAIN nonces \cup {i}
      BY <1>5 DEF Commit
    <2> QED
      BY Zenon, <1>5, <2>1 DEF Commit, TypeOK
  <1>6. ASSUME NEW i \in Nodes, CreateShare(i) PROVE TypeOK'
    <2>1. DOMAIN shares' = DOMAIN shares \cup {i}
      BY Zenon, <1>6 DEF CreateShare
    <2> QED
      BY Zenon, <1>6, <2>1 DEF CreateShare, TypeOK
  <1>7. ASSUME NEW S \in SUBSET Nodes, Assemble(S) PROVE TypeOK'
    BY Zenon, <1>7 DEF Assemble, TypeOK
  <1>8. CASE UNCHANGED vars
    BY Zenon, <1>8 DEF vars, TypeOK
  <1> QED
    BY Zenon, <1>1, <1>2, <1>3, <1>4, <1>5, <1>6, <1>7, <1>8 DEF Next

\* Every reachable state is of its type.
THEOREM TypeCorrect == Spec => []TypeOK
  BY TypeInit, TypeNext, PTL DEF Spec

-----------------------------------------------------------------------------
(* Keys *)

\* There is no key initially.
LEMMA KeyInit == Init => KeyDealt
  BY DEF Init, KeyDealt

\* Every key is dealt by shamir_share, and none is changed.
LEMMA KeyNext == KeyDealt /\ [Next]_vars => KeyDealt'
  <1> SUFFICES ASSUME KeyDealt, [Next]_vars PROVE KeyDealt'
    OBVIOUS
  <1>0. Secrets \subseteq Scalars /\ Coeffs \subseteq Scalars /\ Nonces \subseteq Scalars
    BY SizeAssumption
  <1>1. ASSUME NEW scheme \in DlNames, NEW group, GenerateDl(scheme, group)
        PROVE  KeyDealt'
    <2>0. PICK k \in Nodes, x \in Secrets, g_bar \in Nonces :
             \E coeff \in [1 .. k - 1 -> Coeffs] :
             key' = [scheme |-> scheme, group |-> group, k |-> k,
                     x |-> x, xi |-> shamir_share(x, coeff, N), y |-> x,
                     vk |-> shamir_share(x, coeff, N),
                     g_bar |-> IF scheme = "sg02" THEN g_bar ELSE 0]
      BY Zenon, <1>1 DEF GenerateDl
    <2>1. PICK coeff \in [1 .. k - 1 -> Coeffs] :
             key' = [scheme |-> scheme, group |-> group, k |-> k,
                     x |-> x, xi |-> shamir_share(x, coeff, N), y |-> x,
                     vk |-> shamir_share(x, coeff, N),
                     g_bar |-> IF scheme = "sg02" THEN g_bar ELSE 0]
      BY Zenon, <2>0
    <2>2. coeff \in [1 .. k - 1 -> Scalars]
      BY Zenon, <1>0
    <2>3. Dealt(shamir_share(x, coeff, N), k, x)
      BY <2>2 DEF Dealt
    <2>4. (IF scheme = "sg02" THEN g_bar ELSE 0) \in Scalars
      BY <1>0, OrderType DEF Scalars
    <2>5. /\ key'.scheme \in DlNames /\ key'.k \in Nodes /\ key'.x \in Scalars
          /\ key'.g_bar \in Scalars /\ key'.y = key'.x /\ key'.vk = key'.xi
          /\ key'.xi = shamir_share(x, coeff, N) /\ key'.k = k /\ key'.x = x
      BY Zenon, <1>0, <2>1, <2>4
    <2> QED
      BY Zenon, <2>3, <2>5 DEF KeyDealt
  <1>2. ASSUME NEW group, GenerateSh00(group) PROVE KeyDealt'
    BY Zenon, <1>2, Sh00Key DEF KeyDealt
  <1>3. CASE GenerateKeys
    BY Zenon, <1>1, <1>2, <1>3 DEF GenerateKeys, DlNames
  <1>4. CASE key' = key
    BY Zenon, <1>4 DEF KeyDealt
  <1>5. CASE Encrypt \/ Ask \/ HandlerPanics \/ UNCHANGED vars
    BY Zenon, <1>4, <1>5 DEF Encrypt, Ask, HandlerPanics, vars
  <1>6. CASE \E i \in Nodes : Commit(i) \/ CreateShare(i)
    BY Zenon, <1>4, <1>6 DEF Commit, CreateShare
  <1>7. CASE \E S \in SUBSET Nodes : Assemble(S)
    BY <1>4, <1>7 DEF Assemble
  <1> QED
    BY <1>3, <1>5, <1>6, <1>7 DEF Next

\* What k - 1 nodes hold is consistent with every secret.
LEMMA AnySecretPossible == KeyDealt => BelowThreshold
  <1> SUFFICES ASSUME KeyDealt, key # None, key.scheme # "sh00",
                      NEW S \in kSubset(key.k - 1, Nodes), NEW x \in Scalars
               PROVE  \E coeff \in [1 .. key.k - 1 -> Scalars] :
                         \A i \in S : shamir_share(x, coeff, N)[i] = key.xi[i]
    BY Zenon DEF BelowThreshold
  <1>1. key.k \in Nodes /\ key.x \in Scalars /\ Dealt(key.xi, key.k, key.x)
    BY Zenon DEF KeyDealt
  <1>2. S \in SUBSET Nodes /\ Cardinality(S) = key.k - 1
    BY Zenon DEF kSubset
  <1> QED
    BY <1>1, <1>2, AnySecretFits

\* For every number of nodes, threshold and order: k - 1 shares of a key that was
\* generated say nothing about its secret (shamir_share draws k - 1 coefficients).
THEOREM SecretHiddenBelowThreshold == Spec => []BelowThreshold
  BY KeyInit, KeyNext, AnySecretPossible, PTL DEF Spec

-----------------------------------------------------------------------------
(* The inductive invariant holds *)

\* The invariant holds initially.
LEMMA IInvInit == Init => IInv
  <1> SUFFICES ASSUME Init PROVE IInv
    OBVIOUS
  <1>1. RequestMade /\ OutcomeLater
    BY DEF Init, RequestMade, OutcomeLater
  <1>2. CommitmentsMade
    BY DEF Init, CommitmentsMade, Commitments
  <1>3. SharesMade
    BY DEF Init, SharesMade
  <1> QED
    BY Zenon, <1>1, <1>2, <1>3, TypeInit, KeyInit DEF IInv

\* create_share reads the key, the request and the commitments.
LEMMA SameShare ==
  ASSUME UNCHANGED <<key, request, nonces>>, NEW i, NEW s
  PROVE  create_share(i, s)' = create_share(i, s)
  BY DEF create_share, Encrypts, partial_decrypt, partial_sign

\* A step that changes none of them, nor the shares, keeps what is said of the shares.
LEMMA SharesStay ==
  ASSUME SharesMade, UNCHANGED <<key, request, nonces, shares>>
  PROVE  SharesMade'
  <1>1. \A i, s : create_share(i, s)' = create_share(i, s)
    BY SameShare
  <1> QED
    BY <1>1 DEF SharesMade, Committed

\* Every step keeps the invariant.
LEMMA IInvNext == IInv /\ [Next]_vars => IInv'
  <1> SUFFICES ASSUME IInv, [Next]_vars PROVE IInv'
    OBVIOUS
  <1> USE DEF IInv
  <1>0. TypeOK' /\ KeyDealt'
    BY Zenon, TypeNext, KeyNext
  <1>1. CASE GenerateKeys
    <2>1. /\ request = None /\ request' = None /\ DOMAIN shares = {}
          /\ UNCHANGED <<nonces, shares, outcome>>
      BY Zenon, <1>1 DEF GenerateKeys, TypeOK, SharesMade
    <2>2. RequestMade' /\ CommitmentsMade' /\ SharesMade' /\ OutcomeLater'
      BY Zenon, <2>1 DEF RequestMade, CommitmentsMade, SharesMade, OutcomeLater
    <2> QED
      BY Zenon, <1>0, <2>2
  <1>2. CASE Encrypt
    <2>1. /\ request = None /\ DOMAIN shares = {} /\ key.scheme \in {"sg02", "bz03"}
          /\ UNCHANGED <<key, nonces, shares, outcome>>
      BY Zenon, <1>2 DEF Encrypt, Encrypts, SharesMade
    <2>2. CommitmentsMade' /\ SharesMade' /\ OutcomeLater'
      BY <2>1 DEF CommitmentsMade, SharesMade, OutcomeLater
    <2>3. Nonces \subseteq Scalars
      BY SizeAssumption
    <2>4. PICK msg \in Messages, k \in 0 .. 1, r \in Nonces :
             \/ /\ key.scheme = "sg02"
                /\ \E s \in Nonces :
                      request' = [msg |-> msg,
                                  ct |-> sg02_encrypt(msg, Label, key, k, r, s)]
             \/ /\ key.scheme = "bz03"
                /\ request' = [msg |-> msg,
                               ct |-> bz03_encrypt(msg, Label, key, k, r)]
      BY Zenon, <1>2 DEF Encrypt
    <2>5. CASE key.scheme = "sg02"
      <3>1. PICK s \in Nonces :
               request' = [msg |-> msg, ct |-> sg02_encrypt(msg, Label, key, k, r, s)]
        BY Zenon, <2>4, <2>5
      <3>2. /\ request'.ct = sg02_encrypt(request'.msg, Label, key', k, r, s)
            /\ r \in Scalars /\ s \in Scalars
        BY Zenon, <2>1, <2>3, <3>1
      <3>3. RequestMade'
        BY Zenon, <2>1, <2>5, <3>2 DEF RequestMade
      <3> QED
        BY <1>0, <2>2, <3>3
    <2>6. CASE key.scheme = "bz03"
      <3>1. request' = [msg |-> msg, ct |-> bz03_encrypt(msg, Label, key, k, r)]
        BY Zenon, <2>4, <2>6
      <3>2. /\ request'.ct = bz03_encrypt(request'.msg, Label, key', k, r)
            /\ r \in Scalars
        BY <2>1, <2>3, <3>1
      <3>3. RequestMade'
        BY <2>1, <2>6, <3>2 DEF RequestMade
      <3> QED
        BY <1>0, <2>2, <3>3
    <2> QED
      BY Zenon, <2>1, <2>5, <2>6
  <1>3. CASE Ask
    <2>1. /\ request = None /\ DOMAIN shares = {} /\ key.scheme \notin {"sg02", "bz03"}
          /\ UNCHANGED <<key, nonces, shares, outcome>>
      BY Zenon, <1>3 DEF Ask, Encrypts, SharesMade
    <2>2. RequestMade' /\ CommitmentsMade' /\ SharesMade' /\ OutcomeLater'
      BY Zenon, <2>1 DEF RequestMade, CommitmentsMade, SharesMade, OutcomeLater
    <2> QED
      BY <1>0, <2>2
  <1>4. CASE HandlerPanics
    <2>1. UNCHANGED <<key, request, nonces, shares>> /\ outcome'.is = "panic"
      BY Zenon, <1>4 DEF HandlerPanics
    <2>2. RequestMade' /\ CommitmentsMade' /\ OutcomeLater'
      BY Zenon, <2>1 DEF RequestMade, CommitmentsMade, OutcomeLater
    <2> QED
      BY Zenon, <1>0, <2>1, <2>2, SharesStay
  <1>5. ASSUME NEW i \in Nodes, Commit(i) PROVE IInv'
    <2>1. /\ key.scheme = "frost" /\ request # None /\ Cardinality(DOMAIN nonces) < key.k
          /\ UNCHANGED <<key, request, shares, outcome>>
      BY Zenon, <1>5 DEF Commit
    <2>2. key.k \in Nodes /\ key.k \in Int
      BY <2>1, NodesAreIndices DEF TypeOK, Nodes
    <2>3. DOMAIN shares = {}
      <3>1. ~Committed
        BY <2>1, <2>2 DEF Committed
      <3> QED
        BY Zenon, <2>1, <3>1 DEF SharesMade
    <2>4. PICK d \in Nonces, e \in Nonces :
             nonces' = [j \in DOMAIN nonces \cup {i} |->
                           IF j = i THEN frost_commit(d, e) ELSE nonces[j]]
      BY Zenon, <1>5 DEF Commit
    <2>5. frost_commit(d, e) \in [d : Scalars, e : Scalars]
      BY SizeAssumption DEF frost_commit
    <2>6. CommitmentsMade'
      BY Zenon, <2>4, <2>5 DEF CommitmentsMade, Commitments
    <2>7. RequestMade' /\ SharesMade' /\ OutcomeLater'
      BY Zenon, <2>1, <2>3 DEF RequestMade, SharesMade, OutcomeLater
    <2> QED
      BY <1>0, <2>6, <2>7
  <1>6. ASSUME NEW i \in Nodes, CreateShare(i) PROVE IInv'
    <2>1. /\ request # None /\ i \notin DOMAIN shares
          /\ key.scheme = "frost" => Committed /\ i \in DOMAIN nonces
          /\ UNCHANGED <<key, request, nonces, outcome>>
      BY Zenon, <1>6 DEF CreateShare
    <2>2. PICK s \in Nonces :
             shares' = [j \in DOMAIN shares \cup {i} |->
                           IF j = i THEN create_share(i, s) ELSE shares[j]]
      BY Zenon, <1>6 DEF CreateShare
    <2>3. /\ DOMAIN shares' = DOMAIN shares \cup {i}
          /\ shares'[i] = create_share(i, s)
          /\ \A j \in DOMAIN shares : shares'[j] = shares[j]
      BY Zenon, <2>1, <2>2
    <2>4. \A j, t : create_share(j, t)' = create_share(j, t)
      BY Zenon, <2>1, SameShare
    <2>5. s \in Scalars
      BY Zenon, SizeAssumption
    <2>6. ASSUME key'.scheme \in DlNames, NEW j \in DOMAIN shares'
          PROVE  \E t \in Scalars : shares'[j] = create_share(j, t)'
      <3>1. CASE j = i
        BY Zenon, <2>3, <2>4, <2>5, <3>1
      <3>2. CASE j # i
        <4>1. j \in DOMAIN shares /\ key.scheme \in DlNames
          BY Zenon, <2>1, <2>3, <2>6, <3>2
        <4>2. PICK t \in Scalars : shares[j] = create_share(j, t)
          BY Zenon, <4>1 DEF SharesMade
        <4> QED
          BY Zenon, <2>3, <2>4, <4>1, <4>2
      <3> QED
        BY Zenon, <3>1, <3>2
    <2>7. key'.scheme = "frost" => Committed' /\ DOMAIN shares' \subseteq DOMAIN nonces'
      BY Zenon, <2>1, <2>3 DEF SharesMade, Committed
    <2>8. SharesMade'
      BY Zenon, <2>1, <2>3, <2>6, <2>7 DEF SharesMade
    <2>9. RequestMade' /\ CommitmentsMade' /\ OutcomeLater'
      BY Zenon, <2>1, <2>3 DEF RequestMade, CommitmentsMade, OutcomeLater
    <2> QED
      BY Zenon, <1>0, <2>8, <2>9
  <1>7. ASSUME NEW S \in SUBSET Nodes, Assemble(S) PROVE IInv'
    <2>1. UNCHANGED <<key, request, nonces, shares>> /\ shares # <<>>
      BY Zenon, <1>7 DEF Assemble
    <2>2. RequestMade' /\ CommitmentsMade' /\ OutcomeLater'
      BY Zenon, <2>1 DEF RequestMade, CommitmentsMade, OutcomeLater, SharesMade
    <2> QED
      BY Zenon, <1>0, <2>1, <2>2, SharesStay
  <1>8. CASE UNCHANGED vars
    <2>1. UNCHANGED <<key, request, nonces, shares, outcome>>
      BY <1>8 DEF vars
    <2>2. RequestMade' /\ CommitmentsMade' /\ OutcomeLater'
      BY Zenon, <2>1 DEF RequestMade, CommitmentsMade, OutcomeLater
    <2> QED
      BY Zenon, <1>0, <2>1, <2>2, SharesStay
  <1> QED
    BY Zenon, <1>1, <1>2, <1>3, <1>4, <1>5, <1>6, <1>7, <1>8 DEF Next

\* Every reachable state satisfies the invariant.
LEMMA Invariance == Spec => []IInv
  BY IInvInit, IInvNext, PTL DEF Spec

-----------------------------------------------------------------------------
(* Ciphertexts and shares computed honestly are accepted *)

\* The key is not an SH00 key.
Dl == key.scheme # "sh00"

\* What is known of such a key.
LEMMA DlKey ==
  ASSUME KeyDealt, key # None, Dl
  PROVE  /\ key.scheme \in DlNames /\ key.k \in Nodes /\ key.x \in Scalars
         /\ key.g_bar \in Int /\ key.y = key.x /\ key.y \in Scalars /\ key.vk = key.xi
         /\ Dealt(key.xi, key.k, key.x)
         /\ \A i \in Nodes : key.xi[i] \in Int
  BY Zenon, DealtPolynomial, ScalarMod DEF KeyDealt, Dl

\* The first component of a ciphertext made by encrypt is a scalar.
LEMMA HonestCiphertext ==
  ASSUME RequestMade, request # None, key.scheme \in {"sg02", "bz03"}
  PROVE  request.ct.u \in Scalars /\ request.ct.u \in Int
  <1>1. CASE key.scheme = "sg02"
    <2>1. PICK k \in 0 .. 1, r \in Scalars, s \in Scalars :
             request.ct = sg02_encrypt(request.msg, Label, key, k, r, s)
      BY Zenon, <1>1 DEF RequestMade
    <2>2. sg02_encrypt(request.msg, Label, key, k, r, s).u = r
      BY Zenon DEF sg02_encrypt
    <2> QED
      BY Zenon, <2>1, <2>2, ScalarMod
  <1>2. CASE key.scheme = "bz03"
    <2>1. PICK k \in 0 .. 1, r \in Scalars :
             request.ct = bz03_encrypt(request.msg, Label, key, k, r)
      BY Zenon, <1>2 DEF RequestMade
    <2>2. bz03_encrypt(request.msg, Label, key, k, r).u = r
      BY Zenon DEF bz03_encrypt
    <2> QED
      BY Zenon, <2>1, <2>2, ScalarMod
  <1> QED
    BY Zenon, <1>1, <1>2

\* The ciphertext of the request is accepted.
LEMMA CiphertextAccepted ==
  ASSUME HashIsNumber, IInv, Dl, request # None, Encrypts
  PROVE  verify_ciphertext
  <1>0. key # None
    BY Zenon DEF IInv, TypeOK
  <1>1. CASE key.scheme = "sg02"
    <2>1. PICK k \in 0 .. 1, r \in Scalars, s \in Scalars :
             request.ct = sg02_encrypt(request.msg, Label, key, k, r, s)
      BY Zenon, <1>1 DEF IInv, RequestMade
    <2>2. key.g_bar \in Int
      BY Zenon, <1>0, DlKey DEF IInv
    <2>3. sg02_verify_ciphertext(sg02_encrypt(request.msg, Label, key, k, r, s), key)
      BY Zenon, <2>2, Sg02CiphertextAccepted
    <2> QED
      BY Zenon, <1>1, <2>1, <2>3 DEF verify_ciphertext
  <1>2. CASE key.scheme = "bz03"
    <2>1. PICK k \in 0 .. 1, r \in Scalars :
             request.ct = bz03_encrypt(request.msg, Label, key, k, r)
      BY Zenon, <1>2 DEF IInv, RequestMade
    <2>2. bz03_verify_ciphertext(bz03_encrypt(request.msg, Label, key, k, r))
      BY Zenon, Bz03CiphertextAccepted
    <2> QED
      BY Zenon, <1>2, <2>1, <2>2 DEF verify_ciphertext
  <1> QED
    BY <1>1, <1>2 DEF Encrypts

\* In BZ03, BLS04 and FROST, verify_share accepts exactly the share the node computes.
LEMMA ExactShare ==
  ASSUME HashIsNumber, IInv, request # None,
         key.scheme \in {"bz03", "bls04", "frost"}, NEW i \in Nodes,
         key.scheme = "frost" => i \in DOMAIN nonces, NEW s
  PROVE  /\ create_share(i, s).data \in Scalars
         /\ create_share(i, s) = [data |-> create_share(i, s).data]
         /\ \A d \in Scalars :
               verify_share(i, [data |-> d]) <=> d = create_share(i, s).data
  <1> DEFINE v == key.xi[i]
  <1>0. key # None /\ Dl
    BY Zenon DEF IInv, TypeOK, Dl
  <1>1. v \in Int /\ key.vk[i] = v
    BY Zenon, <1>0, DlKey DEF IInv
  <1>2. CASE key.scheme = "bz03"
    <2>1. request.ct.u \in Int
      BY Zenon, <1>2, HonestCiphertext DEF IInv
    <2>2. create_share(i, s) = bz03_partial_decrypt(request.ct, v)
      BY <1>2 DEF create_share, Encrypts, partial_decrypt
    <2>3. \A share : verify_share(i, share) = bz03_verify_share(i, share, request.ct, key)
      BY Zenon, <1>2 DEF verify_share
    <2> HIDE DEF v
    <2>4. request.ct.u * v \in Int
      BY <1>1, <2>1
    <2>5. bz03_partial_decrypt(request.ct, v) = [data |-> (request.ct.u * v) % Q]
      BY Zenon DEF bz03_partial_decrypt
    <2>6. (request.ct.u * v) % Q \in Scalars
      BY Zenon, <2>4, ModDivision
    <2> QED
      BY <1>1, <2>1, <2>2, <2>3, <2>5, <2>6, Bz03ShareExact
  <1>3. CASE key.scheme = "bls04"
    <2> DEFINE h == bls04_H(request.msg)
    <2>1. h \in Int
      BY Zenon, HashScalar DEF bls04_H
    <2>2. create_share(i, s) = bls04_partial_sign(request.msg, v)
      BY <1>3 DEF create_share, Encrypts, partial_sign
    <2>3. \A share : verify_share(i, share) = bls04_verify_share(i, share, request.msg, key)
      BY <1>3 DEF verify_share
    <2>5. bls04_partial_sign(request.msg, v) = [data |-> (h * v) % Q]
      BY Zenon DEF bls04_partial_sign
    <2> HIDE DEF v, h
    <2>6. (h * v) % Q \in Scalars
      <3>1. h * v \in Int
        BY <1>1, <2>1
      <3> QED
        BY Zenon, <3>1, ModDivision
    <2> QED
      BY <1>1, <2>2, <2>3, <2>5, <2>6, Bls04ShareExact
  <1>4. CASE key.scheme = "frost"
    <2> DEFINE D == DOMAIN nonces
               right == FrostRight(D, nonces, request.msg, key, i, v)
    <2>1. i \in D /\ D \in SUBSET Nodes /\ nonces \in Commitments(D)
      BY Zenon, <1>4 DEF IInv, TypeOK, CommitmentsMade
    <2>2. create_share(i, s) = frost_partial_sign(i, nonces[i], nonces, request.msg, v, key)
      BY Zenon, <1>4 DEF create_share, Encrypts, partial_sign
    <2>3. \A share : verify_share(i, share)
                        = frost_verify_share(i, share, nonces, request.msg, key)
      BY <1>4 DEF verify_share
    <2> HIDE DEF v, D
    <2>4. OneShare(D, nonces, request.msg, key, i, v)
      BY Zenon, <1>1, <2>1, FrostShare
    <2>5. /\ frost_partial_sign(i, nonces[i], nonces, request.msg, v, key) = [data |-> right]
          /\ right \in Scalars
          /\ \A share : frost_verify_share(i, share, nonces, request.msg, key)
                           <=> share.data = right
      BY <2>4, Zenon DEF OneShare
    <2> HIDE DEF right
    <2> QED
      BY <2>2, <2>3, <2>5
  <1> QED
    BY Zenon, <1>2, <1>3, <1>4

\* Every share there is is accepted.
LEMMA ShareAccepted ==
  ASSUME HashIsNumber, IInv, Dl, NEW i \in DOMAIN shares
  PROVE  verify_share(i, shares[i])
  <1>1. request # None /\ key # None /\ i \in Nodes
    BY Zenon DEF IInv, TypeOK, SharesMade
  <1>2. key.scheme \in DlNames
    BY Zenon, <1>1, DlKey DEF IInv
  <1>3. PICK s \in Scalars : shares[i] = create_share(i, s)
    BY Zenon, <1>2 DEF IInv, SharesMade
  <1> DEFINE v == key.xi[i]
  <1>4. v \in Int /\ key.vk[i] = v
    BY Zenon, <1>1, DlKey DEF IInv
  <1>5. CASE key.scheme = "sg02"
    <2>1. request.ct.u \in Int
      BY Zenon, <1>1, <1>5, HonestCiphertext DEF IInv
    <2>2. create_share(i, s) = sg02_partial_decrypt(request.ct, v, s)
      BY <1>5 DEF create_share, Encrypts, partial_decrypt
    <2>3. verify_share(i, shares[i]) = sg02_verify_share(i, shares[i], request.ct, key)
      BY <1>5 DEF verify_share
    <2> HIDE DEF v
    <2> QED
      BY Zenon, <1>3, <1>4, <2>1, <2>2, <2>3, Sg02ShareAccepted
  <1>6. CASE key.scheme = "cks05"
    <2>2. create_share(i, s) = cks05_create_share(request.msg, i, v, key, s)
      BY <1>6 DEF create_share, Encrypts
    <2>3. verify_share(i, shares[i]) = cks05_verify_share(i, shares[i], request.msg, key)
      BY <1>6 DEF verify_share
    <2> HIDE DEF v
    <2> QED
      BY Zenon, <1>3, <1>4, <2>2, <2>3, Cks05ShareAccepted
  <1>7. CASE key.scheme \in {"bz03", "bls04", "frost"}
    <2>1. key.scheme = "frost" => i \in DOMAIN nonces
      BY DEF IInv, SharesMade
    <2>2. /\ create_share(i, s).data \in Scalars
          /\ create_share(i, s) = [data |-> create_share(i, s).data]
          /\ verify_share(i, [data |-> create_share(i, s).data])
      BY Zenon, <1>1, <1>7, <2>1, ExactShare
    <2> QED
      BY <1>3, <2>2
  <1> QED
    BY Zenon, <1>2, <1>5, <1>6, <1>7 DEF DlNames

\* The invariant implies that honest values are accepted.
LEMMA HonestDl ==
  ASSUME HashIsNumber, IInv, Dl
  PROVE  HonestAccepted
  <1>1. request # None /\ Encrypts => verify_ciphertext
    BY CiphertextAccepted
  <1>2. \A i \in DOMAIN shares : verify_share(i, shares[i])
    BY ShareAccepted
  <1> QED
    BY <1>1, <1>2 DEF HonestAccepted

\* The invariant implies that exact shares are accepted.
LEMMA Exact ==
  ASSUME HashIsNumber, IInv
  PROVE  ShareExact
  <1> SUFFICES ASSUME request # None, key.scheme \in {"bz03", "bls04", "frost"},
                      NEW i \in IF key.scheme = "frost" THEN DOMAIN nonces ELSE Nodes,
                      NEW d \in Scalars
               PROVE  verify_share(i, [data |-> d]) <=> d = create_share(i, 0).data
    BY Zenon DEF ShareExact
  <1>1. i \in Nodes /\ (key.scheme = "frost" => i \in DOMAIN nonces)
    BY Zenon DEF IInv, TypeOK
  <1> QED
    BY Zenon, <1>1, ExactShare

-----------------------------------------------------------------------------
(* The assembled result *)

\* The right result of the request, as AssembleRight states it.
RightResult(value) ==
    CASE Encrypts -> value = request.msg
      [] key.scheme = "cks05" ->
            value = cks05_H2((cks05_H(request.msg) * key.x) % Q)
      [] OTHER -> verify(value)

\* What the schemes other than FROST raise to a node's share: u of the ciphertext, or
\* the hash of the message or the name.
Multiplier ==
    CASE Encrypts -> request.ct.u
      [] key.scheme = "cks05" -> cks05_H(request.msg)
      [] OTHER -> bls04_H(request.msg)

\* k or more shares interpolate to that base, raised to the secret.
LEMMA Interpolated ==
  ASSUME HashIsNumber, IInv, Dl, key # None, request # None, key.scheme # "frost",
         NEW S \in SUBSET DOMAIN shares, Cardinality(S) >= key.k
  PROVE  interpolate([i \in S |-> shares[i]]) = (Multiplier * key.x) % Q
  <1> DEFINE sh == [i \in S |-> shares[i]]
             c == Multiplier
             xi == key.xi
             k == key.k
             x == key.x
  <1>1. key.scheme \in DlNames /\ k \in Nodes /\ x \in Scalars /\ Dealt(xi, k, x)
    BY Zenon, DlKey DEF IInv
  <1>2. S \in SUBSET Nodes
    BY Zenon DEF IInv, TypeOK
  <1>3. c \in Int
    <2>1. CASE Encrypts
      BY Zenon, <2>1, HonestCiphertext DEF Multiplier, IInv, Encrypts
    <2>2. CASE ~Encrypts
      BY <2>2, HashScalar DEF Multiplier, cks05_H, bls04_H
    <2> QED
      BY Zenon, <2>1, <2>2
  <1>4. ASSUME NEW i \in S
        PROVE  sh[i].data = (c * xi[i]) % Q
    <2>1. PICK s \in Scalars : shares[i] = create_share(i, s)
      BY Zenon, <1>1 DEF IInv, SharesMade
    <2>2. CASE key.scheme = "sg02"
      BY <2>1, <2>2 DEF create_share, Encrypts, partial_decrypt, sg02_partial_decrypt, Multiplier
    <2>3. CASE key.scheme = "bz03"
      BY <2>1, <2>3 DEF create_share, Encrypts, partial_decrypt, bz03_partial_decrypt, Multiplier
    <2>4. CASE key.scheme = "cks05"
      BY <2>1, <2>4 DEF create_share, Encrypts, cks05_create_share, Multiplier
    <2>5. CASE key.scheme = "bls04"
      BY <2>1, <2>5 DEF create_share, Encrypts, partial_sign, bls04_partial_sign, Multiplier
    <2> QED
      BY Zenon, <1>1, <2>2, <2>3, <2>4, <2>5 DEF DlNames
  <1>5. DOMAIN sh = S
    OBVIOUS
  <1>6. Cardinality(S) >= k
    BY Zenon
  <1> HIDE DEF sh, c, xi, k, x
  <1>7. interpolate(sh) = (c * x) % Q
    BY <1>1, <1>2, <1>3, <1>4, <1>5, <1>6, InterpolateShares
  <1> QED
    BY Zenon, <1>7 DEF sh, c, x

\* k or more shares, whichever they are, assemble to the right result.  In FROST they
\* are the shares of all signers, for there are k signers.
LEMMA Assembled ==
  ASSUME HashIsNumber, IInv, Dl, key # None, request # None,
         NEW S \in SUBSET DOMAIN shares, Cardinality(S) >= key.k
  PROVE  RightResult(assemble(S))
  <1> DEFINE sh == [i \in S |-> shares[i]]
  <1>1. /\ key.scheme \in DlNames /\ key.k \in Nodes /\ key.x \in Scalars /\ key.y = key.x
        /\ key.y \in Scalars /\ key.vk = key.xi /\ Dealt(key.xi, key.k, key.x)
    BY Zenon, DlKey DEF IInv
  <1>2. key.scheme # "frost" => interpolate(sh) = (Multiplier * key.y) % Q
    BY Zenon, <1>1, Interpolated
  <1>3. CASE key.scheme = "sg02"
    <2>1. PICK k \in 0 .. 1, r \in Scalars, s \in Scalars :
             request.ct = sg02_encrypt(request.msg, Label, key, k, r, s)
      BY Zenon, <1>3 DEF IInv, RequestMade
    <2>2. Multiplier = r
      BY <1>3, <2>1 DEF Multiplier, Encrypts, sg02_encrypt
    <2>3. assemble(S) = sg02_assemble(sh, request.ct)
      BY <1>3 DEF assemble
    <2> HIDE DEF sh
    <2>4. interpolate(sh) = (r * key.y) % Q
      BY Zenon, <1>2, <1>3, <2>2
    <2>5. sg02_assemble(sh, sg02_encrypt(request.msg, Label, key, k, r, s)) = request.msg
      BY <1>1, <2>4, Sg02Assembles
    <2> QED
      BY Zenon, <1>3, <2>1, <2>3, <2>5 DEF RightResult, Encrypts
  <1>4. CASE key.scheme = "bz03"
    <2>1. PICK k \in 0 .. 1, r \in Scalars :
             request.ct = bz03_encrypt(request.msg, Label, key, k, r)
      BY Zenon, <1>4 DEF IInv, RequestMade
    <2>2. Multiplier = r
      BY <1>4, <2>1 DEF Multiplier, Encrypts, bz03_encrypt
    <2>3. assemble(S) = bz03_assemble(sh, request.ct)
      BY <1>4 DEF assemble
    <2> HIDE DEF sh
    <2>4. interpolate(sh) = (r * key.y) % Q
      BY Zenon, <1>2, <1>4, <2>2
    <2>5. bz03_assemble(sh, bz03_encrypt(request.msg, Label, key, k, r)) = request.msg
      BY <1>1, <2>4, Bz03Assembles
    <2> QED
      BY Zenon, <1>4, <2>1, <2>3, <2>5 DEF RightResult, Encrypts
  <1>5. CASE key.scheme = "cks05"
    <2>1. assemble(S) = cks05_H2(interpolate(sh))
      BY <1>5 DEF assemble, cks05_assemble
    <2>2. Multiplier = cks05_H(request.msg)
      BY <1>5 DEF Multiplier, Encrypts
    <2> HIDE DEF sh
    <2> QED
      BY Zenon, <1>1, <1>2, <1>5, <2>1, <2>2 DEF RightResult, Encrypts
  <1>6. CASE key.scheme = "bls04"
    <2>1. assemble(S) = interpolate(sh)
      BY Zenon, <1>6 DEF assemble, bls04_assemble
    <2>2. Multiplier = bls04_H(request.msg)
      BY Zenon, <1>6 DEF Multiplier, Encrypts
    <2> HIDE DEF sh
    <2>3. bls04_verify(interpolate(sh), key, request.msg)
      BY Zenon, <1>1, <1>2, <1>6, <2>2, Bls04Verifies
    <2> QED
      BY Zenon, <1>6, <2>1, <2>3 DEF RightResult, Encrypts, verify
  <1>7. CASE key.scheme = "frost"
    <2> DEFINE D == DOMAIN nonces
    <2>1. /\ Cardinality(D) = key.k /\ DOMAIN shares \subseteq D
          /\ D \in SUBSET Nodes /\ nonces \in Commitments(D) /\ IsFiniteSet(D)
      <3>1. DOMAIN shares # {}
        <4>1. key.k >= 1 /\ key.k \in Int
          BY <1>1, NodesAreIndices DEF Nodes
        <4>2. S # {}
          BY <4>1, FS_EmptySet
        <4> QED
          BY Zenon, <4>2
      <3>2. Cardinality(D) = key.k /\ DOMAIN shares \subseteq D
        BY Zenon, <1>7, <3>1 DEF IInv, SharesMade, Committed
      <3>3. D \in SUBSET Nodes /\ nonces \in Commitments(D)
        BY Zenon DEF IInv, TypeOK, CommitmentsMade
      <3> QED
        BY Zenon, <3>2, <3>3, NodesAreIndices, FS_Subset
    <2>2. S = D
      <3>1. S \subseteq D /\ Cardinality(S) <= Cardinality(D) /\ IsFiniteSet(S)
        BY Zenon, <2>1, FS_Subset
      <3>2. Cardinality(S) \in Nat /\ Cardinality(D) \in Nat
        BY Zenon, <2>1, <3>1, FS_CardinalityType
      <3>3. Cardinality(S) = Cardinality(D)
        BY <2>1, <3>1, <3>2
      <3> QED
        BY Zenon, <2>1, <3>1, <3>3, FS_Subset
    <2>3. \A i \in D : sh[i] = frost_partial_sign(i, nonces[i], nonces, request.msg,
                                                  key.xi[i], key)
      <3> SUFFICES ASSUME NEW i \in D
                   PROVE  shares[i] = frost_partial_sign(i, nonces[i], nonces, request.msg,
                                                         key.xi[i], key)
        BY Zenon, <2>2
      <3>1. PICK s \in Scalars : shares[i] = create_share(i, s)
        BY Zenon, <1>1, <2>2 DEF IInv, SharesMade
      <3> QED
        BY Zenon, <1>7, <3>1 DEF create_share, Encrypts, partial_sign
    <2>4. DOMAIN sh = D
      BY Zenon, <2>2
    <2>5. assemble(S) = frost_assemble(get_group_commitment(nonces, request.msg, key), sh)
      BY Zenon, <1>7 DEF assemble
    <2> HIDE DEF sh
    <2> DEFINE xi == key.xi
               x == key.x
               k == key.k
    <2>6. /\ k \in Nodes /\ x \in Scalars /\ Dealt(xi, k, x) /\ Cardinality(D) >= k
          /\ key.y = x /\ key.vk = xi
      BY Zenon, <1>1, <2>2
    <2>7. FrostSigned(D, nonces, request.msg, key, xi, sh)
      BY Zenon, <2>3, <2>4 DEF FrostSigned
    <2> HIDE DEF xi, x, k
    <2>8. frost_verify(frost_assemble(get_group_commitment(nonces, request.msg, key), sh),
                       key, request.msg)
      BY Zenon, <2>1, <2>6, <2>7, FrostSignedVerifies
    <2> QED
      BY Zenon, <1>7, <2>5, <2>8 DEF RightResult, Encrypts, verify
  <1> QED
    BY Zenon, <1>1, <1>3, <1>4, <1>5, <1>6, <1>7 DEF DlNames

\* A result that was assembled is the right one.
OutcomeRight == Dl => AssembleRight

\* It stays so while key, request and result do not change.
LEMMA SameResult ==
  ASSUME UNCHANGED <<key, request, outcome>>, OutcomeRight
  PROVE  OutcomeRight'
  BY Zenon DEF OutcomeRight, Dl, AssembleRight, Encrypts, verify

\* Every step keeps it.
LEMMA ResultNext ==
  ASSUME HashIsNumber, IInv, OutcomeRight, [Next]_vars
  PROVE  OutcomeRight'
  <1>1. CASE GenerateKeys \/ Encrypt \/ Ask \/ HandlerPanics
    <2>1. outcome'.is # "value"
      <3>1. CASE GenerateKeys
        BY <3>1 DEF GenerateKeys, IInv, TypeOK, OutcomeLater
      <3>2. CASE Encrypt
        BY <3>2 DEF Encrypt, IInv, TypeOK, OutcomeLater
      <3>3. CASE Ask
        BY <3>3 DEF Ask, IInv, TypeOK, OutcomeLater
      <3>4. CASE HandlerPanics
        BY <3>4 DEF HandlerPanics, IInv, TypeOK, OutcomeLater
      <3> QED
        BY Zenon, <1>1, <3>1, <3>2, <3>3, <3>4
    <2> QED
      BY Zenon, <2>1 DEF OutcomeRight, AssembleRight
  <1>2. CASE \E i \in Nodes : Commit(i) \/ CreateShare(i)
    BY Zenon, <1>2, SameResult DEF Commit, CreateShare
  <1>3. ASSUME NEW S \in SUBSET Nodes, Assemble(S) PROVE OutcomeRight'
    <2>1. /\ UNCHANGED <<key, request>>
          /\ S \in SUBSET DOMAIN shares /\ Cardinality(S) >= key.k
          /\ outcome'.value = assemble(S) /\ shares # <<>>
      BY Zenon, <1>3 DEF Assemble
    <2>2. request # None /\ key # None
      BY Zenon, <2>1 DEF IInv, SharesMade, TypeOK
    <2>3. Dl => RightResult(outcome'.value)
      BY Zenon, <2>1, <2>2, Assembled
    <2> QED
      BY Zenon, <2>1, <2>3 DEF OutcomeRight, AssembleRight, Dl, RightResult, Encrypts, verify
  <1>4. CASE UNCHANGED vars
    BY Zenon, <1>4, SameResult DEF vars
  <1> QED
    BY Zenon, <1>1, <1>2, <1>3, <1>4 DEF Next

\* There is no result initially.
LEMMA ResultInit == Init => OutcomeRight
  BY DEF Init, OutcomeRight, AssembleRight

\* In every scheme of the discrete logarithm, for every number of nodes, threshold,
\* order, secret and random numbers: whichever k or more shares assemble is given, it
\* returns the plaintext, the coin of the name, or a signature that verify accepts.
THEOREM AssembledResultRight == HashIsNumber => (Spec => [](Dl => AssembleRight))
  <1> SUFFICES ASSUME HashIsNumber PROVE Spec => [](Dl => AssembleRight)
    BY Zenon
  <1>1. IInv /\ OutcomeRight /\ [Next]_vars => OutcomeRight'
    BY Zenon, ResultNext
  <1>2. OutcomeRight => (Dl => AssembleRight)
    BY DEF OutcomeRight
  <1> QED
    BY <1>1, <1>2, ResultInit, Invariance, PTL DEF Spec

\* In every scheme of the discrete logarithm, verify_ciphertext accepts the
\* ciphertexts encrypt makes and verify_share the shares the nodes compute.
THEOREM HonestSharesAccepted == HashIsNumber => (Spec => [](Dl => HonestAccepted))
  <1> SUFFICES ASSUME HashIsNumber PROVE Spec => [](Dl => HonestAccepted)
    OBVIOUS
  <1>1. IInv => (Dl => HonestAccepted)
    BY Zenon, HonestDl
  <1> QED
    BY <1>1, Invariance, PTL

\* In BZ03, BLS04 and FROST, verify_share accepts for each node the value it computes
\* and no other.
THEOREM SharesExact == HashIsNumber => (Spec => []ShareExact)
  <1> SUFFICES ASSUME HashIsNumber PROVE Spec => []ShareExact
    BY Zenon
  <1>1. IInv => ShareExact
    BY Zenon, Exact
  <1> QED
    BY <1>1, Invariance, PTL

=============================================================================
