------------------------------ MODULE RsaScheme ------------------------------
(***************************************************************************)
(* The threshold RSA signature SH00 of core/schemes (rsa_schemes/), with   *)
(* its integers: a modulus of two safe primes, exponents modulo m = p1 q1, *)
(* and Lagrange coefficients that are integers once multiplied by          *)
(* delta = n!.                                                             *)
(***************************************************************************)
EXTENDS DlSchemes

CONSTANTS
    P1, Q1,  \* the Sophie Germain primes of the modulus
    E,       \* the public exponent
    IdBits   \* the width of the ids interpolate passes on (u8: 8)

P == 2 * P1 + 1
QQ == 2 * Q1 + 1
Modulus == P * QQ
M == P1 * Q1

\* BigInt::pow_mod: a negative exponent is a power of the inverse.
pow_mod[a \in Int, e \in Int, m \in Nat] ==
    IF e < 0 THEN pow_mod[inv_mod(a, m), -e, m]
    ELSE IF e = 0 THEN 1 % m
    ELSE LET half == pow_mod[(a * a) % m, e \div 2, m]
         IN  IF e % 2 = 1 THEN (half * a) % m ELSE half

\* BigInt::legendre and BigInt::jacobi, for the modulus P * QQ.
legendre(a, p) ==
    LET power == pow_mod[a % p, (p - 1) \div 2, p]
    IN  IF power = p - 1 THEN -1 ELSE power
jacobi(x) == legendre(x, P) * legendre(x, QQ)

fac[x \in Nat] == IF x < 2 THEN 1 ELSE x * fac[x - 1]

ext_euclid[x \in Nat, y \in Nat] ==
    IF x = 0 THEN <<0, 1>>
    ELSE LET ab == ext_euclid[y % x, x]
         IN  <<ab[2] - (y \div x) * ab[1], ab[1]>>

-----------------------------------------------------------------------------
(* Key generation *)

\* f(i) / n! modulo m, for the polynomial f with constant term d.
shamir_share_rsa(d, coeff, n) ==
    LET fk == <<d>> \o coeff
        f(i) == FoldLeftDomain(LAMBDA t, j : t + pow_mod[i, j - 1, M] * fk[j], 0, fk)
    IN  [i \in 1 .. n |-> (f(i) * inv_mod(fac[n], M)) % M]

\* u is drawn until it is a square modulo exactly one of the primes.
IsU(u) == (pow_mod[u, P1, P] = 1) # (pow_mod[u, Q1, QQ] = 1)

-----------------------------------------------------------------------------
(* rsa_schemes/common.rs: interpolation *)

\* indices went through `as u8`; i did not.
lag_coeff(indices, i, delta) ==
    LET others == {j \in indices : j # i}
        ln == FoldSet(LAMBDA j, a : a * (-j), delta, others)
        ld == FoldSet(LAMBDA j, a : a * (i - j), 1, others)
        sign == IF ld < 0 THEN -1 ELSE 1  \* the quotient is exact
    IN  2 * ((sign * ln) \div (sign * ld))

interpolate_rsa(shares, delta) ==
    LET ids == {id % 2^IdBits : id \in DOMAIN shares}
    IN  FoldSet(LAMBDA id, w :
                    (w * pow_mod[shares[id].data, lag_coeff(ids, id, delta),
                                 Modulus]) % Modulus,
                1, DOMAIN shares)

-----------------------------------------------------------------------------
(* signatures/sh00.rs.  pk is [v, vk, u, delta, ...]; xi is the share's    *)
(* exponent (si in the code).                                              *)

sh00_H1(msg) == Hash(14, <<msg>>) % Modulus
sh00_H2(v, x_hat, vi, xi2, v1, x1) == Hash(15, <<v, x_hat, vi, xi2, v1, x1>>)

\* The hash is moved to Jacobi symbol 1 with u^e; it panics when it is 0.
sh00_H(msg, pk) ==
    LET x == sh00_H1(msg)
        j == jacobi(x)
    IN  [x |-> IF j = -1 THEN (pow_mod[pk.u, E, Modulus] * x) % Modulus ELSE x,
         j |-> j]

sh00_partial_sign(id, msg, pk, si, r) ==
    LET x     == sh00_H(msg, pk).x
        xi    == pow_mod[x, 2 * si, Modulus]
        x_hat == pow_mod[x, 4, Modulus]
        c     == sh00_H2(pk.v, x_hat, pk.vk[id], (xi * xi) % Modulus,
                         pow_mod[pk.v, r, Modulus], pow_mod[x_hat, r, Modulus])
    IN  [data |-> xi, c |-> c, z |-> si * c + r]

sh00_verify_share(id, share, msg, pk) ==
    LET x_hat == pow_mod[sh00_H(msg, pk).x, 4, Modulus]
        vi == pk.vk[id]
        v1 == (pow_mod[pk.v, share.z, Modulus]
                 * inv_mod(pow_mod[vi, share.c, Modulus], Modulus)) % Modulus
        x1 == (pow_mod[x_hat, share.z, Modulus]
                 * inv_mod(pow_mod[share.data, 2 * share.c, Modulus], Modulus))
              % Modulus
    IN  share.c = sh00_H2(pk.v, x_hat, vi, (share.data * share.data) % Modulus,
                          v1, x1)

sh00_assemble(shares, msg, pk) ==
    LET ab == ext_euclid[4, E]
        h  == sh00_H(msg, pk)
        w  == pow_mod[interpolate_rsa(shares, pk.delta), ab[1], Modulus]
        y  == (w * pow_mod[h.x, ab[2], Modulus]) % Modulus
    IN  IF h.j = -1 THEN (inv_mod(pk.u, Modulus) * y) % Modulus ELSE y

sh00_verify(sig, msg) == pow_mod[sig, E, Modulus] = sh00_H1(msg)

=============================================================================
