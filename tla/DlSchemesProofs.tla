-------------------------- MODULE DlSchemesProofs ----------------------------
(* Shamir sharing and Lagrange interpolation as dl_schemes/common.rs computes them, for *)
(* every prime order: k or more points of a polynomial of degree below k give its       *)
(* constant term, and fewer than k points leave it open.  On top of it, what the        *)
(* algorithms of DlSchemes compute honestly is accepted and opened.  Sums, products and *)
(* polynomials are folds, and what they compute is proved by induction over an          *)
(* explicit set: the set of the sizes, or of the subsets, for which the claim holds.    *)
EXTENDS DlSchemes, FiniteSetTheorems, TLAPS

-----------------------------------------------------------------------------
(* Congruence modulo the order of the group *)

\* The remainder, kept folded: the provers see a function of a number.
Mod(a) == a % Q

\* Congruence modulo the order.
Cong(a, b) == Mod(a) = Mod(b)

\* The order is a number above 1.
LEMMA OrderType ==
  Q \in Nat /\ Q > 1
  BY OrderAssumption

\* A number is a multiple of the order and its remainder, which is a scalar.
LEMMA ModDivision ==
  ASSUME NEW a \in Int
  PROVE  /\ a % Q \in Scalars
         /\ a % Q \in Int
         /\ \E t \in Int : a = Q * t + (a % Q)
  <1>1. a % Q \in Scalars /\ a % Q \in Int /\ a \div Q \in Int
    BY OrderType DEF Scalars
  <1>2. a = Q * (a \div Q) + (a % Q)
    BY OrderType
  <1> QED
    BY <1>1, <1>2

\* No multiple of the order but 0 lies between -Q and Q.
LEMMA MultipleIsLarge ==
  ASSUME NEW t \in Int, t # 0
  PROVE  Q * t >= Q \/ Q * t <= -Q
  <1>1. CASE t >= 1
    <2>1. Q * (t - 1) >= 0
      BY <1>1, OrderType
    <2> QED
      BY <1>1, <2>1, OrderType
  <1>2. CASE t <= -1
    <2>1. Q * ((-t) - 1) >= 0
      BY <1>2, OrderType
    <2> QED
      BY <1>2, <2>1, OrderType
  <1> QED
    BY <1>1, <1>2

\* Two scalars that differ by a multiple of the order are one.
LEMMA RemainderUnique ==
  ASSUME NEW r \in Scalars, NEW s \in Scalars, NEW t \in Int, s = r + Q * t
  PROVE  s = r
  <1>1. s - r < Q /\ s - r > -Q /\ Q * t = s - r /\ s \in Int /\ r \in Int
    BY OrderType DEF Scalars
  <1>2. t = 0
    BY <1>1, MultipleIsLarge, OrderType
  <1>3. Q * t = 0
    BY <1>2, OrderType
  <1> QED
    BY <1>1, <1>3

\* Congruent numbers are those that differ by a multiple of the order.
LEMMA CongByMultiple ==
  ASSUME NEW a \in Int, NEW b \in Int
  PROVE  Cong(a, b) <=> \E t \in Int : a = b + Q * t
  <1> DEFINE r == a % Q
             s == b % Q
  <1>1. PICK u \in Int : a = Q * u + r
    BY ModDivision
  <1>2. PICK v \in Int : b = Q * v + s
    BY ModDivision
  <1>3. r \in Scalars /\ s \in Scalars /\ r \in Int /\ s \in Int
    BY ModDivision
  <1> HIDE DEF r, s
  <1>4. ASSUME NEW t \in Int, a = b + Q * t
        PROVE  r = s
    <2>2. r = s + Q * (v + t - u) /\ v + t - u \in Int
      BY <1>1, <1>2, <1>3, <1>4, OrderType
    <2> QED
      BY <1>3, <2>2, RemainderUnique
  <1>5. ASSUME r = s  PROVE \E t \in Int : a = b + Q * t
    <2>1. a = b + Q * (u - v) /\ u - v \in Int
      BY <1>1, <1>2, <1>3, <1>5, OrderType
    <2> QED
      BY <2>1
  <1> QED
    BY <1>4, <1>5 DEF r, s, Cong, Mod

\* A number is congruent to its remainder.
LEMMA CongMod ==
  ASSUME NEW a \in Int
  PROVE  Cong(a % Q, a) /\ Cong(a, a % Q)
  <1>1. a % Q \in Int /\ a % Q \in Scalars
    BY ModDivision
  <1>2. (a % Q) % Q = a % Q
    <2>1. \A r \in Scalars : r % Q = r
      BY OrderType DEF Scalars
    <2> QED
      BY <1>1, <2>1
  <1> QED
    BY <1>2 DEF Cong, Mod

\* A scalar is its own remainder.
LEMMA ScalarMod ==
  ASSUME NEW r \in Scalars
  PROVE  r \in Int /\ Mod(r) = r
  BY OrderType DEF Scalars, Mod

\* Congruence is kept by sums, differences and products.
LEMMA CongArith ==
  ASSUME NEW a \in Int, NEW b \in Int, NEW c \in Int, NEW d \in Int,
         Cong(a, b), Cong(c, d)
  PROVE  Cong(a + c, b + d) /\ Cong(a - c, b - d) /\ Cong(a * c, b * d)
  <1>1. PICK t \in Int : a = b + Q * t
    BY CongByMultiple
  <1>2. PICK u \in Int : c = d + Q * u
    BY CongByMultiple
  <1>3. a + c = (b + d) + Q * (t + u) /\ t + u \in Int
    BY <1>1, <1>2, OrderType
  <1>4. a - c = (b - d) + Q * (t - u) /\ t - u \in Int
    BY <1>1, <1>2, OrderType
  <1>5. a * c = b * d + Q * (b * u + t * d + t * (Q * u))
    <2>1. a * c = b * d + b * (Q * u) + (Q * t) * d + (Q * t) * (Q * u)
      BY <1>1, <1>2, OrderType
    <2> QED
      BY <2>1, OrderType
  <1>6. b * u + t * d + t * (Q * u) \in Int
    BY OrderType
  <1>7. a + c \in Int /\ b + d \in Int /\ a - c \in Int /\ b - d \in Int
        /\ a * c \in Int /\ b * d \in Int
    OBVIOUS
  <1> QED
    BY <1>3, <1>4, <1>5, <1>6, <1>7, CongByMultiple

\* Induction on the natural numbers, over the set A of those that have the property.
LEMMA Induction ==
  ASSUME NEW A, 0 \in A, \A n \in Nat : n \in A => n + 1 \in A
  PROVE  \A n \in Nat : n \in A
  <1> DEFINE T == Nat \ A
  <1>1. SUFFICES ASSUME T # {} PROVE FALSE
    OBVIOUS
  <1>2. PICK x \in T : \A y \in T : ~(<<y, x>> \in OpToRel(<, Nat))
    BY <1>1, NatLessThanWellFounded, WFMin, Zenon
  <1>3. x \in Nat /\ x # 0 /\ x \notin A
    BY <1>2, Zenon
  <1>4. x - 1 \in Nat /\ <<x - 1, x>> \in OpToRel(<, Nat) /\ (x - 1) + 1 = x
    BY <1>3 DEF OpToRel
  <1>5. x - 1 \in A
    BY <1>2, <1>4, Zenon
  <1> QED
    BY <1>3, <1>4, <1>5, Zenon

-----------------------------------------------------------------------------
(* Induction over the subsets of a finite set, and folds over sets that do not depend on
   the order of the elements *)

\* Induction on the finite sets: A holds the subsets of S that have the property.
LEMMA SubsetInduction ==
  ASSUME NEW S, IsFiniteSet(S), NEW A,
         \A s \in SUBSET S : (\A x \in s : s \ {x} \in A) => s \in A
  PROVE  \A s \in SUBSET S : s \in A
  <1> DEFINE B == {n \in Nat : \A s \in SUBSET S : Cardinality(s) = n => s \in A}
  <1>1. \A s \in SUBSET S : IsFiniteSet(s) /\ Cardinality(s) \in Nat
    BY FS_Subset, FS_CardinalityType
  <1>2. 0 \in B
    <2>1. ASSUME NEW s \in SUBSET S, Cardinality(s) = 0  PROVE s \in A
      <3>1. s = {}
        BY <1>1, <2>1, FS_EmptySet
      <3> QED
        BY <3>1
    <2> QED
      BY <2>1
  <1>3. ASSUME NEW n \in Nat, n \in B  PROVE n + 1 \in B
    <2>1. ASSUME NEW s \in SUBSET S, Cardinality(s) = n + 1  PROVE s \in A
      <3>1. ASSUME NEW x \in s  PROVE s \ {x} \in A
        <4>1. Cardinality(s \ {x}) = Cardinality(s) - 1
          BY <1>1, FS_RemoveElement
        <4>2. Cardinality(s \ {x}) = n /\ s \ {x} \in SUBSET S
          BY <2>1, <4>1
        <4> QED
          BY <1>3, <4>2
      <3> QED
        BY <3>1
    <2> QED
      BY <2>1
  <1> HIDE DEF B
  <1>4. \A n \in Nat : n \in B
    BY <1>2, <1>3, Induction
  <1> QED
    BY <1>1, <1>4 DEF B

\* h folds F over the subsets of S, the elements taken in the order of C.
IsFold(h, S, b, C, F) ==
    h = [s \in SUBSET S |-> IF s = {} THEN b ELSE F[<<C[s], h[s \ {C[s]}]>>]]

\* What a fold of F over S, with values in V, needs to be defined.
Foldable(S, V, b, C, F) ==
    /\ IsFiniteSet(S)
    /\ b \in V
    /\ \A s \in SUBSET S : s # {} => C[s] \in s
    /\ \A x \in S, v \in V : F[<<x, v>>] \in V

\* There is such a fold: it is defined by recursion on the size of the subset.
LEMMA FoldExists ==
  ASSUME NEW S, NEW V, NEW b, NEW C, NEW F, Foldable(S, V, b, C, F)
  PROVE  \E h \in [SUBSET S -> V] : IsFold(h, S, b, C, F)
  <1> USE DEF Foldable
  <1> DEFINE D(n) == {s \in SUBSET S : Cardinality(s) <= n}
             Good(h, n) ==
                 \A s \in D(n) :
                    h[s] = IF s = {} THEN b ELSE F[<<C[s], h[s \ {C[s]}]>>]
             B == {n \in Nat : \E h \in [D(n) -> V] : Good(h, n)}
  <1>1. \A s \in SUBSET S : IsFiniteSet(s) /\ Cardinality(s) \in Nat
    BY FS_Subset, FS_CardinalityType
  <1>2. \A s \in SUBSET S :
           s # {} => /\ C[s] \in s
                     /\ s \ {C[s]} \in SUBSET S
                     /\ Cardinality(s \ {C[s]}) = Cardinality(s) - 1
    BY <1>1, FS_RemoveElement, Zenon
  <1>3. 0 \in B
    <2> DEFINE h == [s \in D(0) |-> b]
    <2>1. \A s \in D(0) : s = {}
      BY <1>1, FS_EmptySet
    <2>2. h \in [D(0) -> V] /\ Good(h, 0)
      BY <2>1
    <2> QED
      BY <2>2, Zenon
  <1>4. ASSUME NEW n \in Nat, n \in B  PROVE n + 1 \in B
    <2>1. PICK g \in [D(n) -> V] : Good(g, n)
      BY <1>4, Zenon
    <2> DEFINE val(s) == IF s = {} THEN b ELSE F[<<C[s], g[s \ {C[s]}]>>]
               h == [s \in D(n + 1) |-> val(s)]
    <2>2. ASSUME NEW s \in D(n + 1), s # {}
          PROVE  s \ {C[s]} \in D(n) /\ C[s] \in S
      BY <1>1, <1>2, <2>2
    <2>3. \A s \in D(n + 1) : val(s) \in V
      BY <2>1, <2>2
    <2>4. D(n) \subseteq D(n + 1)
      BY <1>1
    <2>5. \A s \in D(n) : h[s] = g[s]
      BY <2>1, <2>4
    <2>6. h \in [D(n + 1) -> V]
      BY <2>3
    <2>7. ASSUME NEW s \in D(n + 1)
          PROVE  h[s] = IF s = {} THEN b ELSE F[<<C[s], h[s \ {C[s]}]>>]
      <3>1. CASE s = {}
        BY <3>1
      <3>2. CASE s # {}
        <4>1. h[s] = F[<<C[s], g[s \ {C[s]}]>>]
          BY <3>2
        <4>2. h[s \ {C[s]}] = g[s \ {C[s]}]
          BY <2>2, <2>5, <3>2, Zenon
        <4> QED
          BY Zenon, <3>2, <4>1, <4>2
      <3> QED
        BY Zenon, <3>1, <3>2
    <2>8. Good(h, n + 1)
      BY <2>7, Zenon
    <2> HIDE DEF h, Good, D
    <2>9. \E k \in [D(n + 1) -> V] : Good(k, n + 1)
      BY <2>6, <2>8
    <2> QED
      BY <2>9
  <1> HIDE DEF B
  <1>5. Cardinality(S) \in B
    BY <1>1, <1>3, <1>4, Induction
  <1>6. D(Cardinality(S)) = SUBSET S
    BY <1>1, FS_Subset
  <1>7. PICK h \in [D(Cardinality(S)) -> V] : Good(h, Cardinality(S))
    BY <1>5, Zenon DEF B
  <1>8. h \in [SUBSET S -> V]
    BY <1>6, <1>7
  <1>9. IsFold(h, S, b, C, F)
    BY Zenon, <1>6, <1>7, <1>8 DEF IsFold
  <1> QED
    BY <1>8, <1>9

\* h is such a fold whichever element is taken first.
AnyOrder(h, S, V, b, F) ==
    /\ h \in [SUBSET S -> V]
    /\ h[{}] = b
    /\ \A s \in SUBSET S : \A x \in s : h[s] = F[<<x, h[s \ {x}]>>]

\* When two elements can be folded in either order, a fold that takes them by C takes
\* them in any order.
LEMMA OrderIrrelevant ==
  ASSUME NEW S, NEW V, NEW b, NEW C, NEW F, Foldable(S, V, b, C, F),
         \A x, y \in S : \A v \in V : F[<<x, F[<<y, v>>]>>] = F[<<y, F[<<x, v>>]>>],
         NEW h \in [SUBSET S -> V], IsFold(h, S, b, C, F)
  PROVE  AnyOrder(h, S, V, b, F)
  <1> DEFINE A == {s \in SUBSET S : \A x \in s : h[s] = F[<<x, h[s \ {x}]>>]}
  <1>1. ASSUME NEW s \in SUBSET S, \A x \in s : s \ {x} \in A
        PROVE  s \in A
    <2>1. ASSUME NEW x \in s  PROVE h[s] = F[<<x, h[s \ {x}]>>]
      <3> DEFINE y == C[s]
      <3>1. y \in s /\ h[s] = F[<<y, h[s \ {y}]>>]
        BY Zenon DEF Foldable, IsFold
      <3> HIDE DEF y
      <3>2. CASE x = y
        BY <3>1, <3>2
      <3>3. CASE x # y
        <4> DEFINE T == (s \ {x}) \ {y}
        <4>1. T = (s \ {y}) \ {x} /\ T \in SUBSET S
          OBVIOUS
        <4>2. h[s \ {y}] = F[<<x, h[(s \ {y}) \ {x}]>>]
          BY <1>1, <3>1, <3>3
        <4>3. h[s \ {x}] = F[<<y, h[T]>>]
          BY <1>1, <3>1, <3>3
        <4> HIDE DEF T
        <4>4. h[T] \in V /\ x \in S /\ y \in S
          BY <3>1, <4>1
        <4> QED
          BY <3>1, <4>1, <4>2, <4>3, <4>4
      <3> QED
        BY <3>2, <3>3
    <2> QED
      BY <2>1
  <1> HIDE DEF A
  <1>2. \A s \in SUBSET S : s \in A
    BY <1>1, SubsetInduction, Zenon DEF Foldable
  <1>3. h[{}] = b
    BY DEF IsFold
  <1> QED
    BY <1>2, <1>3, Zenon DEF A, AnyOrder

\* F and G are one function to a fold over R.
Agree(F, G, R, V) == \A x \in R, v \in V : F[<<x, v>>] = G[<<x, v>>]

\* A fold over a set and one over a larger set that agrees on it are the same there.
LEMMA AnyOrderUnique ==
  ASSUME NEW S, NEW R \in SUBSET S, IsFiniteSet(R), NEW V, NEW b, NEW F, NEW G,
         NEW g, NEW h,
         AnyOrder(g, R, V, b, G), AnyOrder(h, S, V, b, F),
         Agree(G, F, R, V)
  PROVE  \A s \in SUBSET R : g[s] = h[s]
  <1> DEFINE A == {s \in SUBSET R : g[s] = h[s]}
  <1>1. ASSUME NEW s \in SUBSET R, \A x \in s : s \ {x} \in A
        PROVE  s \in A
    <2>1. CASE s = {}
      BY <2>1 DEF AnyOrder
    <2>2. CASE s # {}
      <3>1. PICK x \in s : TRUE
        BY <2>2
      <3>2. g[s \ {x}] = h[s \ {x}] /\ g[s \ {x}] \in V
        BY <1>1 DEF AnyOrder
      <3>3. g[s] = G[<<x, g[s \ {x}]>>]
        BY Zenon DEF AnyOrder
      <3>4. h[s] = F[<<x, h[s \ {x}]>>]
        BY DEF AnyOrder
      <3> QED
        BY <3>2, <3>3, <3>4 DEF Agree
    <2> QED
      BY <2>1, <2>2
  <1> HIDE DEF A
  <1>2. \A s \in SUBSET R : s \in A
    BY <1>1, SubsetInduction, Zenon
  <1> QED
    BY <1>2 DEF A

-----------------------------------------------------------------------------
(* Sums modulo the order *)

\* The element the folds of the community modules take first.
Pick(s) == CHOOSE x \in s : TRUE

\* The same, as a function on the subsets of S.
Picks(S) == [s \in SUBSET S |-> Pick(s)]

\* It is an element.
LEMMA PickInSet ==
  ASSUME NEW S
  PROVE  /\ \A s \in SUBSET S : Picks(S)[s] = Pick(s)
         /\ \A s \in SUBSET S : s # {} => Pick(s) \in s
  BY DEF Pick, Picks

\* What a sum of f folds.
Adding(f, S) == [p \in S \X Int |-> f[p[1]] + p[2]]

\* h gives, for each subset of S, the sum of f over it.
IsSum(h, f, S) == AnyOrder(h, S, Int, 0, Adding(f, S))

\* SumMod is such a sum, reduced.
LEMMA SumExists ==
  ASSUME NEW S, IsFiniteSet(S), NEW f \in [S -> Int]
  PROVE  \E h : IsSum(h, f, S) /\ SumMod(f) = h[S] % Q
  <1> DEFINE C == Picks(S)
             F == Adding(f, S)
  <1>1. \A x \in S, v \in Int : F[<<x, v>>] = f[x] + v
    BY DEF Adding
  <1>2. \A x \in S, v \in Int : F[<<x, v>>] \in Int
    BY DEF Adding
  <1> HIDE DEF C, F
  <1>3. Foldable(S, Int, 0, C, F)
    <2>1. \A s \in SUBSET S : s # {} => C[s] \in s
      BY PickInSet DEF C
    <2> QED
      BY <1>2, <2>1 DEF Foldable
  <1>4. PICK h \in [SUBSET S -> Int] : IsFold(h, S, 0, C, F)
    BY <1>3, FoldExists, Zenon
  <1>5. \A x, y \in S : \A v \in Int : F[<<x, F[<<y, v>>]>>] = F[<<y, F[<<x, v>>]>>]
    <2> SUFFICES ASSUME NEW x \in S, NEW y \in S, NEW v \in Int
                 PROVE  F[<<x, F[<<y, v>>]>>] = F[<<y, F[<<x, v>>]>>]
      OBVIOUS
    <2>1. F[<<x, f[y] + v>>] = f[x] + (f[y] + v) /\ F[<<y, f[x] + v>>] = f[y] + (f[x] + v)
      BY <1>1
    <2> QED
      BY <1>1, <2>1
  <1>6. AnyOrder(h, S, Int, 0, F)
    BY <1>3, <1>4, <1>5, OrderIrrelevant, Zenon
  <1>7. ASSUME NEW s \in SUBSET S
        PROVE  h[s] = IF s = {} THEN 0 ELSE f[Pick(s)] + h[s \ {Pick(s)}]
    <2>1. h[{}] = 0 /\ (s # {} => h[s] = F[<<Pick(s), h[s \ {Pick(s)}]>>])
      BY <1>6, PickInSet, Zenon DEF AnyOrder
    <2>2. s # {} => F[<<Pick(s), h[s \ {Pick(s)}]>>] = f[Pick(s)] + h[s \ {Pick(s)}]
      BY <1>1, <1>4, PickInSet
    <2> QED
      BY <2>1, <2>2, Zenon
  <1>8. h = [s \in SUBSET S |-> IF s = {} THEN 0 ELSE f[Pick(s)] + h[s \ {Pick(s)}]]
    BY <1>4, <1>7
  <1>9. ASSUME NEW k,
               k = [s \in SUBSET S |-> IF s = {} THEN 0 ELSE f[Pick(s)] + k[s \ {Pick(s)}]]
        PROVE  k = h
    <2> DEFINE A == {s \in SUBSET S : k[s] = h[s]}
    <2>1. ASSUME NEW s \in SUBSET S, \A x \in s : s \ {x} \in A
          PROVE  s \in A
      <3>1. s # {} => Pick(s) \in s
        BY PickInSet
      <3>2. k[s] = IF s = {} THEN 0 ELSE f[Pick(s)] + k[s \ {Pick(s)}]
        BY <1>9, Zenon
      <3> QED
        BY Zenon, <1>7, <2>1, <3>1, <3>2
    <2> HIDE DEF A
    <2>2. \A s \in SUBSET S : s \in A
      BY <2>1, SubsetInduction, Zenon
    <2>3. DOMAIN k = SUBSET S /\ k = [s \in SUBSET S |-> k[s]]
      BY <1>9
    <2> QED
      BY <1>4, <2>2, <2>3, Zenon DEF A
  <1>10. MapThenSumSet(LAMBDA i : f[i], S) = h[S]
    BY <1>8, <1>9, Zenon DEF MapThenSumSet, MapThenFoldSet, Pick
  <1> QED
    BY <1>6, <1>10, Zenon DEF SumMod, IsSum, F

\* A sum is a scalar.
LEMMA SumType ==
  ASSUME NEW S, IsFiniteSet(S), NEW f \in [S -> Int]
  PROVE  SumMod(f) \in Scalars /\ SumMod(f) \in Int
  <1>1. PICK h : IsSum(h, f, S) /\ SumMod(f) = h[S] % Q
    BY SumExists
  <1>2. h[S] \in Int
    BY <1>1 DEF IsSum, AnyOrder
  <1> QED
    BY <1>1, <1>2, ModDivision

\* The sum of nothing is 0.
LEMMA SumEmpty ==
  ASSUME NEW f, DOMAIN f = {}, f \in [{} -> Int]
  PROVE  SumMod(f) = 0
  <1>1. PICK h : IsSum(h, f, {}) /\ SumMod(f) = h[{}] % Q
    BY SumExists, FS_EmptySet, Zenon
  <1>2. 0 % Q = 0
    BY OrderType
  <1> QED
    BY <1>1, <1>2 DEF IsSum, AnyOrder

\* A sum is one of its terms and the sum of the others.
LEMMA SumStep ==
  ASSUME NEW S, IsFiniteSet(S), NEW f \in [S -> Int], NEW x \in S
  PROVE  Cong(SumMod(f), f[x] + SumMod(Restrict(f, S \ {x})))
  <1> DEFINE R == S \ {x}
             g == Restrict(f, R)
  <1>1. IsFiniteSet(R) /\ g \in [R -> Int]
    BY FS_RemoveElement DEF Restrict
  <1>2. PICK h : IsSum(h, f, S) /\ SumMod(f) = h[S] % Q
    BY SumExists
  <1>3. PICK k : IsSum(k, g, R) /\ SumMod(g) = k[R] % Q
    BY <1>1, SumExists, Zenon
  <1>4. Agree(Adding(g, R), Adding(f, S), R, Int)
    BY DEF Adding, Restrict, Agree
  <1>5. k[R] = h[R]
    <2>1. AnyOrder(k, R, Int, 0, Adding(g, R)) /\ AnyOrder(h, S, Int, 0, Adding(f, S))
      BY <1>2, <1>3 DEF IsSum
    <2>2. R \in SUBSET S /\ IsFiniteSet(R)
      BY <1>1
    <2> HIDE DEF R, g
    <2>3. \A s \in SUBSET R : k[s] = h[s]
      BY <1>4, <2>1, <2>2, AnyOrderUnique
    <2> QED
      BY <2>3
  <1>6. h[S] = f[x] + h[R] /\ h[S] \in Int /\ h[R] \in Int /\ f[x] \in Int
    <2>1. h[S] = Adding(f, S)[<<x, h[R]>>] /\ h[S] \in Int /\ h[R] \in Int
      BY <1>2 DEF IsSum, AnyOrder
    <2> QED
      BY <2>1 DEF Adding
  <1> DEFINE a == h[R]
             b == h[S]
             c == f[x]
  <1>7. SumMod(f) = b % Q /\ SumMod(g) = a % Q /\ b = c + a
    BY <1>2, <1>3, <1>5, <1>6
  <1>8. a \in Int /\ b \in Int /\ c \in Int
    BY <1>6
  <1> HIDE DEF a, b, c, g
  <1>9. a % Q \in Int /\ Cong(a, a % Q) /\ Cong(b % Q, b) /\ Cong(c, c)
    BY <1>8, CongMod, ModDivision DEF Cong
  <1>10. Cong(c + a, c + (a % Q))
    BY <1>8, <1>9, CongArith
  <1>11. Cong(b % Q, c + (a % Q))
    BY <1>7, <1>9, <1>10 DEF Cong
  <1> QED
    BY <1>7, <1>11 DEF c, g

\* The sum of linear combinations is the combination of the sums.
LEMMA SumLinear ==
  ASSUME NEW S, IsFiniteSet(S), NEW f \in [S -> Int], NEW g \in [S -> Int],
         NEW e \in [S -> Int], NEW a \in Int, NEW b \in Int,
         \A i \in S : Cong(e[i], a * f[i] + b * g[i])
  PROVE  Cong(SumMod(e), a * SumMod(f) + b * SumMod(g))
  <1> DEFINE A == {s \in SUBSET S : Cong(SumMod(Restrict(e, s)), a * SumMod(Restrict(f, s)) + b * SumMod(Restrict(g, s)))}
  <1>1. \A s \in SUBSET S : /\ IsFiniteSet(s)
                            /\ Restrict(e, s) \in [s -> Int] /\ Restrict(f, s) \in [s -> Int] /\ Restrict(g, s) \in [s -> Int]
    BY FS_Subset DEF Restrict
  <1>2. ASSUME NEW s \in SUBSET S, \A x \in s : s \ {x} \in A
        PROVE  s \in A
    <2>1. CASE s = {}
      <3>1. SumMod(Restrict(e, s)) = 0 /\ SumMod(Restrict(f, s)) = 0 /\ SumMod(Restrict(g, s)) = 0
        BY <2>1, SumEmpty, Zenon DEF Restrict
      <3>2. Cong(0, a * 0 + b * 0)
        BY DEF Cong
      <3> QED
        BY <3>1, <3>2
    <2>2. CASE s # {}
      <3>1. PICK x \in s : TRUE
        BY <2>2
      <3> DEFINE t == s \ {x}
      <3>2. /\ Restrict(e, t) = Restrict(Restrict(e, s), t)
            /\ Restrict(f, t) = Restrict(Restrict(f, s), t)
            /\ Restrict(g, t) = Restrict(Restrict(g, s), t)
        BY DEF Restrict
      <3>3. /\ Cong(SumMod(Restrict(e, s)), e[x] + SumMod(Restrict(e, t)))
            /\ Cong(SumMod(Restrict(f, s)), f[x] + SumMod(Restrict(f, t)))
            /\ Cong(SumMod(Restrict(g, s)), g[x] + SumMod(Restrict(g, t)))
        <4>1. /\ Restrict(e, s)[x] = e[x]
              /\ Restrict(f, s)[x] = f[x]
              /\ Restrict(g, s)[x] = g[x]
          BY DEF Restrict
        <4> QED
          BY <1>1, <3>2, <4>1, SumStep
      <3> DEFINE E1 == SumMod(Restrict(e, s))
                 E0 == SumMod(Restrict(e, t))
                 F1 == SumMod(Restrict(f, s))
                 F0 == SumMod(Restrict(f, t))
                 G1 == SumMod(Restrict(g, s))
                 G0 == SumMod(Restrict(g, t))
                 ex == e[x]
                 fx == f[x]
                 gx == g[x]
      <3>4. /\ E1 \in Int /\ E0 \in Int /\ F1 \in Int /\ F0 \in Int /\ G1 \in Int /\ G0 \in Int
            /\ ex \in Int /\ fx \in Int /\ gx \in Int
        BY <1>1, SumType
      <3>5. Cong(E0, a * F0 + b * G0) /\ Cong(ex, a * fx + b * gx)
        BY <1>2
      <3>6. Cong(E1, ex + E0) /\ Cong(F1, fx + F0) /\ Cong(G1, gx + G0)
        BY <3>3
      <3> HIDE DEF E1, E0, F1, F0, G1, G0, ex, fx, gx, A
      <3>7. Cong(E1, a * F1 + b * G1)
        <4>1. Cong(ex + E0, (a * fx + b * gx) + (a * F0 + b * G0))
          BY <3>4, <3>5, CongArith
        <4>2. (a * fx + b * gx) + (a * F0 + b * G0) = a * (fx + F0) + b * (gx + G0)
          BY <3>4
        <4>3. fx + F0 \in Int /\ gx + G0 \in Int /\ a * F1 \in Int /\ b * G1 \in Int
              /\ a * (fx + F0) \in Int /\ b * (gx + G0) \in Int
          BY <3>4
        <4>4. Cong(a * F1, a * (fx + F0)) /\ Cong(b * G1, b * (gx + G0))
          <5>1. Cong(a, a) /\ Cong(b, b)
            BY DEF Cong
          <5> QED
            BY <3>4, <3>6, <4>3, <5>1, CongArith
        <4>5. Cong(a * F1 + b * G1, a * (fx + F0) + b * (gx + G0))
          BY <4>3, <4>4, CongArith
        <4> QED
          BY <3>6, <4>1, <4>2, <4>5 DEF Cong
      <3> QED
        BY <3>7 DEF E1, F1, G1, A
    <2> QED
      BY <2>1, <2>2
  <1>3. S \in A
    <2> HIDE DEF A
    <2> QED
      BY <1>2, SubsetInduction, S \in SUBSET S, Zenon
  <1>4. Restrict(e, S) = e /\ Restrict(f, S) = f /\ Restrict(g, S) = g
    BY DEF Restrict
  <1> QED
    BY <1>3, <1>4

\* Congruent terms have one sum.
LEMMA SumSame ==
  ASSUME NEW S, IsFiniteSet(S), NEW f \in [S -> Int], NEW g \in [S -> Int],
         \A i \in S : Cong(f[i], g[i])
  PROVE  SumMod(f) = SumMod(g)
  <1> DEFINE one == 1
             zero == 0
  <1>1. \A i \in S : Cong(f[i], one * g[i] + zero * g[i])
    <2>1. \A i \in S : g[i] \in Int
      OBVIOUS
    <2>2. \A i \in S : one * g[i] + zero * g[i] = g[i]
      BY <2>1
    <2> QED
      BY <2>2
  <1>2. SumMod(f) \in Scalars /\ SumMod(g) \in Scalars /\ SumMod(g) \in Int
    BY SumType
  <1>3. one * SumMod(g) + zero * SumMod(g) = SumMod(g) /\ one \in Int /\ zero \in Int
    BY <1>2
  <1> HIDE DEF one, zero
  <1>4. Cong(SumMod(f), one * SumMod(g) + zero * SumMod(g))
    BY <1>1, <1>3, SumLinear, Zenon
  <1> QED
    BY <1>2, <1>3, <1>4, ScalarMod DEF Cong

\* A term congruent to 0 can be left out.
LEMMA SumDrop ==
  ASSUME NEW S, IsFiniteSet(S), NEW f \in [S -> Int], NEW x \in S, Cong(f[x], 0)
  PROVE  SumMod(f) = SumMod(Restrict(f, S \ {x}))
  <1> DEFINE g == Restrict(f, S \ {x})
  <1>1. IsFiniteSet(S \ {x}) /\ g \in [S \ {x} -> Int]
    BY FS_RemoveElement DEF Restrict
  <1>2. Cong(SumMod(f), f[x] + SumMod(g))
    BY SumStep
  <1>3. SumMod(f) \in Scalars /\ SumMod(g) \in Scalars /\ SumMod(g) \in Int
    BY <1>1, SumType
  <1>4. Cong(f[x] + SumMod(g), 0 + SumMod(g))
    <2>1. Cong(SumMod(g), SumMod(g)) /\ f[x] \in Int
      BY DEF Cong
    <2> HIDE DEF g
    <2> QED
      BY <1>3, <2>1, CongArith
  <1>5. 0 + SumMod(g) = SumMod(g)
    BY <1>3
  <1> HIDE DEF g
  <1> QED
    BY <1>2, <1>3, <1>4, <1>5, ScalarMod DEF Cong, g

\* A sum of one term.
LEMMA SumOne ==
  ASSUME NEW x, NEW f \in [{x} -> Int]
  PROVE  Cong(SumMod(f), f[x])
  <1> DEFINE g == Restrict(f, {x} \ {x})
  <1>1. Cong(SumMod(f), f[x] + SumMod(g))
    BY SumStep, FS_Singleton
  <1>2. SumMod(g) = 0
    BY SumEmpty DEF Restrict
  <1>3. f[x] + 0 = f[x]
    OBVIOUS
  <1> QED
    BY <1>1, <1>2, <1>3

-----------------------------------------------------------------------------
(* The order is a prime number: inverses *)

\* A prime order divides no product of numbers it does not divide.
LEMMA NoZeroDivisors ==
  ASSUME NEW a \in Int, NEW b \in Int, ~Cong(a, 0), ~Cong(b, 0)
  PROVE  ~Cong(a * b, 0)
  <1> DEFINE r == a % Q
             s == b % Q
  <1>1. r \in Scalars /\ s \in Scalars /\ r \in Int /\ s \in Int /\ Cong(r, a) /\ Cong(s, b)
    BY ModDivision, CongMod
  <1>2. Mod(0) = 0
    BY OrderType DEF Mod
  <1>3. r # 0 /\ s # 0
    BY <1>2 DEF Cong, Mod
  <1> HIDE DEF r, s
  <1>4. r \in 1 .. Q - 1 /\ s \in 1 .. Q - 1
    BY <1>1, <1>3, OrderType DEF Scalars
  <1>5. (r * s) % Q # 0
    BY <1>4, OrderAssumption
  <1>6. Cong(r * s, a * b)
    BY <1>1, CongArith
  <1> QED
    BY <1>2, <1>5, <1>6 DEF Cong, Mod

\* A common factor that the order does not divide can be cancelled.
LEMMA Cancel ==
  ASSUME NEW a \in Int, NEW b \in Int, NEW c \in Int, ~Cong(a, 0), Cong(a * b, a * c)
  PROVE  Cong(b, c)
  <1>1. a * b \in Int /\ a * c \in Int /\ b - c \in Int
    OBVIOUS
  <1>2. PICK t \in Int : a * b = a * c + Q * t
    BY <1>1, CongByMultiple
  <1>3. a * (b - c) = 0 + Q * t /\ a * (b - c) \in Int
    BY <1>2, OrderType
  <1>4. Cong(a * (b - c), 0)
    BY <1>3, CongByMultiple
  <1>5. Cong(b - c, 0)
    BY <1>1, <1>4, NoZeroDivisors
  <1>6. PICK u \in Int : b - c = 0 + Q * u
    BY <1>1, <1>5, CongByMultiple
  <1>7. b = c + Q * u
    BY <1>6, OrderType
  <1> QED
    BY <1>7, CongByMultiple

\* inv_mod inverts every scalar but 0.
LEMMA ModInverse ==
  ASSUME NEW a \in Int, ~Cong(a, 0)
  PROVE  /\ inv_mod(a, Q) \in Scalars
         /\ inv_mod(a, Q) \in Int
         /\ Cong(a * inv_mod(a, Q), 1)
  <1> DEFINE f == [b \in Scalars |-> (a * b) % Q]
  <1>1. \A b \in Scalars : b \in Int /\ a * b \in Int /\ (a * b) % Q \in Scalars
    BY ScalarMod, ModDivision
  <1>2. f \in Injection(Scalars, Scalars)
    <2>1. f \in [Scalars -> Scalars]
      BY <1>1
    <2>2. ASSUME NEW b \in Scalars, NEW c \in Scalars, f[b] = f[c]
          PROVE  b = c
      <3>1. Cong(a * b, a * c)
        BY <2>2 DEF Cong, Mod
      <3>2. Cong(b, c)
        BY <1>1, <3>1, Cancel
      <3> QED
        BY <3>2, ScalarMod DEF Cong
    <2> QED
      BY <2>1, <2>2 DEF Injection, IsInjective
  <1>3. IsFiniteSet(Scalars)
    BY FS_Interval, OrderType DEF Scalars
  <1>4. f \in Surjection(Scalars, Scalars)
    BY <1>2, <1>3, FS_Injection
  <1>5. 1 \in Scalars /\ 1 % Q = 1
    BY OrderType DEF Scalars
  <1>6. \E b \in Scalars : f[b] = 1
    BY <1>4, <1>5, Zenon DEF Surjection
  <1>7. \E b \in 0 .. Q - 1 : (a * b) % Q = 1 % Q
    BY <1>5, <1>6 DEF Scalars
  <1>8. inv_mod(a, Q) \in 0 .. Q - 1 /\ (a * inv_mod(a, Q)) % Q = 1 % Q
    BY <1>7 DEF inv_mod
  <1> QED
    BY <1>8, ScalarMod DEF Scalars, Cong, Mod

\* The indices of two nodes differ modulo the order.
LEMMA IndicesDistinct ==
  ASSUME NEW i \in 0 .. Q - 1, NEW j \in 0 .. Q - 1, i # j
  PROVE  ~Cong(j - i, 0)
  <1>1. i \in Scalars /\ j \in Scalars /\ i \in Int /\ j \in Int /\ j - i \in Int
    BY OrderType DEF Scalars
  <1>2. SUFFICES ASSUME NEW t \in Int, j - i = 0 + Q * t PROVE FALSE
    BY <1>1, CongByMultiple
  <1>3. j = i + Q * t
    BY <1>1, <1>2, OrderType
  <1> QED
    BY <1>1, <1>3, RemainderUnique

-----------------------------------------------------------------------------
(* Lagrange coefficients *)

\* The indices a share can have: the scalars but 0.
Indices == 1 .. Q - 1

\* j - i, as lagrange_coeff reduces it.
Diff(j, i) == IF i > j THEN Q - (i - j) ELSE j - i

\* The factors of the Lagrange coefficient of i.
Weights(S, i) == [j \in S |-> inv_mod(Diff(j, i), Q) * j]

\* Sets of indices are finite.
LEMMA IndexSets ==
  ASSUME NEW S \in SUBSET Indices
  PROVE  IsFiniteSet(S) /\ \A i \in S : i \in Int
  <1>1. IsFiniteSet(Indices)
    BY FS_Interval, OrderType DEF Indices
  <1>2. \A i \in Indices : i \in Int
    BY OrderType DEF Indices
  <1> QED
    BY <1>1, <1>2, FS_Subset

\* The factor for j is j / (j - i).
LEMMA WeightDivides ==
  ASSUME NEW i \in Indices, NEW j \in Indices, i # j
  PROVE  /\ inv_mod(Diff(j, i), Q) \in Int
         /\ Cong((j - i) * inv_mod(Diff(j, i), Q), 1)
  <1> DEFINE d == Diff(j, i)
             e == j - i
             v == inv_mod(d, Q)
  <1>1. d \in Int /\ e \in Int
    BY OrderType DEF Indices, Diff
  <1>2. Cong(e, d)
    <2>1. e = d + Q * 0 \/ e = d + Q * (-1)
      BY OrderType DEF Indices, Diff
    <2> HIDE DEF d, e
    <2> QED
      BY <1>1, <2>1, CongByMultiple
  <1>3. ~Cong(e, 0)
    BY IndicesDistinct, OrderType DEF Indices
  <1> HIDE DEF d, e
  <1>4. v \in Int /\ Cong(d * v, 1)
    BY <1>1, <1>2, <1>3, ModInverse DEF Cong
  <1> HIDE DEF v
  <1>5. Cong(e * v, d * v)
    <2>1. Cong(v, v)
      BY Zenon DEF Cong
    <2> QED
      BY Zenon, <1>1, <1>2, <1>4, <2>1, CongArith
  <1>6. Cong(e * v, 1)
    BY <1>4, <1>5 DEF Cong
  <1> QED
    BY <1>4, <1>6 DEF v, d, e

\* What a product of w folds.
Multiplying(w, S) == [p \in S \X Scalars |-> (p[2] * w[p[1]]) % Q]

\* h gives, for each subset of S, the product of w over it.
IsProduct(h, w, S) == AnyOrder(h, S, Scalars, 1, Multiplying(w, S))

\* There is such a product.
LEMMA ProductExists ==
  ASSUME NEW S, IsFiniteSet(S), NEW w \in [S -> Int]
  PROVE  \E h : IsProduct(h, w, S)
  <1> DEFINE C == Picks(S)
             F == Multiplying(w, S)
  <1>1. \A x \in S, v \in Scalars : F[<<x, v>>] = (v * w[x]) % Q
    BY DEF Multiplying
  <1>2. \A x \in S, v \in Scalars : F[<<x, v>>] \in Scalars
    <2> SUFFICES ASSUME NEW x \in S, NEW v \in Scalars
                 PROVE  F[<<x, v>>] \in Scalars
      BY Zenon
    <2>1. v * w[x] \in Int
      BY ScalarMod
    <2> QED
      BY <1>1, <2>1, ModDivision
  <1> HIDE DEF C, F
  <1>3. Foldable(S, Scalars, 1, C, F)
    <2>1. \A s \in SUBSET S : s # {} => C[s] \in s
      BY PickInSet DEF C
    <2>2. 1 \in Scalars
      BY OrderType DEF Scalars
    <2> QED
      BY <1>2, <2>1, <2>2 DEF Foldable
  <1>4. PICK h \in [SUBSET S -> Scalars] : IsFold(h, S, 1, C, F)
    BY <1>3, FoldExists, Zenon
  <1>5. \A x, y \in S : \A v \in Scalars :
           F[<<x, F[<<y, v>>]>>] = F[<<y, F[<<x, v>>]>>]
    <2> SUFFICES ASSUME NEW x \in S, NEW y \in S, NEW v \in Scalars
                 PROVE  F[<<x, F[<<y, v>>]>>] = F[<<y, F[<<x, v>>]>>]
      OBVIOUS
    <2> DEFINE a == w[x]
               b == w[y]
               p == (v * b) % Q
               q == (v * a) % Q
    <2>1. a \in Int /\ b \in Int /\ v \in Int /\ v * a \in Int /\ v * b \in Int
      BY ScalarMod
    <2>2. F[<<y, v>>] = p /\ F[<<x, v>>] = q
      BY <1>1
    <2>3. /\ p \in Scalars /\ q \in Scalars /\ p \in Int /\ q \in Int
          /\ Cong(p, v * b) /\ Cong(q, v * a)
      BY <2>1, CongMod, ModDivision
    <2>4. F[<<x, p>>] = Mod(p * a) /\ F[<<y, q>>] = Mod(q * b)
      BY <1>1, <2>3 DEF Mod
    <2> HIDE DEF a, b, p, q
    <2>5. Cong(p * a, (v * b) * a) /\ Cong(q * b, (v * a) * b)
      <3>1. Cong(a, a) /\ Cong(b, b)
        BY DEF Cong
      <3> QED
        BY <2>1, <2>3, <3>1, CongArith
    <2>6. (v * b) * a = (v * a) * b
      BY <2>1
    <2> QED
      BY <2>2, <2>4, <2>5, <2>6 DEF Cong
  <1>6. AnyOrder(h, S, Scalars, 1, F)
    BY <1>3, <1>4, <1>5, OrderIrrelevant, Zenon
  <1> QED
    BY <1>6 DEF IsProduct, F

\* The factors are numbers.
LEMMA WeightsType ==
  ASSUME NEW S \in SUBSET Indices, NEW i \in Indices, i \notin S
  PROVE  Weights(S, i) \in [S -> Int]
  <1>1. \A j \in S : inv_mod(Diff(j, i), Q) \in Int /\ j \in Int
    BY WeightDivides, IndexSets, Zenon
  <1> QED
    BY <1>1 DEF Weights

\* lagrange_coeff is the product of its factors.
LEMMA LagrangeExists ==
  ASSUME NEW S \in SUBSET Indices, NEW i \in S
  PROVE  \E h : /\ IsProduct(h, Weights(S \ {i}, i), S \ {i})
                /\ lagrange_coeff(S, i) = h[S \ {i}]
  <1> DEFINE R == S \ {i}
             w == Weights(R, i)
             inv(j) == inv_mod(Diff(j, i), Q)
  <1>0. R \in SUBSET Indices /\ i \in Indices /\ i \notin R
    OBVIOUS
  <1>1. IsFiniteSet(R) /\ \A j \in R : j \in Int /\ inv(j) \in Int /\ w[j] = inv(j) * j
    BY <1>0, IndexSets, WeightDivides DEF Weights
  <1>2. PICK h : IsProduct(h, w, R)
    BY <1>0, <1>1, WeightsType, ProductExists
  <1> HIDE DEF R, w, inv
  <1>3. h \in [SUBSET R -> Scalars]
    BY <1>2 DEF IsProduct, AnyOrder
  <1>4. ASSUME NEW s \in SUBSET R
        PROVE  h[s] = IF s = {} THEN 1
                      ELSE (h[s \ {Pick(s)}] * inv(Pick(s)) * Pick(s)) % Q
    <2>1. h[{}] = 1 /\ (s # {} => h[s] = Multiplying(w, R)[<<Pick(s), h[s \ {Pick(s)}]>>])
      BY Zenon, <1>2, PickInSet DEF IsProduct, AnyOrder
    <2>2. ASSUME s # {}
          PROVE  Multiplying(w, R)[<<Pick(s), h[s \ {Pick(s)}]>>]
                   = (h[s \ {Pick(s)}] * inv(Pick(s)) * Pick(s)) % Q
      <3> DEFINE x == Pick(s)
                 v == h[s \ {x}]
      <3>1. x \in R /\ v \in Scalars /\ v \in Int
        BY <1>3, <2>2, PickInSet, ScalarMod
      <3> HIDE DEF x, v
      <3>2. Multiplying(w, R)[<<x, v>>] = (v * w[x]) % Q
        BY <3>1 DEF Multiplying
      <3>3. v * w[x] = v * inv(x) * x
        BY <1>1, <3>1
      <3> QED
        BY <3>2, <3>3 DEF x, v
    <2> QED
      BY <2>1, <2>2, Zenon
  <1>5. h = [s \in SUBSET R |-> IF s = {} THEN 1
                                ELSE (h[s \ {Pick(s)}] * inv(Pick(s)) * Pick(s)) % Q]
    BY <1>3, <1>4, Zenon
  <1>6. ASSUME NEW k,
               k = [s \in SUBSET R |-> IF s = {} THEN 1
                                       ELSE (k[s \ {Pick(s)}] * inv(Pick(s)) * Pick(s)) % Q]
        PROVE  k = h
    <2> DEFINE A == {s \in SUBSET R : k[s] = h[s]}
    <2>1. ASSUME NEW s \in SUBSET R, \A x \in s : s \ {x} \in A
          PROVE  s \in A
      <3>1. s # {} => Pick(s) \in s
        BY PickInSet, Zenon
      <3>2. k[s] = IF s = {} THEN 1
                   ELSE (k[s \ {Pick(s)}] * inv(Pick(s)) * Pick(s)) % Q
        BY <1>6, Zenon
      <3> QED
        BY <1>4, <2>1, <3>1, <3>2
    <2> HIDE DEF A
    <2>2. \A s \in SUBSET R : s \in A
      BY <1>1, <2>1, SubsetInduction, Zenon
    <2>3. DOMAIN k = SUBSET R /\ k = [s \in SUBSET R |-> k[s]]
      BY <1>6
    <2> QED
      BY <1>3, <2>2, <2>3, Zenon DEF A
  <1>7. lagrange_coeff(S, i) = h[R]
    <2> DEFINE Solves(k) ==
                  k = [s \in SUBSET R |-> IF s = {} THEN 1
                          ELSE (k[s \ {Pick(s)}] * inv(Pick(s)) * Pick(s)) % Q]
    <2>1. lagrange_coeff(S, i) = (CHOOSE k : Solves(k))[R]
      BY DEF lagrange_coeff, FoldSet, MapThenFoldSet, Pick, inv, Diff, R
    <2>2. Solves(h) /\ \A k : Solves(k) => k = h
      BY <1>5, <1>6, Zenon
    <2> HIDE DEF Solves
    <2> QED
      BY <2>1, <2>2
  <1> QED
    BY <1>2, <1>7 DEF w, R

\* A Lagrange coefficient is a scalar.
LEMMA LagrangeType ==
  ASSUME NEW S \in SUBSET Indices, NEW i \in S
  PROVE  lagrange_coeff(S, i) \in Scalars /\ lagrange_coeff(S, i) \in Int
  <1>1. PICK h : /\ IsProduct(h, Weights(S \ {i}, i), S \ {i})
                 /\ lagrange_coeff(S, i) = h[S \ {i}]
    BY LagrangeExists
  <1> QED
    BY <1>1, ScalarMod DEF IsProduct, AnyOrder

\* The coefficient of a node alone is 1.
LEMMA LagrangeOne ==
  ASSUME NEW i \in Indices
  PROVE  lagrange_coeff({i}, i) = 1
  <1>1. PICK h : /\ IsProduct(h, Weights({i} \ {i}, i), {i} \ {i})
                 /\ lagrange_coeff({i}, i) = h[{i} \ {i}]
    BY LagrangeExists
  <1>2. {i} \ {i} = {}
    OBVIOUS
  <1> QED
    BY <1>1, <1>2, Zenon DEF IsProduct, AnyOrder

\* Adding the index x multiplies the coefficient of i by x / (x - i).
LEMMA LagrangeStep ==
  ASSUME NEW S \in SUBSET Indices, NEW i \in S, NEW x \in S, x # i
  PROVE  Cong((x - i) * lagrange_coeff(S, i), x * lagrange_coeff(S \ {x}, i))
  <1> DEFINE R == S \ {i}
             T == (S \ {x}) \ {i}
  <1>0. /\ R \in SUBSET Indices /\ T \in SUBSET R /\ T \in SUBSET Indices /\ T = R \ {x}
        /\ i \in Indices /\ i \notin R /\ x \in R /\ S \ {x} \in SUBSET Indices
    OBVIOUS
  <1>1. PICK h : IsProduct(h, Weights(R, i), R) /\ lagrange_coeff(S, i) = h[R]
    BY LagrangeExists
  <1>2. PICK g : IsProduct(g, Weights(T, i), T) /\ lagrange_coeff(S \ {x}, i) = g[T]
    BY LagrangeExists
  <1> HIDE DEF R, T
  <1>3. g[T] = h[T]
    <2>1. Agree(Multiplying(Weights(T, i), T), Multiplying(Weights(R, i), R), T, Scalars)
      BY <1>0 DEF Agree, Multiplying, Weights
    <2>2. /\ AnyOrder(g, T, Scalars, 1, Multiplying(Weights(T, i), T))
          /\ AnyOrder(h, R, Scalars, 1, Multiplying(Weights(R, i), R))
      BY <1>1, <1>2 DEF IsProduct
    <2>3. T \in SUBSET R /\ IsFiniteSet(T)
      BY <1>0, IndexSets
    <2>4. \A s \in SUBSET T : g[s] = h[s]
      BY <2>1, <2>2, <2>3, AnyOrderUnique
    <2> QED
      BY <2>4
  <1> DEFINE v == inv_mod(Diff(x, i), Q)
             a == h[R]
             b == h[T]
             d == x - i
  <1>4. h[R] = Multiplying(Weights(R, i), R)[<<x, h[T]>>] /\ a \in Scalars /\ b \in Scalars
    BY <1>0, <1>1 DEF IsProduct, AnyOrder
  <1>5. a = (b * (v * x)) % Q
    BY <1>0, <1>4 DEF Multiplying, Weights
  <1>6. a \in Int /\ b \in Int /\ v \in Int /\ d \in Int /\ x \in Int /\ Cong(d * v, 1)
    BY <1>0, <1>4, ScalarMod, WeightDivides, IndexSets
  <1> HIDE DEF v, a, b, d
  <1>7. Cong(d * a, x * b)
    <2>1. b * (v * x) \in Int /\ d * v \in Int /\ x * b \in Int
      BY <1>6
    <2>2. Cong(a, b * (v * x)) /\ Cong(d, d) /\ Cong(x * b, x * b)
      BY <1>5, <2>1, CongMod DEF Cong
    <2>3. Cong(d * a, d * (b * (v * x)))
      BY <1>6, <2>1, <2>2, CongArith
    <2>4. Cong((d * v) * (x * b), 1 * (x * b))
      BY <1>6, <2>1, <2>2, CongArith
    <2>5. d * (b * (v * x)) = (d * v) * (x * b)
      <3>1. d * (b * (v * x)) = d * (v * (x * b))
        BY <1>6
      <3> QED
        BY <1>6, <2>1, <3>1
    <2>6. 1 * (x * b) = x * b
      BY <2>1
    <2> QED
      BY <2>3, <2>4, <2>5, <2>6 DEF Cong
  <1> QED
    BY <1>1, <1>2, <1>3, <1>7 DEF a, b, d

\* The coefficients of S, 0 outside it.
Lambda(S, R) == [i \in S |-> IF i \in R THEN lagrange_coeff(R, i) ELSE 0]

\* They are numbers.
LEMMA LambdaType ==
  ASSUME NEW S \in SUBSET Indices, NEW R \in SUBSET S
  PROVE  Lambda(S, R) \in [S -> Int]
  BY LagrangeType DEF Lambda

\* The coefficients of S from those of S without t and S without s.
LEMMA LambdaSplit ==
  ASSUME NEW S \in SUBSET Indices, NEW s \in S, NEW t \in S, s # t, NEW i \in S
  PROVE  Cong((t - s) * Lambda(S, S)[i],
              t * Lambda(S, S \ {t})[i] + (-s) * Lambda(S, S \ {s})[i])
  <1> DEFINE a == Lambda(S, S)[i]
             b == Lambda(S, S \ {t})[i]
             c == Lambda(S, S \ {s})[i]
  <1>1. /\ a \in Int /\ b \in Int /\ c \in Int /\ i \in Int /\ s \in Int /\ t \in Int
    <2>1. /\ Lambda(S, S) \in [S -> Int]
          /\ Lambda(S, S \ {t}) \in [S -> Int] /\ Lambda(S, S \ {s}) \in [S -> Int]
      <3>1. S \in SUBSET S /\ S \ {t} \in SUBSET S /\ S \ {s} \in SUBSET S
        OBVIOUS
      <3> QED
        BY Zenon, <3>1, LambdaType
    <2>2. i \in Int /\ s \in Int /\ t \in Int
      BY Zenon, IndexSets
    <2> QED
      BY Zenon, <2>1, <2>2
  <1>2. Cong((t - i) * a, t * b)
    <2>1. CASE i = t
      <3>1. (t - i) * a = 0 /\ b = 0
        BY <1>1, <2>1 DEF Lambda
      <3>2. (t - i) * a = t * b
        BY <1>1, <3>1
      <3> QED
        BY <3>2 DEF Cong
    <2>2. CASE i # t
      BY <2>2, LagrangeStep DEF Lambda
    <2> QED
      BY <2>1, <2>2
  <1>3. Cong((s - i) * a, s * c)
    <2>1. CASE i = s
      <3>1. (s - i) * a = 0 /\ c = 0
        BY <1>1, <2>1 DEF Lambda
      <3>2. (s - i) * a = s * c
        BY <1>1, <3>1
      <3> QED
        BY <3>2 DEF Cong
    <2>2. CASE i # s
      BY Zenon, <2>2, LagrangeStep DEF Lambda
    <2> QED
      BY <2>1, <2>2
  <1> HIDE DEF a, b, c
  <1>4. (t - i) * a \in Int /\ (s - i) * a \in Int /\ t * b \in Int /\ s * c \in Int
    BY <1>1
  <1>5. Cong((t - i) * a - (s - i) * a, t * b - s * c)
    BY <1>2, <1>3, <1>4, CongArith
  <1>6. (t - i) * a - (s - i) * a = (t - s) * a
    BY <1>1
  <1>7. t * b - s * c = t * b + (-s) * c
    BY <1>1
  <1> QED
    BY <1>5, <1>6, <1>7 DEF a, b, c

\* The coefficients that are 0 add nothing.
LEMMA LambdaSum ==
  ASSUME NEW S \in SUBSET Indices, NEW t \in S
  PROVE  SumMod(Lambda(S, S \ {t})) = SumMod(Lambda(S \ {t}, S \ {t}))
  <1> DEFINE f == Lambda(S, S \ {t})
  <1>1. f \in [S -> Int] /\ IsFiniteSet(S) /\ f[t] = 0
    BY LambdaType, IndexSets DEF Lambda
  <1>2. Cong(f[t], 0)
    BY <1>1 DEF Cong
  <1>3. Restrict(f, S \ {t}) = Lambda(S \ {t}, S \ {t})
    BY DEF Restrict, Lambda
  <1> HIDE DEF f
  <1>4. SumMod(f) = SumMod(Restrict(f, S \ {t}))
    BY <1>1, <1>2, SumDrop
  <1> QED
    BY <1>3, <1>4 DEF f

\* The Lagrange coefficients of every set of indices add up to 1: a constant
\* polynomial is interpolated to its value.
LEMMA CoefficientsSumToOne ==
  ASSUME NEW S \in SUBSET Indices, S # {}
  PROVE  SumMod(Lambda(S, S)) = 1
  <1> DEFINE A == {R \in SUBSET S : R # {} => SumMod(Lambda(R, R)) = 1}
  <1>1. ASSUME NEW R \in SUBSET S, \A x \in R : R \ {x} \in A, R # {}
        PROVE  SumMod(Lambda(R, R)) = 1
    <2>0. R \in SUBSET Indices /\ IsFiniteSet(R) /\ Lambda(R, R) \in [R -> Int]
      BY IndexSets, LambdaType
    <2>1. CASE \E x : R = {x}
      <3>1. PICK x : R = {x}
        BY <2>1
      <3>2. Lambda({x}, {x}) \in [{x} -> Int] /\ Lambda({x}, {x})[x] = 1
        BY <2>0, <3>1, LagrangeOne DEF Lambda
      <3>3. Cong(SumMod(Lambda({x}, {x})), 1)
        BY <3>2, SumOne
      <3>4. SumMod(Lambda({x}, {x})) \in Scalars /\ 1 \in Scalars
        BY <2>0, <3>1, SumType, OrderType DEF Scalars
      <3> QED
        BY <3>1, <3>3, <3>4, ScalarMod DEF Cong
    <2>2. CASE ~\E x : R = {x}
      <3>1. PICK s \in R, t \in R : s # t
        BY <1>1, <2>2
      <3> DEFINE f == Lambda(R, R \ {t})
                 g == Lambda(R, R \ {s})
                 e == [i \in R |-> (t - s) * Lambda(R, R)[i]]
                 L == SumMod(Lambda(R, R))
      <3>2. f \in [R -> Int] /\ g \in [R -> Int] /\ s \in Int /\ t \in Int
        BY Zenon, <2>0, LambdaType, IndexSets
      <3>3. e \in [R -> Int]
        BY <2>0, <3>2
      <3>4. SumMod(f) = 1 /\ SumMod(g) = 1
        <4>1. SumMod(f) = SumMod(Lambda(R \ {t}, R \ {t})) /\ SumMod(g) = SumMod(Lambda(R \ {s}, R \ {s}))
          BY <2>0, LambdaSum
        <4>2. R \ {t} # {} /\ R \ {s} # {}
          BY <3>1
        <4> QED
          BY <1>1, <4>1, <4>2
      <3>5. Cong(SumMod(e), t * SumMod(f) + (-s) * SumMod(g))
        <4>1. \A i \in R : Cong(e[i], t * f[i] + (-s) * g[i])
          BY <2>0, <3>1, LambdaSplit
        <4>2. -s \in Int
          BY <3>2
        <4> HIDE DEF e, f, g
        <4> QED
          BY <2>0, <3>2, <3>3, <4>1, <4>2, SumLinear, Zenon
      <3>6. Cong(SumMod(e), (t - s) * L + 0 * L)
        <4> DEFINE d == t - s
                   z == 0
                   l == Lambda(R, R)
        <4>1. \A i \in R : e[i] = d * l[i] + z * l[i] /\ l[i] \in Int
          BY <2>0, <3>2
        <4>2. d \in Int /\ z \in Int
          BY <3>2
        <4>3. \A i \in R : Cong(e[i], d * l[i] + z * l[i])
          BY <4>1 DEF Cong
        <4>4. l \in [R -> Int]
          BY <2>0
        <4> HIDE DEF e, d, z, l
        <4>5. Cong(SumMod(e), d * SumMod(l) + z * SumMod(l))
          BY <2>0, <3>3, <4>2, <4>3, <4>4, SumLinear, Zenon
        <4> QED
          BY <4>5 DEF d, z, l
      <3>7. L \in Scalars /\ L \in Int /\ 1 \in Scalars /\ 1 \in Int
        BY <2>0, SumType, OrderType DEF Scalars
      <3>8. ~Cong(t - s, 0)
        <4>1. s \in 0 .. Q - 1 /\ t \in 0 .. Q - 1
          BY <2>0, OrderType DEF Indices
        <4> QED
          BY <3>1, <4>1, IndicesDistinct
      <3> HIDE DEF e, f, g, L
      <3>9. (t - s) * L + 0 * L = (t - s) * L /\ t * 1 + (-s) * 1 = (t - s) * 1
        BY <3>2, <3>7
      <3>10. Cong((t - s) * L, (t - s) * 1)
        BY <3>4, <3>5, <3>6, <3>9 DEF Cong
      <3>11. Cong(L, 1)
        BY <3>2, <3>7, <3>8, <3>10, Cancel
      <3> QED
        BY <3>7, <3>11, ScalarMod DEF Cong, L
    <2> QED
      BY <2>1, <2>2, Zenon
  <1>2. \A R \in SUBSET S : (\A x \in R : R \ {x} \in A) => R \in A
    BY <1>1
  <1> HIDE DEF A
  <1>3. S \in A
    BY <1>2, IndexSets, SubsetInduction, S \in SUBSET S, Zenon
  <1> QED
    BY <1>3 DEF A

-----------------------------------------------------------------------------
(* Polynomials, by the scheme of Horner *)

\* A finite set of numbers that is not empty has a maximum, and Max takes it.
LEMMA MaxExists ==
  ASSUME NEW n \in Nat, NEW s \in SUBSET (1 .. n), s # {}
  PROVE  Max(s) \in s /\ \A y \in s : Max(s) >= y
  <1> DEFINE A == {t \in SUBSET (1 .. n) : t # {} => \E x \in t : \A y \in t : x >= y}
  <1>1. ASSUME NEW t \in SUBSET (1 .. n), \A x \in t : t \ {x} \in A, t # {}
        PROVE  \E x \in t : \A y \in t : x >= y
    <2>1. PICK z \in t : TRUE
      BY <1>1, Zenon
    <2>2. CASE t \ {z} = {}
      <3>1. \A y \in t : z >= y
        BY <2>2
      <3> QED
        BY <3>1
    <2>3. CASE t \ {z} # {}
      <3>1. PICK x \in t \ {z} : \A y \in t \ {z} : x >= y
        BY <1>1, <2>1, <2>3
      <3>2. x \in Int /\ z \in Int /\ \A y \in t : y \in Int
        BY <3>1
      <3>3. CASE x >= z
        BY <3>1, <3>3
      <3>4. CASE x < z
        <4>1. \A y \in t : z >= y
          BY <3>1, <3>2, <3>4
        <4> QED
          BY <4>1
      <3> QED
        BY <3>2, <3>3, <3>4
    <2> QED
      BY <2>2, <2>3
  <1>2. \A t \in SUBSET (1 .. n) : (\A x \in t : t \ {x} \in A) => t \in A
    BY <1>1, Zenon
  <1> HIDE DEF A
  <1>3. IsFiniteSet(1 .. n)
    BY FS_Interval
  <1>4. s \in A
    BY <1>2, <1>3, SubsetInduction, Zenon
  <1> QED
    BY <1>4, Zenon DEF A, Max

\* The maximum of an interval is its upper bound.
LEMMA MaxInterval ==
  ASSUME NEW n \in Nat, n >= 1
  PROVE  Max(1 .. n) = n /\ (1 .. n) \ {n} = 1 .. n - 1
  <1>1. Max(1 .. n) \in 1 .. n /\ \A y \in 1 .. n : Max(1 .. n) >= y
    <2>1. 1 .. n # {} /\ 1 .. n \in SUBSET (1 .. n)
      OBVIOUS
    <2> QED
      BY <2>1, MaxExists, Zenon
  <1> QED
    BY <1>1

\* The value of the first coefficients, by the set of the indices folded.
IsHorner(h, x, b, t, n) ==
    h = [s \in SUBSET (1 .. n) |->
            IF s = {} THEN b ELSE (h[s \ {Max(s)}] * x + t[Max(s)]) % Q]

\* There is such a function, by recursion on the number of the coefficients.
LEMMA HornerExists ==
  ASSUME NEW n \in Nat, NEW x \in Int, NEW b \in Int, NEW t \in [1 .. n -> Int]
  PROVE  \E h \in [SUBSET (1 .. n) -> Int] : IsHorner(h, x, b, t, n)
  <1> DEFINE S == 1 .. n
             C == [s \in SUBSET S |-> Max(s)]
             F == [p \in S \X Int |-> (p[2] * x + t[p[1]]) % Q]
  <1>1. \A s \in SUBSET S : s # {} => C[s] \in s /\ C[s] = Max(s)
    BY MaxExists, Zenon
  <1>2. \A j \in S, v \in Int : F[<<j, v>>] = (v * x + t[j]) % Q
    OBVIOUS
  <1>3. \A j \in S, v \in Int : F[<<j, v>>] \in Int
    <2> SUFFICES ASSUME NEW j \in S, NEW v \in Int
                 PROVE  F[<<j, v>>] \in Int
      BY Zenon
    <2>1. v * x + t[j] \in Int
      OBVIOUS
    <2> QED
      BY <1>2, <2>1, ModDivision, Zenon
  <1>4. IsFiniteSet(S)
    BY FS_Interval
  <1> HIDE DEF C, F
  <1>5. Foldable(S, Int, b, C, F)
    BY Zenon, <1>1, <1>3, <1>4 DEF Foldable
  <1>6. PICK h \in [SUBSET S -> Int] : IsFold(h, S, b, C, F)
    BY <1>5, FoldExists, Zenon
  <1>7. ASSUME NEW s \in SUBSET S
        PROVE  h[s] = IF s = {} THEN b ELSE (h[s \ {Max(s)}] * x + t[Max(s)]) % Q
    <2>1. h[s] = IF s = {} THEN b ELSE F[<<C[s], h[s \ {C[s]}]>>]
      BY <1>6, Zenon DEF IsFold
    <2>2. s # {} => F[<<C[s], h[s \ {C[s]}]>>] = (h[s \ {C[s]}] * x + t[C[s]]) % Q
      <3>1. s # {} => C[s] \in S /\ h[s \ {C[s]}] \in Int
        BY <1>1, <1>6, Zenon
      <3> QED
        BY <1>2, <3>1, Zenon
    <2> QED
      BY <1>1, <2>1, <2>2, Zenon
  <1>8. IsHorner(h, x, b, t, n)
    BY <1>6, <1>7, Zenon DEF IsHorner
  <1> QED
    BY <1>6, <1>8

\* t and u have the same first m coefficients.
SameUpTo(t, u, m) == \A j \in 1 .. m : t[j] = u[j]

\* The value depends only on the coefficients folded.
LEMMA HornerUnique ==
  ASSUME NEW n \in Nat, NEW m \in Nat, m <= n, NEW x \in Int, NEW b \in Int, NEW t, NEW u,
         SameUpTo(t, u, m),
         NEW g, NEW h, IsHorner(g, x, b, t, m), IsHorner(h, x, b, u, n)
  PROVE  \A s \in SUBSET (1 .. m) : g[s] = h[s]
  <1> DEFINE A == {s \in SUBSET (1 .. m) : g[s] = h[s]}
  <1>1. ASSUME NEW s \in SUBSET (1 .. m), \A y \in s : s \ {y} \in A
        PROVE  s \in A
    <2>1. s # {} => Max(s) \in s
      BY MaxExists, Zenon
    <2>2. s \in SUBSET (1 .. n)
      OBVIOUS
    <2>3. g[s] = IF s = {} THEN b ELSE (g[s \ {Max(s)}] * x + t[Max(s)]) % Q
      BY Zenon DEF IsHorner
    <2>4. h[s] = IF s = {} THEN b ELSE (h[s \ {Max(s)}] * x + u[Max(s)]) % Q
      BY <2>2, Zenon DEF IsHorner
    <2>5. s # {} => g[s \ {Max(s)}] = h[s \ {Max(s)}] /\ t[Max(s)] = u[Max(s)]
      BY <1>1, <2>1, Zenon DEF SameUpTo
    <2> QED
      BY <2>3, <2>4, <2>5
  <1> HIDE DEF A
  <1>2. IsFiniteSet(1 .. m)
    BY FS_Interval
  <1>3. \A s \in SUBSET (1 .. m) : s \in A
    BY <1>1, <1>2, SubsetInduction, Zenon
  <1> QED
    BY <1>3 DEF A

\* horner is such a fold over the coefficients after the first.
LEMMA HornerFold ==
  ASSUME NEW a \in Seq(Int), Len(a) >= 1, NEW x \in Int
  PROVE  \E h \in [SUBSET (1 .. Len(a) - 1) -> Int] :
            /\ IsHorner(h, x, a[1], Tail(a), Len(a) - 1)
            /\ horner(x, a) = h[1 .. Len(a) - 1]
  <1> DEFINE n == Len(a) - 1
             t == Tail(a)
  <1>1. n \in Nat /\ t \in [1 .. n -> Int] /\ a[1] \in Int /\ DOMAIN t = 1 .. n
    <2>1. t \in Seq(Int) /\ Len(t) = n /\ n \in Nat /\ a[1] \in Int
      OBVIOUS
    <2> HIDE DEF t, n
    <2> QED
      BY <2>1
  <1> HIDE DEF n, t
  <1>2. PICK h : h \in [SUBSET (1 .. n) -> Int] /\ IsHorner(h, x, a[1], t, n)
    BY <1>1, HornerExists, Zenon
  <1>3. ASSUME NEW k, IsHorner(k, x, a[1], t, n)
        PROVE  k = h
    <2>1. \A s \in SUBSET (1 .. n) : k[s] = h[s]
      <3>1. SameUpTo(t, t, n) /\ n <= n
        BY <1>1 DEF SameUpTo
      <3>2. IsHorner(k, x, a[1], t, n) /\ IsHorner(h, x, a[1], t, n) /\ n \in Nat /\ a[1] \in Int
        BY <1>1, <1>2, <1>3, Zenon
      <3> QED
        BY <3>1, <3>2, HornerUnique
    <2>2. k = [s \in SUBSET (1 .. n) |-> k[s]]
      BY Zenon, <1>3 DEF IsHorner
    <2> QED
      BY <1>2, <2>1, <2>2, Zenon
  <1>4. horner(x, a) = (CHOOSE k : IsHorner(k, x, a[1], t, n))[1 .. n]
    <2>1. horner(x, a) = (CHOOSE k : k = [s \in SUBSET DOMAIN t |->
            IF s = {} THEN a[1] ELSE (k[s \ {Max(s)}] * x + t[Max(s)]) % Q])[DOMAIN t]
      BY DEF horner, FoldLeft, MapThenFoldSet, t
    <2> QED
      BY Zenon, <1>1, <2>1 DEF IsHorner
  <1>5. horner(x, a) = h[1 .. n]
    BY <1>2, <1>3, <1>4, Zenon
  <1> QED
    BY Zenon, <1>2, <1>5 DEF n, t

\* A constant polynomial has the value of its coefficient.
LEMMA HornerOne ==
  ASSUME NEW x \in Int, NEW c \in Int
  PROVE  horner(x, <<c>>) = c
  <1> DEFINE a == <<c>>
  <1>1. a \in Seq(Int) /\ Len(a) = 1 /\ Len(a) >= 1 /\ a[1] = c
    OBVIOUS
  <1> HIDE DEF a
  <1>2. PICK h \in [SUBSET (1 .. Len(a) - 1) -> Int] :
            /\ IsHorner(h, x, a[1], Tail(a), Len(a) - 1)
            /\ horner(x, a) = h[1 .. Len(a) - 1]
    BY <1>1, HornerFold, Zenon
  <1>3. 1 .. Len(a) - 1 = {}
    BY <1>1
  <1>4. h[{}] = a[1]
    BY <1>2, <1>3 DEF IsHorner
  <1> QED
    BY <1>1, <1>2, <1>3, <1>4 DEF a

\* One more coefficient at the end: multiply by x and add it.
LEMMA HornerAppend ==
  ASSUME NEW a \in Seq(Int), Len(a) >= 1, NEW x \in Int, NEW c \in Int
  PROVE  /\ horner(x, a) \in Int
         /\ horner(x, Append(a, c)) = (horner(x, a) * x + c) % Q
  <1> DEFINE b == Append(a, c)
             n == Len(a)
  <1>1. /\ b \in Seq(Int) /\ Len(b) = n + 1 /\ b[1] = a[1]
        /\ n \in Nat /\ n >= 1 /\ a[1] \in Int
        /\ Tail(b)[n] = c /\ \A j \in 1 .. n - 1 : Tail(b)[j] = Tail(a)[j]
    OBVIOUS
  <1>2. PICK g :
            /\ g \in [SUBSET (1 .. n - 1) -> Int]
            /\ IsHorner(g, x, a[1], Tail(a), n - 1)
            /\ horner(x, a) = g[1 .. n - 1]
    BY HornerFold, Zenon
  <1>3. PICK h :
            /\ h \in [SUBSET (1 .. n) -> Int]
            /\ IsHorner(h, x, a[1], Tail(b), n)
            /\ horner(x, b) = h[1 .. n]
    <2> HIDE DEF b, n
    <2>1. Len(b) >= 1 /\ Len(b) - 1 = n
      BY <1>1
    <2> QED
      BY <1>1, <2>1, HornerFold, Zenon
  <1> HIDE DEF b, n
  <1>4. g[1 .. n - 1] = h[1 .. n - 1]
    <2>1. \A s \in SUBSET (1 .. n - 1) : g[s] = h[s]
      <3>1. n - 1 \in Nat /\ n - 1 <= n /\ n \in Nat /\ a[1] \in Int
        BY <1>1
      <3>2. SameUpTo(Tail(a), Tail(b), n - 1)
        BY <1>1, Zenon DEF SameUpTo
      <3>3. IsHorner(g, x, a[1], Tail(a), n - 1) /\ IsHorner(h, x, a[1], Tail(b), n)
        BY <1>2, <1>3
      <3> QED
        BY <3>1, <3>2, <3>3, HornerUnique
    <2> QED
      BY <2>1, Zenon
  <1>5. h[1 .. n] = (h[1 .. n - 1] * x + Tail(b)[n]) % Q
    <2>1. Max(1 .. n) = n /\ (1 .. n) \ {n} = 1 .. n - 1
      BY Zenon, <1>1, MaxInterval
    <2>3. 1 .. n # {}
      <3>1. 1 \in 1 .. n
        BY <1>1
      <3> QED
        BY <3>1
    <2>2. h[1 .. n] = (h[(1 .. n) \ {Max(1 .. n)}] * x + Tail(b)[Max(1 .. n)]) % Q
      BY <1>3, <2>3, Zenon DEF IsHorner
    <2> QED
      BY <2>1, <2>2, Zenon
  <1> QED
    <2>1. horner(x, a) \in Int
      <3>1. g[1 .. n - 1] \in Int
        BY Zenon, <1>2
      <3> QED
        BY Zenon, <1>2, <3>1
    <2>2. horner(x, b) = (horner(x, a) * x + c) % Q
      BY Zenon, <1>1, <1>2, <1>3, <1>4, <1>5
    <2> QED
      BY Zenon, <2>1, <2>2 DEF b

\* The polynomials with m coefficients.
Poly(m) == {a \in Seq(Scalars) : Len(a) = m}

\* Adding a coefficient.
LEMMA PolyLength ==
  ASSUME NEW m \in Nat, NEW b \in Poly(m), NEW c \in Scalars
  PROVE  /\ Append(b, c) \in Poly(m + 1)
         /\ <<c>> \in Poly(1)
         /\ b \in Seq(Int) /\ Len(b) = m /\ c \in Int
  <1>1. Scalars \subseteq Int
    BY OrderType DEF Scalars
  <1>2. b \in Seq(Scalars) /\ Len(b) = m
    BY DEF Poly
  <1>3. b \in Seq(Int)
    <2>1. b \in [1 .. m -> Scalars]
      BY <1>2
    <2>2. b \in [1 .. m -> Int]
      BY <1>1, <2>1, Zenon
    <2> QED
      BY <2>2
  <1> QED
    BY <1>1, <1>2, <1>3 DEF Poly

\* A polynomial with one coefficient.
LEMMA PolyOne ==
  ASSUME NEW a \in Poly(1)
  PROVE  \E c \in Scalars : a = <<c>>
  <1>1. a \in Seq(Scalars) /\ Len(a) = 1
    BY DEF Poly
  <1>2. a[1] \in Scalars /\ a = <<a[1]>>
    BY <1>1
  <1> QED
    BY <1>2

\* A longer one has a last coefficient, the constant term.
LEMMA PolySplit ==
  ASSUME NEW m \in Nat, NEW a \in Poly(m + 1)
  PROVE  \E b \in Poly(m), c \in Scalars : a = Append(b, c)
  <1> DEFINE b == [i \in 1 .. m |-> a[i]]
             c == a[m + 1]
  <1>1. a \in Seq(Scalars) /\ Len(a) = m + 1
    BY DEF Poly
  <1>2. b \in Seq(Scalars) /\ Len(b) = m /\ c \in Scalars
    BY <1>1
  <1>3. a = Append(b, c)
    BY <1>1, <1>2
  <1> QED
    BY <1>2, <1>3, Zenon DEF Poly

\* The value of a polynomial with the constant term c.
LEMMA HornerStep ==
  ASSUME NEW m \in Nat, m >= 1, NEW b \in Poly(m), NEW c \in Scalars, NEW x \in Int
  PROVE  /\ Cong(horner(x, Append(b, c)), horner(x, b) * x + c)
         /\ horner(x, Append(b, c)) \in Scalars
         /\ horner(x, b) \in Int
  <1>1. b \in Seq(Int) /\ Len(b) >= 1 /\ c \in Int
    BY PolyLength, Zenon
  <1>2. horner(x, b) \in Int /\ horner(x, Append(b, c)) = (horner(x, b) * x + c) % Q
    BY <1>1, HornerAppend
  <1>3. horner(x, b) * x + c \in Int
    BY <1>1, <1>2
  <1> QED
    BY <1>2, <1>3, CongMod, ModDivision

\* A value is a scalar.
LEMMA HornerType ==
  ASSUME NEW m \in Nat, m >= 1, NEW a \in Poly(m), NEW x \in Int
  PROVE  horner(x, a) \in Scalars /\ horner(x, a) \in Int
  <1>1. CASE m = 1
    <2>1. PICK c \in Scalars : a = <<c>>
      BY <1>1, PolyOne
    <2>2. c \in Int
      BY ScalarMod
    <2> QED
      BY <2>1, <2>2, HornerOne
  <1>2. CASE m # 1
    <2>1. m - 1 \in Nat /\ m - 1 >= 1 /\ a \in Poly((m - 1) + 1)
      BY <1>2
    <2>2. PICK b \in Poly(m - 1), c \in Scalars : a = Append(b, c)
      BY <2>1, PolySplit
    <2> QED
      BY <2>1, <2>2, HornerStep, ScalarMod, Zenon
  <1> QED
    BY <1>1, <1>2

\* The value at 0 is the constant term: the secret of shamir_share.
LEMMA HornerZero ==
  ASSUME NEW m \in Nat, m >= 1, NEW a \in Poly(m)
  PROVE  horner(0, a) = a[m]
  <1>1. CASE m = 1
    <2>1. PICK c \in Scalars : a = <<c>>
      BY <1>1, PolyOne
    <2>2. c \in Int /\ 0 \in Int /\ <<c>>[1] = c
      BY ScalarMod
    <2> QED
      BY <1>1, <2>1, <2>2, HornerOne
  <1>2. CASE m # 1
    <2>1. m - 1 \in Nat /\ m - 1 >= 1 /\ a \in Poly((m - 1) + 1)
      BY <1>2
    <2>2. PICK b \in Poly(m - 1), c \in Scalars : a = Append(b, c)
      BY <2>1, PolySplit
    <2> DEFINE z == 0
               v == horner(z, b)
    <2>3. z \in Int /\ c \in Int
      BY ScalarMod
    <2>4. Cong(horner(z, a), v * z + c) /\ horner(z, a) \in Scalars /\ v \in Int
      <3> HIDE DEF z
      <3> QED
        BY <2>1, <2>2, <2>3, HornerStep, Zenon
    <2> HIDE DEF v
    <2>5. v * z + c = c
      BY <2>3, <2>4
    <2>6. horner(z, a) = c
      BY <2>4, <2>5, ScalarMod DEF Cong
    <2>7. a[m] = c
      <3>1. b \in Seq(Int) /\ Len(b) = m - 1
        BY <2>1, <2>2, PolyLength, Zenon
      <3> QED
        BY <2>2, <3>1
    <2> QED
      BY <2>6, <2>7
  <1> QED
    BY <1>1, <1>2

-----------------------------------------------------------------------------
(* Interpolation *)

\* A polynomial with m + 1 coefficients is (x - s) times one with m coefficients, plus
\* its value at s.
LEMMA Division ==
  ASSUME NEW m \in Nat, m >= 1, NEW a \in Poly(m + 1), NEW s \in Int
  PROVE  \E q \in Poly(m) :
            \A x \in Int : Cong(horner(x, a) - horner(s, a), (x - s) * horner(x, q))
  <1> DEFINE Divides(q, p) ==
                \A x \in Int : Cong(horner(x, p) - horner(s, p), (x - s) * horner(x, q))
             A == {n \in Nat : \A p \in Poly(n + 2) : \E q \in Poly(n + 1) : Divides(q, p)}
  <1>1. 0 \in A
    <2>1. ASSUME NEW p \in Poly(2)  PROVE \E q \in Poly(1) : Divides(q, p)
      <3>0. p \in Poly(1 + 1) /\ 1 \in Nat /\ 1 >= 1
        OBVIOUS
      <3>1. PICK b \in Poly(1), c \in Scalars : p = Append(b, c)
        BY <3>0, PolySplit, Zenon
      <3>2. PICK d \in Scalars : b = <<d>>
        BY Zenon, PolyOne
      <3>3. c \in Int /\ d \in Int
        BY ScalarMod
      <3>4. ASSUME NEW x \in Int
            PROVE  Cong(horner(x, p) - horner(s, p), (x - s) * horner(x, b))
        <4> DEFINE u == horner(x, p)
                   v == horner(s, p)
        <4>1. horner(x, b) = d /\ horner(s, b) = d
          BY <3>2, <3>3, HornerOne
        <4>2. Cong(u, d * x + c) /\ Cong(v, d * s + c) /\ u \in Scalars /\ v \in Scalars
          <5>1. /\ Cong(u, horner(x, b) * x + c) /\ u \in Scalars
                /\ Cong(v, horner(s, b) * s + c) /\ v \in Scalars
            <6> DEFINE k == 1
            <6>1. k \in Nat /\ k >= 1 /\ b \in Poly(k)
              OBVIOUS
            <6> HIDE DEF k
            <6> QED
              BY <3>1, <6>1, HornerStep, Zenon
          <5> QED
            BY <4>1, <5>1
        <4>3. u \in Int /\ v \in Int /\ d * x + c \in Int /\ d * s + c \in Int
          <5>1. u \in Int /\ v \in Int
            BY <4>2, ScalarMod
          <5> QED
            BY <3>3, <5>1
        <4> HIDE DEF u, v
        <4>4. Cong(u - v, (d * x + c) - (d * s + c))
          BY Zenon, <4>2, <4>3, CongArith
        <4>5. (d * x + c) - (d * s + c) = (x - s) * d
          BY <3>3
        <4> QED
          BY Zenon, <4>1, <4>4, <4>5 DEF u, v
      <3> QED
        BY Zenon, <3>4
    <2> QED
      BY <2>1
  <1>2. ASSUME NEW n \in Nat, n \in A  PROVE n + 1 \in A
    <2>1. ASSUME NEW p \in Poly((n + 1) + 2)
          PROVE  \E q \in Poly((n + 1) + 1) : Divides(q, p)
      <3>0. p \in Poly((n + 2) + 1) /\ n + 2 \in Nat /\ n + 2 >= 1 /\ n + 1 \in Nat /\ n + 1 >= 1
        OBVIOUS
      <3>1. PICK b \in Poly(n + 2), c \in Scalars : p = Append(b, c)
        BY Zenon, <3>0, PolySplit
      <3>2. PICK r \in Poly(n + 1) : Divides(r, b)
        BY <1>2
      <3> DEFINE e == horner(s, b)
                 q == Append(r, e)
      <3>3. e \in Scalars /\ e \in Int /\ c \in Int
        BY <3>0, <3>1, HornerType, ScalarMod, Zenon
      <3>4. q \in Poly((n + 1) + 1)
        BY <3>0, <3>2, <3>3, PolyLength, Zenon
      <3>5. ASSUME NEW x \in Int
            PROVE  Cong(horner(x, p) - horner(s, p), (x - s) * horner(x, q))
        <4> DEFINE u == horner(x, p)
                   v == horner(s, p)
                   y == horner(x, b)
                   z == horner(x, r)
                   w == horner(x, q)
        <4>1. /\ Cong(u, y * x + c) /\ Cong(v, e * s + c) /\ Cong(w, z * x + e)
              /\ u \in Scalars /\ v \in Scalars /\ w \in Scalars /\ y \in Int /\ z \in Int
          <5> HIDE DEF e
          <5> QED
            BY <3>0, <3>1, <3>2, <3>3, HornerStep, Zenon DEF e
        <4>2. Cong(y - e, (x - s) * z)
          BY <3>2
        <4>3. u \in Int /\ v \in Int /\ w \in Int
          BY <4>1, ScalarMod
        <4> HIDE DEF u, v, w, y, z, e, q
        <4>4. Cong(u - v, (y * x + c) - (e * s + c))
          <5>1. y * x + c \in Int /\ e * s + c \in Int
            BY <3>3, <4>1
          <5> QED
            BY Zenon, <4>1, <4>3, <5>1, CongArith
        <4>5. (y * x + c) - (e * s + c) = (y - e) * x + (x - s) * e
          BY <3>3, <4>1
        <4>6. Cong((y - e) * x + (x - s) * e, ((x - s) * z) * x + (x - s) * e)
          <5>1. y - e \in Int /\ (x - s) * z \in Int /\ (x - s) * e \in Int
            BY <3>3, <4>1
          <5>2. Cong(x, x) /\ Cong((x - s) * e, (x - s) * e)
            BY DEF Cong
          <5>3. Cong((y - e) * x, ((x - s) * z) * x)
            BY <4>2, <5>1, <5>2, CongArith
          <5>4. (y - e) * x \in Int /\ ((x - s) * z) * x \in Int
            BY <5>1
          <5> QED
            BY Zenon, <5>1, <5>2, <5>3, <5>4, CongArith
        <4>7. ((x - s) * z) * x + (x - s) * e = (x - s) * (z * x + e)
          BY <3>3, <4>1
        <4>8. Cong((x - s) * (z * x + e), (x - s) * w)
          <5>1. x - s \in Int /\ z * x + e \in Int
            BY <3>3, <4>1
          <5>2. Cong(x - s, x - s) /\ Cong(z * x + e, w)
            BY <4>1 DEF Cong
          <5> QED
            BY <4>3, <5>1, <5>2, CongArith
        <4> QED
          BY <4>4, <4>5, <4>6, <4>7, <4>8 DEF Cong, u, v, w
      <3> HIDE DEF q
      <3> QED
        BY <3>4, <3>5
    <2> QED
      BY <2>1
  <1> HIDE DEF A
  <1>3. m - 1 \in A
    BY <1>1, <1>2, Induction
  <1>4. (m - 1) + 2 = m + 1 /\ (m - 1) + 1 = m
    OBVIOUS
  <1> QED
    BY Zenon, <1>3, <1>4 DEF A

\* The terms interpolate adds up.
Terms(S, v) == [i \in S |-> v[i] * lagrange_coeff(S, i)]

\* The values of the polynomial a at the indices of S.
Values(S, a) == [i \in S |-> horner(i, a)]

\* They are numbers.
LEMMA TermsType ==
  ASSUME NEW S \in SUBSET Indices, NEW v, \A i \in S : v[i] \in Int
  PROVE  Terms(S, v) \in [S -> Int]
  BY LagrangeType DEF Terms

\* Values and terms are numbers.
LEMMA ValuesType ==
  ASSUME NEW S \in SUBSET Indices, NEW m \in Nat, m >= 1, NEW a \in Poly(m)
  PROVE  /\ Values(S, a) \in [S -> Int]
         /\ Terms(S, Values(S, a)) \in [S -> Int]
  <1>1. Values(S, a) \in [S -> Int]
    BY IndexSets, HornerType DEF Values
  <1> QED
    BY <1>1, TermsType

\* Any m or more points of a polynomial with m coefficients are interpolated to its
\* constant term.  By induction on m: divide by x - s for a node s of the set; the
\* term of s drops out and the other coefficients are those of the smaller set.
THEOREM Interpolation ==
  ASSUME NEW m \in Nat, m >= 1, NEW S \in SUBSET Indices, Cardinality(S) >= m,
         NEW a \in Poly(m)
  PROVE  SumMod(Terms(S, Values(S, a))) = horner(0, a)
  <1> DEFINE A == {n \in Nat : \A R \in SUBSET Indices, p \in Poly(n + 1) :
                     Cardinality(R) >= n + 1 =>
                        SumMod(Terms(R, Values(R, p))) = horner(0, p)}
  <1>1. 0 \in A
    <2>1. ASSUME NEW R \in SUBSET Indices, NEW p \in Poly(1), Cardinality(R) >= 1
          PROVE  SumMod(Terms(R, Values(R, p))) = horner(0, p)
      <3>1. PICK c \in Scalars : p = <<c>>
        BY PolyOne
      <3>2. c \in Int /\ 0 \in Int /\ horner(0, p) = c /\ \A i \in R : horner(i, p) = c
        BY <3>1, ScalarMod, HornerOne, IndexSets
      <3>3. R # {} /\ IsFiniteSet(R)
        BY <2>1, FS_EmptySet, IndexSets
      <3> DEFINE l == Lambda(R, R)
                 e == Terms(R, Values(R, p))
                 z == 0
      <3>4. l \in [R -> Int] /\ e \in [R -> Int] /\ z \in Int
        <4>1. l \in [R -> Int]
          BY LambdaType
        <4>2. \A i \in R : Values(R, p)[i] \in Int
          BY <3>2 DEF Values
        <4> QED
          BY <4>1, <4>2, TermsType
      <3>5. \A i \in R : l[i] \in Int /\ e[i] = c * l[i] + z * l[i]
        <4>1. \A i \in R : l[i] \in Int /\ l[i] = lagrange_coeff(R, i)
          BY <3>4 DEF Lambda
        <4>2. \A i \in R : e[i] = c * l[i]
          BY <3>2, <4>1 DEF Terms, Values
        <4> HIDE DEF l, e
        <4> QED
          BY <3>2, <4>1, <4>2
      <3>6. SumMod(l) = 1
        BY <3>3, CoefficientsSumToOne
      <3>7. SumMod(e) \in Scalars
        BY <3>3, <3>4, SumType
      <3> HIDE DEF l, e, z
      <3>8. Cong(SumMod(e), c * SumMod(l) + z * SumMod(l))
        <4>1. \A i \in R : Cong(e[i], c * l[i] + z * l[i])
          BY <3>5 DEF Cong
        <4> QED
          BY <3>2, <3>3, <3>4, <4>1, SumLinear, Zenon
      <3>9. c * SumMod(l) + z * SumMod(l) = c
        BY <3>2, <3>6 DEF z
      <3> QED
        BY <3>2, <3>7, <3>8, <3>9, ScalarMod, Zenon DEF Cong, e
    <2> QED
      BY <2>1
  <1>2. ASSUME NEW n \in Nat, n \in A  PROVE n + 1 \in A
    <2>1. ASSUME NEW R \in SUBSET Indices, NEW p \in Poly((n + 1) + 1),
                 Cardinality(R) >= (n + 1) + 1
          PROVE  SumMod(Terms(R, Values(R, p))) = horner(0, p)
      <3>0. n + 1 \in Nat /\ n + 1 >= 1 /\ (n + 1) + 1 \in Nat /\ (n + 1) + 1 >= 1
        OBVIOUS
      <3>1. IsFiniteSet(R) /\ R # {}
        BY <2>1, FS_EmptySet, IndexSets
      <3>2. PICK s \in R : TRUE
        BY <3>1
      <3>3. s \in Int /\ 0 \in Int /\ \A i \in R : i \in Int
        BY IndexSets
      <3>4. PICK q \in Poly(n + 1) :
              \A x \in Int : Cong(horner(x, p) - horner(s, p), (x - s) * horner(x, q))
        BY <3>0, <3>3, Division, Zenon
      <3> DEFINE T == R \ {s}
                 u == horner(s, p)
                 w == horner(0, q)
                 y == horner(0, p)
                 l == Lambda(R, R)
                 k == [i \in R |-> IF i \in T THEN horner(i, q) * lagrange_coeff(T, i) ELSE 0]
                 e == Terms(R, Values(R, p))
      <3>5. T \in SUBSET Indices /\ Cardinality(T) >= n + 1
        <4>1. Cardinality(T) = Cardinality(R) - 1 /\ Cardinality(R) \in Nat
          BY <3>1, <3>2, FS_RemoveElement, FS_CardinalityType
        <4> QED
          BY <2>1, <4>1
      <3>6. SumMod(Terms(T, Values(T, q))) = w
        BY <1>2, <3>5
      <3>7. u \in Int /\ w \in Int /\ y \in Int /\ y \in Scalars /\ \A i \in R : horner(i, q) \in Int /\ horner(i, p) \in Int
        BY Zenon, <3>0, <3>3, HornerType
      <3>8. l \in [R -> Int] /\ e \in [R -> Int] /\ k \in [R -> Int]
        <4>1. \A i \in T : lagrange_coeff(T, i) \in Int
          BY <3>5, LagrangeType
        <4>2. k \in [R -> Int]
          <5>1. ASSUME NEW i \in T  PROVE horner(i, q) * lagrange_coeff(T, i) \in Int
            <6>1. horner(i, q) \in Int /\ lagrange_coeff(T, i) \in Int
              BY Zenon, <3>7, <4>1
            <6> QED
              BY <6>1
          <5> HIDE DEF T
          <5> QED
            BY <5>1
        <4>3. l \in [R -> Int]
          BY LambdaType
        <4>4. e \in [R -> Int]
          BY <3>0, ValuesType, Zenon
        <4> QED
          BY <4>2, <4>3, <4>4, Zenon
      <3>9. SumMod(l) = 1 /\ SumMod(e) \in Scalars
        BY <3>1, <3>8, CoefficientsSumToOne, SumType
      <3>10. SumMod(k) = w
        <4>1. Restrict(k, R \ {s}) = Terms(T, Values(T, q))
          BY DEF Restrict, Terms, Values
        <4>2. Cong(k[s], 0)
          BY DEF Cong
        <4> HIDE DEF k
        <4>3. SumMod(k) = SumMod(Restrict(k, R \ {s}))
          BY <3>1, <3>8, <4>2, SumDrop
        <4> QED
          BY <3>6, <4>1, <4>3
      <3>11. ASSUME NEW i \in R
             PROVE  Cong(e[i], u * l[i] + (-s) * k[i])
        <4> DEFINE f == horner(i, p)
                   g == horner(i, q)
                   a1 == l[i]
                   b1 == k[i]
        <4>1. f \in Int /\ g \in Int /\ a1 \in Int /\ b1 \in Int /\ i \in Int
          BY <3>3, <3>7, <3>8, Zenon
        <4>2. e[i] = f * a1
          BY DEF Terms, Values, Lambda
        <4>3. Cong(f - u, (i - s) * g)
          BY Zenon, <3>3, <3>4
        <4>4. Cong(((i - s) * g) * a1, (-s) * b1)
          <5>1. CASE i = s
            <6>1. b1 = 0
              BY <5>1
            <6>2. ((i - s) * g) * a1 = (-s) * b1
              <7>1. (i - s) * g = 0
                BY <4>1, <5>1
              <7> HIDE DEF b1
              <7> QED
                BY <3>3, <4>1, <6>1, <7>1
            <6> QED
              BY <6>2 DEF Cong
          <5>2. CASE i # s
            <6> DEFINE c1 == lagrange_coeff(T, i)
            <6>1. Cong((s - i) * a1, s * c1) /\ b1 = g * c1 /\ c1 \in Int
              <7>1. a1 = lagrange_coeff(R, i)
                BY DEF Lambda
              <7>2. Cong((s - i) * lagrange_coeff(R, i), s * c1)
                BY <5>2, LagrangeStep
              <7>3. b1 = g * c1 /\ c1 \in Int
                BY <3>5, <5>2, LagrangeType
              <7> QED
                BY Zenon, <7>1, <7>2, <7>3
            <6> HIDE DEF a1, b1, c1, f, g
            <6>2. (-g) * ((s - i) * a1) = ((i - s) * g) * a1
              BY <3>3, <4>1
            <6>3. (-g) * (s * c1) = (-s) * b1
              BY <3>3, <4>1, <6>1
            <6>4. Cong(-g, -g) /\ -g \in Int /\ (s - i) * a1 \in Int /\ s * c1 \in Int
              BY <3>3, <4>1, <6>1 DEF Cong
            <6> QED
              BY Zenon, <6>1, <6>2, <6>3, <6>4, CongArith
          <5> QED
            BY Zenon, <5>1, <5>2
        <4> HIDE DEF f, g, a1, b1, u
        <4>5. Cong((f - u) * a1, ((i - s) * g) * a1)
          <5>1. f - u \in Int /\ (i - s) * g \in Int /\ Cong(a1, a1)
            BY <3>3, <3>7, <4>1 DEF Cong
          <5> QED
            BY Zenon, <4>1, <4>3, <5>1, CongArith
        <4>6. Cong(u * a1 + (f - u) * a1, u * a1 + (-s) * b1)
          <5>1. Cong(u * a1, u * a1) /\ Cong((f - u) * a1, (-s) * b1)
            BY Zenon, <4>4, <4>5 DEF Cong
          <5>2. u * a1 \in Int /\ (f - u) * a1 \in Int /\ (-s) * b1 \in Int
            BY <3>3, <3>7, <4>1
          <5> QED
            BY Zenon, <5>1, <5>2, CongArith
        <4>7. u * a1 + (f - u) * a1 = f * a1
          BY <3>7, <4>1
        <4> QED
          BY Zenon, <4>2, <4>6, <4>7 DEF a1, b1
      <3> HIDE DEF T, u, w, y, l, k, e
      <3>12. Cong(SumMod(e), u * 1 + (-s) * w)
        <4>1. -s \in Int
          BY <3>3
        <4>2. Cong(SumMod(e), u * SumMod(l) + (-s) * SumMod(k))
          BY <3>1, <3>7, <3>8, <3>11, <4>1, SumLinear, Zenon
        <4> QED
          BY Zenon, <3>9, <3>10, <4>2
      <3>13. Cong(y - u, (0 - s) * w)
        BY Zenon, <3>3, <3>4 DEF y, u, w
      <3>14. Cong(y, u * 1 + (-s) * w)
        <4>1. Cong((y - u) + u, (0 - s) * w + u)
          <5>1. y - u \in Int /\ (0 - s) * w \in Int /\ Cong(u, u)
            BY <3>3, <3>7 DEF Cong
          <5> QED
            BY Zenon, <3>7, <3>13, <5>1, CongArith
        <4>2. (y - u) + u = y /\ (0 - s) * w + u = u * 1 + (-s) * w
          BY <3>3, <3>7
        <4> QED
          BY Zenon, <4>1, <4>2
      <3> QED
        BY Zenon, <3>7, <3>9, <3>12, <3>14, ScalarMod DEF Cong, e, y
    <2> QED
      BY <2>1
  <1> HIDE DEF A
  <1>3. m - 1 \in A
    BY <1>1, <1>2, Induction
  <1>4. (m - 1) + 1 = m
    OBVIOUS
  <1> QED
    BY <1>3, <1>4 DEF A

\* (x - s) times a polynomial, plus a constant, is a polynomial with one more
\* coefficient.
LEMMA Product ==
  ASSUME NEW m \in Nat, m >= 1, NEW q \in Poly(m), NEW s \in Int, NEW c \in Int
  PROVE  \E p \in Poly(m + 1) :
            \A x \in Int : Cong(horner(x, p), (x - s) * horner(x, q) + c)
  <1> DEFINE Times(p, r, d) == \A x \in Int : Cong(horner(x, p), (x - s) * horner(x, r) + d)
             A == {n \in Nat : \A r \in Poly(n + 1), d \in Int : \E p \in Poly(n + 2) : Times(p, r, d)}
  <1>1. 0 \in A
    <2>1. ASSUME NEW r \in Poly(1), NEW d \in Int
          PROVE  \E p \in Poly(2) : Times(p, r, d)
      <3> DEFINE k == 1
      <3>0. k \in Nat /\ k >= 1 /\ r \in Poly(k) /\ k + 1 = 2
        OBVIOUS
      <3>1. PICK e \in Scalars : r = <<e>>
        BY PolyOne
      <3> DEFINE g == (d - s * e) % Q
                 p == Append(r, g)
      <3>2. e \in Int /\ d - s * e \in Int
        BY ScalarMod
      <3>3. g \in Scalars /\ g \in Int /\ Cong(g, d - s * e)
        BY <3>2, ModDivision, CongMod
      <3> HIDE DEF g, k
      <3>4. p \in Poly(2)
        BY <3>0, <3>3, PolyLength, Zenon
      <3>5. ASSUME NEW x \in Int
            PROVE  Cong(horner(x, p), (x - s) * horner(x, r) + d)
        <4>1. horner(x, r) = e
          BY Zenon, <3>1, <3>2, HornerOne
        <4>2. Cong(horner(x, p), e * x + g)
          BY Zenon, <3>0, <3>3, <4>1, HornerStep
        <4>3. Cong(e * x + g, e * x + (d - s * e))
          <5>1. Cong(e * x, e * x) /\ e * x \in Int
            BY <3>2 DEF Cong
          <5> QED
            BY Zenon, <3>2, <3>3, <5>1, CongArith
        <4>4. e * x + (d - s * e) = (x - s) * e + d
          BY <3>2
        <4> QED
          BY Zenon, <4>1, <4>2, <4>3, <4>4 DEF Cong
      <3> HIDE DEF p
      <3> QED
        BY Zenon, <3>4, <3>5
    <2> QED
      BY <2>1
  <1>2. ASSUME NEW n \in Nat, n \in A  PROVE n + 1 \in A
    <2>1. ASSUME NEW r \in Poly((n + 1) + 1), NEW d \in Int
          PROVE  \E p \in Poly((n + 1) + 2) : Times(p, r, d)
      <3>0. n + 1 \in Nat /\ n + 1 >= 1 /\ n + 2 \in Nat /\ n + 2 >= 1 /\ (n + 2) + 1 = (n + 1) + 2
        OBVIOUS
      <3>1. PICK b \in Poly(n + 1), e \in Scalars : r = Append(b, e)
        BY Zenon, <3>0, PolySplit
      <3>2. e \in Int /\ d - s * e \in Int
        BY ScalarMod
      <3>3. PICK f \in Poly(n + 2) : Times(f, b, e)
        BY Zenon, <1>2, <3>2
      <3> DEFINE g == (d - s * e) % Q
                 p == Append(f, g)
      <3>4. g \in Scalars /\ g \in Int /\ Cong(g, d - s * e)
        BY Zenon, <3>2, ModDivision, CongMod
      <3> HIDE DEF g
      <3>5. p \in Poly((n + 1) + 2)
        BY <3>0, <3>3, <3>4, PolyLength, Zenon
      <3>6. ASSUME NEW x \in Int
            PROVE  Cong(horner(x, p), (x - s) * horner(x, r) + d)
        <4> DEFINE u == horner(x, p)
                   v == horner(x, r)
                   y == horner(x, f)
                   z == horner(x, b)
        <4>1. Cong(u, y * x + g) /\ y \in Int /\ u \in Scalars
          BY <3>0, <3>3, <3>4, HornerStep, Zenon
        <4>2. Cong(v, z * x + e) /\ z \in Int /\ v \in Scalars
          BY <3>0, <3>1, HornerStep, Zenon
        <4>3. Cong(y, (x - s) * z + e)
          BY Zenon, <3>3
        <4>4. u \in Int /\ v \in Int
          BY Zenon, <4>1, <4>2, ScalarMod
        <4> HIDE DEF u, v, y, z
        <4>5. Cong(y * x + g, ((x - s) * z + e) * x + (d - s * e))
          <5>1. (x - s) * z + e \in Int /\ Cong(x, x)
            BY <3>2, <4>2 DEF Cong
          <5>2. Cong(y * x, ((x - s) * z + e) * x)
            BY Zenon, <4>1, <4>3, <5>1, CongArith
          <5>3. y * x \in Int /\ ((x - s) * z + e) * x \in Int
            BY <4>1, <5>1
          <5> QED
            BY Zenon, <3>2, <3>4, <5>2, <5>3, CongArith
        <4>6. ((x - s) * z + e) * x + (d - s * e) = (x - s) * (z * x + e) + d
          <5>1. ((x - s) * z + e) * x = (x - s) * (z * x) + e * x
            BY <3>2, <4>2
          <5>2. (x - s) * (z * x + e) = (x - s) * (z * x) + (x - s) * e
            BY <3>2, <4>2
          <5>3. (x - s) * e = e * x - s * e
            BY <3>2
          <5>4. (x - s) * (z * x) \in Int /\ e * x \in Int /\ s * e \in Int
            BY <3>2, <4>2
          <5> QED
            BY <5>1, <5>2, <5>3, <5>4
        <4>7. Cong((x - s) * (z * x + e) + d, (x - s) * v + d)
          <5>1. x - s \in Int /\ z * x + e \in Int /\ Cong(x - s, x - s) /\ Cong(z * x + e, v)
            BY <3>2, <4>2 DEF Cong
          <5>2. Cong((x - s) * (z * x + e), (x - s) * v)
            BY Zenon, <4>4, <5>1, CongArith
          <5>3. (x - s) * (z * x + e) \in Int /\ (x - s) * v \in Int /\ Cong(d, d)
            BY <4>4, <5>1 DEF Cong
          <5> QED
            BY Zenon, <5>2, <5>3, CongArith
        <4> QED
          BY Zenon, <4>1, <4>5, <4>6, <4>7 DEF Cong, u, v
      <3> HIDE DEF p
      <3> QED
        BY Zenon, <3>5, <3>6
    <2> QED
      BY <2>1
  <1> HIDE DEF A
  <1>3. m - 1 \in A
    BY <1>1, <1>2, Induction
  <1>4. (m - 1) + 2 = m + 1 /\ (m - 1) + 1 = m
    OBVIOUS
  <1> QED
    BY Zenon, <1>3, <1>4 DEF A

\* There is a polynomial with as many coefficients as points through any points:
\* through a smaller set by induction, corrected at the last point by a multiple of
\* the product of x - s over the others.
THEOREM AnyValues ==
  ASSUME NEW T \in SUBSET Scalars, T # {}, NEW v \in [T -> Scalars]
  PROVE  \E p \in Poly(Cardinality(T)) : \A i \in T : horner(i, p) = v[i]
  <1> DEFINE Through(p, R, w) == \A i \in R : horner(i, p) = w[i]
             A == {R \in SUBSET T : R # {} =>
                     \A w \in [R -> Scalars] : \E p \in Poly(Cardinality(R)) : Through(p, R, w)}
  <1>0. IsFiniteSet(T) /\ \A i \in Scalars : i \in Int
    <2>1. IsFiniteSet(Scalars)
      BY FS_Interval, OrderType DEF Scalars
    <2> QED
      BY Zenon, <2>1, FS_Subset, ScalarMod
  <1>1. ASSUME NEW R \in SUBSET T, \A s \in R : R \ {s} \in A, R # {},
               NEW w \in [R -> Scalars]
        PROVE  \E p \in Poly(Cardinality(R)) : Through(p, R, w)
    <2>0. IsFiniteSet(R) /\ \A i \in R : i \in Int
      BY <1>0, FS_Subset
    <2>1. PICK s \in R : TRUE
      BY <1>1
    <2> DEFINE U == R \ {s}
               c == w[s]
    <2>2. c \in Scalars /\ c \in Int /\ s \in Int
      BY <1>0, <2>0
    <2>3. IsFiniteSet(U) /\ Cardinality(U) \in Nat /\ Cardinality(R) = Cardinality(U) + 1
      <3>1. Cardinality(U) = Cardinality(R) - 1 /\ IsFiniteSet(U)
        BY Zenon, <2>0, FS_RemoveElement
      <3> QED
        BY <2>0, <3>1, FS_CardinalityType
    <2>4. CASE U = {}
      <3> DEFINE p == <<c>>
      <3>1. Cardinality(R) = 1
        BY <2>3, <2>4, FS_EmptySet
      <3>2. p \in Poly(1)
        BY <2>2 DEF Poly
      <3>3. Through(p, R, w)
        <4>1. ASSUME NEW i \in R  PROVE horner(i, p) = w[i]
          <5>1. i = s
            BY Zenon, <2>4
          <5> QED
            BY Zenon, <2>2, <5>1, HornerOne
        <4> QED
          BY Zenon, <4>1
      <3> QED
        BY <3>1, <3>2, <3>3
    <2>5. CASE U # {}
      <3> DEFINE y == [i \in U |-> ((w[i] - c) * inv_mod(i - s, Q)) % Q]
      <3>1. ASSUME NEW i \in U
            PROVE  /\ inv_mod(i - s, Q) \in Int /\ Cong((i - s) * inv_mod(i - s, Q), 1)
                   /\ i \in Int /\ w[i] \in Int /\ w[i] \in Scalars
        <4>1. ~Cong(i - s, 0)
          <5>1. i \in 0 .. Q - 1 /\ s \in 0 .. Q - 1
            BY Zenon DEF Scalars
          <5> QED
            BY Zenon, <5>1, IndicesDistinct
        <4>2. i \in Int /\ i - s \in Int
          BY <2>0, <2>2
        <4> QED
          BY <1>0, <4>1, <4>2, ModInverse, Zenon
      <3>2. \A i \in U : (w[i] - c) * inv_mod(i - s, Q) \in Int
        BY <2>2, <3>1
      <3>3. y \in [U -> Scalars]
        BY Zenon, <3>2, ModDivision
      <3>4. PICK q \in Poly(Cardinality(U)) : Through(q, U, y)
        <4>1. U \in A
          BY <1>1, Zenon
        <4> HIDE DEF U, y
        <4> QED
          BY Zenon, <2>5, <3>3, <4>1
      <3>5. Cardinality(U) >= 1
        BY <2>3, <2>5, FS_EmptySet
      <3>6. PICK p \in Poly(Cardinality(R)) :
               \A x \in Int : Cong(horner(x, p), (x - s) * horner(x, q) + c)
        <4> HIDE DEF U, c
        <4> QED
          BY <2>2, <2>3, <3>5, Product, Zenon
      <3>7. ASSUME NEW i \in R  PROVE horner(i, p) = w[i]
        <4> DEFINE u == horner(i, p)
                   g == horner(i, q)
        <4>1. u \in Scalars /\ g \in Int /\ i \in Int
          <5>1. Cardinality(R) \in Nat /\ Cardinality(R) >= 1
            BY <2>3
          <5> HIDE DEF U
          <5> QED
            BY Zenon, <2>0, <2>3, <3>5, <5>1, HornerType
        <4>2. Cong(u, (i - s) * g + c)
          BY Zenon, <3>6, <4>1
        <4>3. CASE i = s
          <5>1. (i - s) * g + c = c
            <6> HIDE DEF g, c
            <6> QED
              BY <2>2, <4>1, <4>3
          <5>2. Cong(u, c)
            BY Zenon, <4>2, <5>1
          <5> QED
            BY <2>2, <4>1, <4>3, <5>2, ScalarMod, Zenon DEF Cong
        <4>4. CASE i # s
          <5> DEFINE h == inv_mod(i - s, Q)
                     d == w[i]
          <5>0. i \in U
            BY Zenon, <4>4
          <5>1. h \in Int /\ Cong((i - s) * h, 1) /\ d \in Int /\ d \in Scalars
            BY Zenon, <3>1, <5>0
          <5>2. g = ((d - c) * h) % Q
            BY Zenon, <3>4, <5>0
          <5> HIDE DEF U, c, u, g, h, d
          <5>3. (d - c) * h \in Int /\ i - s \in Int /\ d - c \in Int /\ (i - s) * h \in Int
            BY <2>2, <4>1, <5>1
          <5>4. Cong((i - s) * g, (i - s) * ((d - c) * h))
            <6>1. Cong(i - s, i - s) /\ Cong(g, (d - c) * h)
              BY Zenon, <5>2, <5>3, CongMod DEF Cong
            <6> QED
              BY Zenon, <4>1, <5>3, <6>1, CongArith
          <5>5. (i - s) * ((d - c) * h) = (d - c) * ((i - s) * h)
            BY <5>1, <5>3
          <5>6. Cong((d - c) * ((i - s) * h), (d - c) * 1)
            <6>1. Cong(d - c, d - c) /\ 1 \in Int
              BY DEF Cong
            <6> QED
              BY Zenon, <5>1, <5>3, <6>1, CongArith
          <5>7. (d - c) * 1 = d - c
            BY <5>3
          <5>8. Cong((i - s) * g, d - c)
            BY Zenon, <5>4, <5>5, <5>6, <5>7 DEF Cong
          <5>9. Cong((i - s) * g + c, (d - c) + c)
            <6>1. (i - s) * g \in Int /\ Cong(c, c)
              BY <4>1, <5>3 DEF Cong
            <6> QED
              BY Zenon, <2>2, <5>3, <5>8, <6>1, CongArith
          <5>10. (d - c) + c = d
            BY <2>2, <5>1
          <5>11. Cong(u, d)
            BY Zenon, <4>2, <5>9, <5>10 DEF Cong
          <5> QED
            BY <4>1, <5>1, <5>11, ScalarMod, Zenon DEF Cong, u, d
        <4> QED
          BY Zenon, <4>3, <4>4
      <3> QED
        BY Zenon, <3>7
    <2> QED
      BY <2>4, <2>5
  <1>2. \A R \in SUBSET T : (\A x \in R : R \ {x} \in A) => R \in A
    BY <1>1, Zenon
  <1> HIDE DEF A
  <1>3. T \in A
    BY <1>0, <1>2, SubsetInduction, T \in SUBSET T, Zenon
  <1> QED
    BY Zenon, <1>3 DEF A

-----------------------------------------------------------------------------
(* The ciphers, the coin and BLS04: what is computed honestly is accepted *)

\* The hash functions return numbers; nothing else is assumed of them.
HashIsNumber == \A domain, input : Hash(domain, input) \in Nat

\* Reduced by the order, a hash is a scalar.
LEMMA HashScalar ==
  ASSUME HashIsNumber, NEW d, NEW input
  PROVE  Hash(d, input) % Q \in Scalars /\ Hash(d, input) % Q \in Int
  BY ModDivision DEF HashIsNumber

\* What the verifier of a proof of knowledge computes back from the answer s + e x:
\* the commitment s to the generator, and the commitment b s to another base b.
Answers(s, x, e, b) ==
    /\ (((s + e * x) % Q) - x * e) % Q = s
    /\ (b * ((s + e * x) % Q) - ((b * x) % Q) * e) % Q = (b * s) % Q

\* The answer to every challenge e verifies.
LEMMA Schnorr ==
  ASSUME NEW s \in Scalars, NEW x \in Int, NEW e \in Int, NEW b \in Int
  PROVE  Answers(s, x, e, b)
  <1> DEFINE f == (s + e * x) % Q
             d == (b * x) % Q
  <1>0. s \in Int /\ s + e * x \in Int /\ b * x \in Int
    BY ScalarMod
  <1>1. f \in Int /\ d \in Int /\ Cong(f, s + e * x) /\ Cong(d, b * x)
    BY <1>0, ModDivision, CongMod
  <1> HIDE DEF f, d
  <1>2. Cong(f - x * e, s)
    <2>1. Cong(f - x * e, (s + e * x) - x * e)
      <3>1. Cong(x * e, x * e) /\ x * e \in Int
        BY DEF Cong
      <3> QED
        BY Zenon, <1>0, <1>1, <3>1, CongArith
    <2>2. (s + e * x) - x * e = s
      BY <1>0
    <2> QED
      BY <2>1, <2>2
  <1>3. Cong(b * f - d * e, b * s)
    <2>1. Cong(b * f, b * (s + e * x)) /\ Cong(d * e, (b * x) * e)
      <3>1. Cong(b, b) /\ Cong(e, e)
        BY DEF Cong
      <3> QED
        BY Zenon, <1>0, <1>1, <3>1, CongArith
    <2>2. Cong(b * f - d * e, b * (s + e * x) - (b * x) * e)
      <3>1. b * f \in Int /\ d * e \in Int /\ b * (s + e * x) \in Int /\ (b * x) * e \in Int
        BY <1>0, <1>1
      <3> QED
        BY Zenon, <2>1, <3>1, CongArith
    <2>3. b * (s + e * x) - (b * x) * e = b * s
      BY <1>0
    <2> QED
      BY <2>2, <2>3
  <1> QED
    BY Zenon, <1>2, <1>3, ScalarMod DEF Cong, Mod, f, d, Answers

\* A factor can be reduced before the product is.
LEMMA ReduceFactor ==
  ASSUME NEW a \in Int, NEW b \in Int
  PROVE  (a * (b % Q)) % Q = (a * b) % Q /\ ((b % Q) * a) % Q = (a * b) % Q
  <1> DEFINE r == b % Q
  <1>1. r \in Int /\ Cong(r, b) /\ Cong(a, a)
    BY Zenon, ModDivision, CongMod DEF Cong
  <1> HIDE DEF r
  <1>2. Cong(a * r, a * b) /\ r * a = a * r
    BY <1>1, CongArith
  <1> QED
    BY <1>2 DEF Cong, Mod, r

\* verify_ciphertext of sg02.rs accepts what encrypt makes.
LEMMA Sg02CiphertextAccepted ==
  ASSUME HashIsNumber, NEW pk, pk.g_bar \in Int, NEW msg, NEW label, NEW k,
         NEW r \in Scalars, NEW s \in Scalars
  PROVE  sg02_verify_ciphertext(sg02_encrypt(msg, label, pk, k, r, s), pk)
  <1> DEFINE ct == sg02_encrypt(msg, label, pk, k, r, s)
             g == pk.g_bar
             e == ct.e
             w_bar == (g * s) % Q
  <1>1. /\ ct.u = r /\ ct.u_bar = (g * r) % Q /\ ct.f = (s + e * r) % Q /\ ct.label = label
        /\ e = sg02_h1(ct.c_k, label, r, s, ct.u_bar, w_bar)
    BY Zenon DEF sg02_encrypt
  <1>2. e \in Int /\ r \in Int /\ g \in Int
    BY Zenon, <1>1, HashScalar, ScalarMod DEF sg02_h1
  <1> HIDE DEF ct, e, g
  <1>3. Answers(s, r, e, g)
    BY <1>2, Schnorr
  <1>4. /\ (ct.f - ct.u * e) % Q = s
        /\ (g * ct.f - ct.u_bar * e) % Q = w_bar
    BY Zenon, <1>1, <1>2, <1>3 DEF Answers
  <1> QED
    BY Zenon, <1>1, <1>4 DEF sg02_verify_ciphertext, ct, e, g

\* verify_share of sg02.rs accepts what partial_decrypt makes with the node's own key.
LEMMA Sg02ShareAccepted ==
  ASSUME HashIsNumber, NEW pk, NEW i, NEW xi \in Int, pk.vk[i] = xi,
         NEW ct, ct.u \in Int, NEW s \in Scalars
  PROVE  sg02_verify_share(i, sg02_partial_decrypt(ct, xi, s), ct, pk)
  <1> DEFINE share == sg02_partial_decrypt(ct, xi, s)
             u == ct.u
             e == share.ei
  <1>1. /\ share.data = (u * xi) % Q
        /\ e = sg02_h2(share.data, (u * s) % Q, s)
        /\ share.fi = (s + xi * e) % Q
    BY Zenon DEF sg02_partial_decrypt
  <1>2. e \in Int /\ u \in Int /\ xi * e = e * xi
    BY <1>1, HashScalar DEF sg02_h2
  <1> HIDE DEF share, u, e
  <1>3. Answers(s, xi, e, u)
    BY Zenon, <1>2, Schnorr
  <1>4. /\ (share.fi - xi * e) % Q = s
        /\ (u * share.fi - share.data * e) % Q = (u * s) % Q
    BY Zenon, <1>1, <1>2, <1>3 DEF Answers
  <1> QED
    BY Zenon, <1>1, <1>4 DEF sg02_verify_share, share, u, e

\* verify_share of cks05.rs accepts what create_share makes with the node's own key.
LEMMA Cks05ShareAccepted ==
  ASSUME HashIsNumber, NEW pk, NEW i, NEW xi \in Int, pk.vk[i] = xi,
         NEW name, NEW s \in Scalars
  PROVE  cks05_verify_share(i, cks05_create_share(name, i, xi, pk, s), name, pk)
  <1> DEFINE share == cks05_create_share(name, i, xi, pk, s)
             h == cks05_H(name)
             c == share.c
  <1>1. /\ share.data = (h * xi) % Q
        /\ c = cks05_H1(xi, s, h, share.data, (h * s) % Q)
        /\ share.z = (s + c * xi) % Q
    BY Zenon DEF cks05_create_share
  <1>2. c \in Int /\ h \in Int
    <2>1. h \in Int
      BY Zenon, HashScalar DEF cks05_H
    <2>2. c \in Nat
      BY Zenon, <1>1 DEF cks05_H1, HashIsNumber
    <2> QED
      BY <2>1, <2>2
  <1> HIDE DEF share, h, c
  <1>3. Answers(s, xi, c, h)
    BY Zenon, <1>2, Schnorr
  <1>4. /\ (share.z - xi * c) % Q = s
        /\ (h * share.z - share.data * c) % Q = (h * s) % Q
    BY Zenon, <1>1, <1>2, <1>3 DEF Answers
  <1> QED
    BY Zenon, <1>1, <1>4 DEF cks05_verify_share, share, h, c

\* verify_ciphertext of bz03.rs accepts what encrypt makes.
LEMMA Bz03CiphertextAccepted ==
  ASSUME HashIsNumber, NEW pk, NEW msg, NEW label, NEW k, NEW r \in Scalars
  PROVE  bz03_verify_ciphertext(bz03_encrypt(msg, label, pk, k, r))
  <1> DEFINE ct == bz03_encrypt(msg, label, pk, k, r)
             h == bz03_h(ct.u, ct.c_k)
  <1>1. ct.u = r /\ ct.hr = (h * r) % Q
    BY Zenon DEF bz03_encrypt
  <1>2. h \in Int /\ r \in Int
    BY Zenon, HashScalar, ScalarMod DEF bz03_h
  <1> HIDE DEF ct, h
  <1>3. h * r \in Int /\ 1 * (h * r) = r * h
    BY <1>2
  <1>4. (1 * ((h * r) % Q)) % Q = (r * h) % Q
    BY <1>3, ReduceFactor
  <1> QED
    BY Zenon, <1>1, <1>4 DEF bz03_verify_ciphertext, ddh, ct, h

\* verify_share of bz03.rs accepts the value partial_decrypt computes and no other.
LEMMA Bz03ShareExact ==
  ASSUME NEW pk, NEW i, NEW xi \in Int, pk.vk[i] = xi, NEW ct, ct.u \in Int,
         NEW d \in Scalars
  PROVE  bz03_verify_share(i, [data |-> d], ct, pk)
            <=> d = bz03_partial_decrypt(ct, xi).data
  <1>1. d \in Int /\ d * 1 = d /\ d % Q = d
    BY ScalarMod DEF Mod
  <1> QED
    BY Zenon, <1>1 DEF bz03_verify_share, bz03_partial_decrypt, ddh

\* verify_share of bls04.rs accepts the value partial_sign computes and no other.
LEMMA Bls04ShareExact ==
  ASSUME NEW pk, NEW i, NEW xi \in Int, pk.vk[i] = xi, NEW msg, NEW d \in Scalars
  PROVE  bls04_verify_share(i, [data |-> d], msg, pk)
            <=> d = bls04_partial_sign(msg, xi).data
  <1>1. d \in Int /\ d * 1 = d /\ d % Q = d
    BY ScalarMod DEF Mod
  <1> QED
    BY Zenon, <1>1 DEF bls04_verify_share, bls04_partial_sign, ddh

\* The masked symmetric key is recovered and opens what was sealed with it.
LEMMA OpenSealed ==
  ASSUME NEW h \in 0 .. 1, NEW k \in 0 .. 1, NEW nonce, NEW msg
  PROVE  open(xor(h, xor(h, k)), nonce, seal(k, nonce, msg)) = msg
  <1>1. xor(h, xor(h, k)) = k
    <2>1. h = 0 \/ h = 1
      OBVIOUS
    <2>2. k = 0 \/ k = 1
      OBVIOUS
    <2> QED
      BY <2>1, <2>2 DEF xor
  <1> QED
    BY Zenon, <1>1 DEF open, seal

\* A hash reduced to the one bit of a symmetric key.
LEMMA HashBit ==
  ASSUME HashIsNumber, NEW d, NEW input
  PROVE  Hash(d, input) % 2 \in 0 .. 1
  BY DEF HashIsNumber

\* From g^(r y), assemble of sg02.rs recovers the message that was encrypted.
LEMMA Sg02Assembles ==
  ASSUME HashIsNumber, NEW k \in 0 .. 1, NEW r \in Scalars, NEW msg, NEW label, NEW s,
         NEW pk, pk.y \in Scalars, NEW sh, interpolate(sh) = (r * pk.y) % Q
  PROVE  sg02_assemble(sh, sg02_encrypt(msg, label, pk, k, r, s)) = msg
  <1> DEFINE y == pk.y
             ry == (y * r) % Q
             h == sg02_h(ry)
             ct == sg02_encrypt(msg, label, pk, k, r, s)
  <1>1. r \in Int /\ y \in Int /\ r * y = y * r
    BY ScalarMod
  <1>2. h \in 0 .. 1
    BY HashBit DEF sg02_h
  <1>3. ct.c_k = xor(h, k) /\ ct.ctxt = seal(k, ry, msg)
    BY Zenon DEF sg02_encrypt
  <1>4. interpolate(sh) = ry
    BY <1>1
  <1> HIDE DEF ry, ct, h
  <1>5. sg02_assemble(sh, ct) = open(xor(h, xor(h, k)), ry, seal(k, ry, msg))
    BY Zenon, <1>3, <1>4 DEF sg02_assemble, h
  <1> QED
    BY <1>2, <1>5, OpenSealed DEF ct

\* From g^(r y), assemble of bz03.rs recovers the message that was encrypted.
LEMMA Bz03Assembles ==
  ASSUME HashIsNumber, NEW k \in 0 .. 1, NEW r \in Scalars, NEW msg, NEW label,
         NEW pk, pk.y \in Scalars, NEW sh, interpolate(sh) = (r * pk.y) % Q
  PROVE  bz03_assemble(sh, bz03_encrypt(msg, label, pk, k, r)) = msg
  <1> DEFINE y == pk.y
             ry == (y * r) % Q
             h == bz03_g(ry)
             ct == bz03_encrypt(msg, label, pk, k, r)
  <1>1. r \in Int /\ y \in Int /\ r * y = y * r
    BY ScalarMod
  <1>2. h \in 0 .. 1
    BY HashBit DEF bz03_g
  <1>3. ct.c_k = xor(h, k) /\ ct.ctxt = seal(k, ry, msg)
    BY Zenon DEF bz03_encrypt
  <1>4. interpolate(sh) = ry
    BY <1>1
  <1> HIDE DEF ry, ct, h
  <1>5. bz03_assemble(sh, ct) = open(xor(h, xor(h, k)), ry, seal(k, ry, msg))
    BY <1>3, <1>4 DEF bz03_assemble, h
  <1> QED
    BY <1>2, <1>5, OpenSealed DEF ct

\* H(m)^x verifies as a signature under g^x.
LEMMA Bls04Verifies ==
  ASSUME HashIsNumber, NEW pk, pk.y \in Scalars, NEW msg, NEW sig,
         sig = (bls04_H(msg) * pk.y) % Q
  PROVE  bls04_verify(sig, pk, msg)
  <1> DEFINE h == bls04_H(msg)
             y == pk.y
  <1>1. h \in Int /\ y \in Int
    BY Zenon, HashScalar, ScalarMod DEF bls04_H
  <1> HIDE DEF h, y
  <1>2. h * y \in Int
    BY <1>1
  <1>3. sig \in Scalars /\ sig = (h * y) % Q
    BY <1>2, ModDivision DEF h, y
  <1>4. sig \in Int /\ sig * 1 = sig /\ sig % Q = sig
    BY <1>3, ScalarMod DEF Mod
  <1> QED
    BY Zenon, <1>3, <1>4 DEF bls04_verify, ddh, h, y

=============================================================================
