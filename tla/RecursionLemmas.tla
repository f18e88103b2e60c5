--------------------------- MODULE RecursionLemmas ---------------------------
(***************************************************************************)
(* Induction over the naturals by a least counterexample, and what follows *)
(* for functions defined by recursion: they exist, and satisfy their       *)
(* equations.  The step of the recursion is a function F, not an operator, *)
(* so that the lemmas can be instantiated.                                 *)
(***************************************************************************)
EXTENDS Integers, WellFoundedInduction, TLAPS

\* A nonempty set of natural numbers has a least member.
LEMMA LeastNat ==
    ASSUME NEW T \in SUBSET Nat, T # {}
    PROVE  \E x \in T : \A y \in T : x <= y
<1> DEFINE R == OpToRel(<, Nat)
<1>1. IsWellFoundedOn(R, Nat)
  BY NatLessThanWellFounded
<1>2. \A y, x \in Nat : y < x => <<y, x>> \in R
  BY DEF OpToRel
<1> HIDE DEF R
<1>3. PICK x \in T : \A y \in T : ~(<<y, x>> \in R)
  BY <1>1, WFMin
<1>4. \A y \in T : ~(y < x)
  BY <1>2, <1>3
<1> QED
  BY <1>4

\* Induction for a set of naturals.
LEMMA SetInduction ==
    ASSUME NEW T \in SUBSET Nat, 0 \in T, \A m \in Nat : m \in T => m + 1 \in T
    PROVE  T = Nat
<1> SUFFICES ASSUME Nat \ T # {} PROVE FALSE
  OBVIOUS
<1>1. PICK m \in Nat \ T : \A y \in Nat \ T : m <= y
  BY LeastNat
<1>2. m # 0 /\ m - 1 \in Nat
  BY <1>1
<1>3. m - 1 \in T
  BY <1>1, <1>2
<1> QED
  BY <1>2, <1>3

\* f is the function on 0 .. m that starts with c and goes on by F.
Follows(f, m, c, F) ==
    f = [n \in 0 .. m |-> IF n = 0 THEN c ELSE F[<<n, f[n - 1]>>]]

\* Such a function exists, whatever the step does ...
LEMMA FollowsExists ==
    ASSUME NEW c, NEW F, NEW m \in Nat
    PROVE  \E f : Follows(f, m, c, F)
<1> DEFINE Has(k) == \E f : Follows(f, k, c, F)
           T == {k \in Nat : Has(k)}
<1>1. Has(0)
  <2>1. Follows([n \in 0 .. 0 |-> c], 0, c, F)
    BY DEF Follows
  <2> QED
    BY <2>1
<1>2. ASSUME NEW k \in Nat, Has(k)
      PROVE  Has(k + 1)
  <2>1. PICK f : Follows(f, k, c, F)
    BY <1>2
  <2> DEFINE h == [n \in 0 .. (k + 1) |-> IF n = k + 1 THEN F[<<k + 1, f[k]>>] ELSE f[n]]
  <2>2. \A n \in 0 .. k : f[n] = IF n = 0 THEN c ELSE F[<<n, f[n - 1]>>]
    BY <2>1 DEF Follows
  <2>3. ASSUME NEW n \in 0 .. (k + 1)
        PROVE  h[n] = IF n = 0 THEN c ELSE F[<<n, h[n - 1]>>]
    <3>1. CASE n = k + 1
      <4>1. h[n] = F[<<k + 1, f[k]>>] /\ h[k] = f[k] /\ n # 0 /\ n - 1 = k
        BY <1>2, <3>1
      <4> QED
        BY <3>1, <4>1
    <3>2. CASE n # k + 1
      <4>1. n \in 0 .. k /\ h[n] = f[n] /\ (n # 0 => h[n - 1] = f[n - 1])
        BY <1>2, <2>3, <3>2
      <4> QED
        BY <2>2, <4>1
    <3> QED
      BY <3>1, <3>2
  <2>4. Follows(h, k + 1, c, F)
    <3>1. h = [n \in 0 .. (k + 1) |-> h[n]]
      OBVIOUS
    <3> HIDE DEF h
    <3> QED
      BY <2>3, <3>1 DEF Follows
  <2> QED
    BY <2>4
<1> HIDE DEF Has
<1>3. T = Nat
  <2>1. T \in SUBSET Nat /\ 0 \in T /\ \A k \in Nat : k \in T => k + 1 \in T
    BY <1>1, <1>2
  <2> HIDE DEF T
  <2> QED
    BY <2>1, SetInduction
<1>4. Has(m)
  BY <1>3
<1> QED
  BY <1>4 DEF Has

\* ... and the values of two of them agree where both are defined.
LEMMA FollowsUnique ==
    ASSUME NEW c, NEW F, NEW m \in Nat, NEW k \in Nat, NEW f, NEW g,
           Follows(f, m, c, F), Follows(g, k, c, F)
    PROVE  \A n \in Nat : n <= m /\ n <= k => f[n] = g[n]
<1> DEFINE T == {n \in Nat : n <= m /\ n <= k => f[n] = g[n]}
<1>1. 0 \in T
  BY DEF Follows
<1>2. ASSUME NEW n \in Nat, n \in T
      PROVE  n + 1 \in T
  <2> SUFFICES ASSUME n + 1 <= m, n + 1 <= k PROVE f[n + 1] = g[n + 1]
    OBVIOUS
  <2>1. f[n] = g[n]
    BY <1>2
  <2>2. f[n + 1] = F[<<n + 1, f[n]>>] /\ g[n + 1] = F[<<n + 1, g[n]>>]
    BY <1>2 DEF Follows
  <2> QED
    BY <2>1, <2>2
<1>3. T = Nat
  <2> HIDE DEF T
  <2>1. T \in SUBSET Nat
    BY DEF T
  <2> QED
    BY <1>1, <1>2, <2>1, SetInduction
<1> QED
  BY <1>3

\* The same for a function on all naturals.
Recurs(f, c, F) ==
    f = [n \in Nat |-> IF n = 0 THEN c ELSE F[<<n, f[n - 1]>>]]

\* It exists ...
LEMMA RecursionExists ==
    ASSUME NEW c, NEW F
    PROVE  \E f : Recurs(f, c, F)
<1> DEFINE H(m) == CHOOSE f : Follows(f, m, c, F)
           g == [n \in Nat |-> H(n)[n]]
<1>1. \A m \in Nat : Follows(H(m), m, c, F)
  BY FollowsExists
<1> HIDE DEF H
<1>2. g[0] = c
  <2>1. Follows(H(0), 0, c, F)
    BY <1>1
  <2>2. H(0)[0] = c
    BY <2>1 DEF Follows
  <2> QED
    BY <2>2
<1>3. ASSUME NEW n \in Nat, n # 0
      PROVE  g[n] = F[<<n, g[n - 1]>>]
  <2>1. n - 1 \in Nat
    BY <1>3
  <2>2. H(n)[n] = F[<<n, H(n)[n - 1]>>]
    BY <1>1, <1>3 DEF Follows
  <2>3. H(n)[n - 1] = H(n - 1)[n - 1]
    BY <1>1, <2>1, FollowsUnique
  <2> QED
    BY <2>1, <2>2, <2>3
<1>4. Recurs(g, c, F)
  BY <1>2, <1>3 DEF Recurs
<1> QED
  BY <1>4

\* The values have the type that the step keeps.
LEMMA FollowsTyped ==
    ASSUME NEW V, NEW c \in V, NEW F \in [Nat \X V -> V], NEW m \in Nat, NEW f,
           Follows(f, m, c, F)
    PROVE  f \in [0 .. m -> V]
<1> DEFINE T == {n \in Nat : n <= m => f[n] \in V}
<1>1. 0 \in T
  BY DEF Follows
<1>2. ASSUME NEW n \in Nat, n \in T
      PROVE  n + 1 \in T
  <2> SUFFICES ASSUME n + 1 <= m PROVE f[n + 1] \in V
    OBVIOUS
  <2>1. f[n + 1] = F[<<n + 1, f[n]>>]
    BY <1>2 DEF Follows
  <2>2. f[n] \in V /\ n + 1 \in Nat
    BY <1>2
  <2> QED
    BY <2>1, <2>2
<1>3. T = Nat
  <2>1. T \in SUBSET Nat
    OBVIOUS
  <2> HIDE DEF T
  <2> QED
    BY <1>1, <1>2, <2>1, SetInduction
<1>4. \A n \in 0 .. m : f[n] \in V
  BY <1>3
<1> QED
  BY <1>4 DEF Follows

\* ... and has the type that the step keeps.
LEMMA RecursionTyped ==
    ASSUME NEW V, NEW c \in V, NEW F \in [Nat \X V -> V], NEW f,
           Recurs(f, c, F)
    PROVE  f \in [Nat -> V]
<1> DEFINE T == {n \in Nat : f[n] \in V}
<1>0. f[0] = c /\ \A n \in Nat : f[n + 1] = F[<<n + 1, f[n]>>]
  BY DEF Recurs
<1>1. 0 \in T
  BY <1>0
<1>2. ASSUME NEW n \in Nat, n \in T
      PROVE  n + 1 \in T
  <2>1. f[n] \in V /\ n + 1 \in Nat
    BY <1>2
  <2> QED
    BY <1>0, <2>1
<1>3. T = Nat
  <2>1. T \in SUBSET Nat
    OBVIOUS
  <2> HIDE DEF T
  <2> QED
    BY <1>1, <1>2, <2>1, SetInduction
<1>4. \A n \in Nat : f[n] \in V
  BY <1>3
<1> QED
  BY <1>4 DEF Recurs

=============================================================================
