----------------------------- MODULE LoopProofs -----------------------------
(***************************************************************************)
(* Lemmas about loops: induction, by the least number for which a claim    *)
(* would fail; that the function Loop chooses exists; and that what every  *)
(* round keeps is kept by the loop.  And what the proofs about the two     *)
(* hash maps suppose of the sizes they round to.                           *)
(***************************************************************************)
EXTENDS HashUtil, WellFoundedInduction, TLAPS

(* Induction, for a set of numbers.  *)
LEMMA NatSet ==
  ASSUME NEW T \in SUBSET Nat, 0 \in T, \A n \in T : n + 1 \in T
  PROVE  Nat \subseteq T
<1> DEFINE U == Nat \ T
<1> SUFFICES ASSUME U # {} PROVE FALSE
  OBVIOUS
<1>1. IsWellFoundedOn(OpToRel(<, Nat), Nat)
  BY NatLessThanWellFounded
<1>2. PICK R : R = OpToRel(<, Nat)
  OBVIOUS
<1>3. PICK x \in U : \A y \in U : ~(<<y, x>> \in R)
  BY <1>1, <1>2, WFMin, Zenon
<1>4. x - 1 \in U /\ x - 1 < x
  OBVIOUS
<1>5. <<x - 1, x>> \in R
  BY <1>2, <1>4 DEF OpToRel
<1> QED BY <1>3, <1>4, <1>5

\* g[i] is what i rounds of F make of init, up to n rounds
Iterated(g, F, init, n) == g = [i \in 0..n |-> IF i = 0 THEN init ELSE F[g[i - 1]]]

(* A function can be applied again and again.                              *)
LEMMA Iterates == \A F, init : \A n \in Nat : \E g : Iterated(g, F, init, n)
<1> SUFFICES ASSUME NEW F, NEW init PROVE \A n \in Nat : \E g : Iterated(g, F, init, n)
  OBVIOUS
<1> DEFINE T == {n \in Nat : \E g : Iterated(g, F, init, n)}
<1>1. 0 \in T
  <2>1. PICK g : g = [i \in 0..0 |-> init]
    OBVIOUS
  <2>2. Iterated(g, F, init, 0)
    BY <2>1 DEF Iterated
  <2> QED BY <2>2
<1>2. ASSUME NEW n \in T PROVE n + 1 \in T
  <2>1. PICK g : Iterated(g, F, init, n)
    OBVIOUS
  <2>2. PICK h : h = [i \in 0..(n + 1) |-> IF i = n + 1 THEN F[g[n]] ELSE g[i]]
    OBVIOUS
  <2>3. ASSUME NEW i \in 0..(n + 1) PROVE h[i] = IF i = 0 THEN init ELSE F[h[i - 1]]
    <3>1. CASE i = n + 1
      <4>1. h[i] = F[g[n]] /\ h[i - 1] = g[n] /\ i # 0
        BY <2>2, <3>1
      <4> QED BY <4>1
    <3>2. CASE i # n + 1
      <4>1. i \in 0..n /\ (i # 0 => i - 1 \in 0..n)
        BY <3>2
      <4>2. h[i] = g[i] /\ (i # 0 => h[i - 1] = g[i - 1])
        BY <2>2, <4>1
      <4> QED BY <2>1, <4>1, <4>2 DEF Iterated
    <3> QED BY <3>1, <3>2
  <2>4. Iterated(h, F, init, n + 1)
    BY <2>2, <2>3 DEF Iterated
  <2> QED BY <2>4
<1> HIDE DEF T
<1>3. T \in SUBSET Nat
  BY DEF T
<1>4. Nat \subseteq T
  BY <1>1, <1>2, <1>3, NatSet
<1> QED BY <1>4 DEF T

(* What a loop makes of its state stays right if every round keeps it so.  *)
LEMMA RoundsStay ==
  ASSUME NEW n \in Nat, NEW W, NEW A, A[0] \in W[0],
         \A i \in 1..n : A[i - 1] \in W[i - 1] => A[i] \in W[i]
  PROVE  \A i \in 0..n : A[i] \in W[i]
<1> DEFINE T == {i \in Nat : i <= n => A[i] \in W[i]}
<1>1. 0 \in T
  OBVIOUS
<1>2. ASSUME NEW i \in T PROVE i + 1 \in T
  <2>1. i + 1 \in Nat /\ (i + 1) - 1 = i
    OBVIOUS
  <2>2. PICK j : j = i + 1
    OBVIOUS
  <2>3. j <= n => j \in 1..n /\ A[j - 1] \in W[j - 1]
    BY <2>1, <2>2
  <2> QED BY <2>1, <2>2, <2>3
<1> HIDE DEF T
<1>3. T \in SUBSET Nat
  BY DEF T
<1>4. Nat \subseteq T
  BY <1>1, <1>2, <1>3, NatSet
<1> QED BY <1>4 DEF T

(* A set of numbers has a least element.                                   *)
LEMMA LeastNat ==
  ASSUME NEW T \in SUBSET Nat, T # {}
  PROVE  \E x \in T : \A y \in T : x <= y
<1>1. IsWellFoundedOn(OpToRel(<, Nat), Nat)
  BY NatLessThanWellFounded
<1>2. PICK R : R = OpToRel(<, Nat)
  OBVIOUS
<1>3. PICK x \in T : \A y \in T : ~(<<y, x>> \in R)
  BY <1>1, <1>2, WFMin, Zenon
<1>4. ASSUME NEW y \in T, y < x PROVE <<y, x>> \in R
  BY <1>2, <1>4 DEF OpToRel
<1>5. ASSUME NEW y \in T PROVE x <= y
  <2>1. ~(y < x)
    BY <1>3, <1>4, Zenon
  <2> QED BY <2>1
<1> QED BY <1>5

(* A function that stays in a set can be applied again and again in it.    *)
LEMMA Runs ==
  ASSUME NEW S, NEW F, NEW init \in S, \A s \in S : F[s] \in S, NEW n \in Nat
  PROVE  \E g : Iterated(g, F, init, n) /\ \A i \in 0..n : g[i] \in S
<1>1. PICK g : Iterated(g, F, init, n)
  BY Iterates
<1>2. PICK W : W = [i \in 0..n |-> S]
  OBVIOUS
<1>3. g[0] \in W[0] /\ \A i \in 1..n : g[i - 1] \in W[i - 1] => g[i] \in W[i]
  BY <1>1, <1>2 DEF Iterated
<1>4. \A i \in 0..n : g[i] \in W[i]
  BY <1>3, RoundsStay
<1> QED BY <1>1, <1>2, <1>4

-----------------------------------------------------------------------------
\* what prime_geq looks for exists: between an even number and its double there
\* is a prime (Bertrand's postulate, which is beyond these provers), and between
\* an odd one and its double a power of 2
SizesExist == \A n \in Nat \ {0, 1} : prime_geq(n) \in (n + 1)..(4 * n + 3)

(* A size is never 0.                                                      *)
LEMMA SizesPositive ==
  ASSUME SizesExist, NEW n \in Nat
  PROVE  prime_geq(n) \in Nat \ {0}
<1>1. CASE n <= 1
  BY <1>1 DEF prime_geq
<1>2. CASE ~(n <= 1)
  <2>1. prime_geq(n) \in (n + 1)..(4 * n + 3)
    BY <1>2 DEF SizesExist
  <2> QED BY <2>1
<1> QED BY <1>1, <1>2
=============================================================================
