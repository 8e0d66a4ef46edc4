------------------------------ MODULE MCRsHmap ------------------------------
(***************************************************************************)
(* Instances of RsHmap for TLC.  Four keys, of which any may hash to the   *)
(* same bucket and to the last one, so that probes wrap around; the marks  *)
(* are close to each other, so that the few keys there are make the map    *)
(* grow and shrink, to 3, 7 and 5 buckets, and reach its maximum.          *)
(***************************************************************************)
EXTENDS RsHmap, TLC

CONSTANTS k1, k2, k3, k4, zero, va, vb

(* The buckets of a second map that holds two keys. *)
TwoPairs == {<<<<p[1], va>>, <<p[2], vb>>>> : p \in {q \in Keys \X Keys : q[1] # q[2]}}

KeySymmetry == Permutations(Keys)

(* There is a size to round to, for the first few numbers (SizesExist of    *)
(* LoopProofs, which the proofs need for all).                             *)
ASSUME SizesFound == \A n \in 2..200 : prime_geq(n) \in (n + 1)..(4 * n + 3)
=============================================================================
