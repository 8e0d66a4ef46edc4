----------------------------- MODULE MCHmapMput -----------------------------
(***************************************************************************)
(* Instances of HmapMput for TLC.  Three keys in three buckets, of which   *)
(* any may hash to the last one; the third makes the map grow.             *)
(***************************************************************************)
EXTENDS HmapMput

CONSTANTS k1, k2, k3

(* Two batches of two: a key twice in a batch or in two batches, keys that  *)
(* are new beside keys that are there, and a batch that makes the map grow. *)
SomeTriples ==
  {<<k1, k1, k2>>, <<k2, k1, k2>>, <<k1, k2, k1>>, <<k3, k2, k2>>, <<k2, k3, k1>>}

(* There is a size to round to, for the first few numbers (SizesExist of    *)
(* LoopProofs, which the proofs need for all).                             *)
ASSUME SizesFound == \A n \in 2..200 : prime_geq(n) \in (n + 1)..(4 * n + 3)
=============================================================================
