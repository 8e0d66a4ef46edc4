------------------------------ MODULE HashUtil ------------------------------
(***************************************************************************)
(* What the two hash maps of the repository, TMPL_FIX_HASHMAP and HASHMAP, *)
(* have in common: loops, water marks and the sizes they round to.         *)
(***************************************************************************)
EXTENDS Integers

Percent(p, n) == (p * n) \div 100

(* A loop of at most n rounds, each of which takes one step.  The CHOOSE has *)
(* one element to choose from; it makes TLC evaluate each round once.       *)
Loop(step(_), n, s) ==
  LET after[i \in 0..n] == IF i = 0 THEN s ELSE CHOOSE x \in {step(p) : p \in {after[i - 1]}} : TRUE
  IN  after[n]

(* The number prime_geq stops at: it means to start from an odd number, but *)
(* its test n % 0x1 is never 1 and so it always starts from n + 1.          *)
prime_geq(n) ==
  LET Passes(m) == \A k \in 3..m : k % 2 = 1 /\ k * k <= m => m % k # 0
      ms == {m \in (n + 1)..(4 * n + 3) : (m - n) % 2 = 1 /\ Passes(m)}
  IN  IF n <= 1 THEN 1 ELSE CHOOSE m \in ms : \A o \in ms : m <= o

MinOf(a, b) == IF a < b THEN a ELSE b
=============================================================================
