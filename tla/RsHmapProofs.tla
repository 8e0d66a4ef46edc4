---------------------------- MODULE RsHmapProofs ----------------------------
(***************************************************************************)
(* Proof that the Robin-Hood hash map is a map: whatever its size, hashes, *)
(* keys and marks, and after any calls, the psl of a key is its distance   *)
(* from home and grows by at most one from a bucket to the next; so get    *)
(* and del find exactly the keys that are there, rs_hmap_chk has nothing   *)
(* to say, and put, del and merge do what HMap says.                       *)
(*                                                                         *)
(* The argument follows a call.  An insertion carries a key, or those it   *)
(* robs of their buckets, towards an empty bucket that is always there; a  *)
(* deletion moves a hole from bucket to bucket, which is the only place    *)
(* where the chain is broken; a resize inserts every key into an array     *)
(* that has room for all; and the number of keys is the number of pairs.   *)
(***************************************************************************)
EXTENDS RsHmap, LoopProofs, FiniteSetTheorems

-----------------------------------------------------------------------------
(* Places in an array of n buckets, which goes around.                     *)

Locs(n) == 0..(n - 1)

\* how far a is beyond b
Off(n, a, b) == IF a >= b THEN a - b ELSE a - b + n

Prev(n, i) == IF i = 0 THEN n - 1 ELSE i - 1

After(n, i) == IF i + 1 = n THEN 0 ELSE i + 1

(* The remainders of the code are such distances.                          *)
LEMMA Remainders ==
  ASSUME NEW n \in Nat \ {0}, NEW a \in Locs(n), NEW b \in Locs(n)
  PROVE  /\ (a - b) % n = Off(n, a, b) /\ Off(n, a, b) \in Locs(n)
         /\ (a - 1) % n = Prev(n, a) /\ Prev(n, a) \in Locs(n)
         /\ After(n, a) \in Locs(n) /\ Prev(n, After(n, a)) = a /\ After(n, Prev(n, a)) = a
<1>1. (a - b) % n = Off(n, a, b)
  <2>1. a \in 0..(n - 1) /\ b \in 0..(n - 1)
    BY DEF Locs
  <2>2. CASE a >= b
    BY <2>1, <2>2 DEF Off
  <2>3. CASE a < b
    BY <2>1, <2>3 DEF Off
  <2> QED BY <2>1, <2>2, <2>3
<1>2. Off(n, a, b) \in Locs(n)
  BY DEF Off, Locs
<1>3. (a - 1) % n = Prev(n, a) /\ Prev(n, a) \in Locs(n)
  <2>1. CASE a = 0
    <3>1. (-1) % n = n - 1
      OBVIOUS
    <3> QED BY <2>1, <3>1 DEF Prev, Locs
  <2>2. CASE a # 0
    BY <2>2 DEF Prev, Locs
  <2> QED BY <2>1, <2>2
<1>4. After(n, a) \in Locs(n) /\ Prev(n, After(n, a)) = a /\ After(n, Prev(n, a)) = a
  BY DEF After, Prev, Locs
<1> QED BY <1>1, <1>2, <1>3, <1>4

(* Two places, l and j, at distances p and q from h.                       *)
LEMMA Distances ==
  ASSUME NEW n \in Nat \ {0}, NEW h \in Locs(n), NEW l \in Locs(n), NEW j \in Locs(n),
         NEW p \in Int, p = Off(n, l, h), NEW q \in Int, q = Off(n, j, h), p <= q
  PROVE  Off(n, j, q - p) = l /\ (l = j <=> p = q)
<1>1. h \in 0..(n - 1) /\ l \in 0..(n - 1) /\ j \in 0..(n - 1)
  BY DEF Locs
<1>2. CASE l >= h
  BY <1>1, <1>2 DEF Off
<1>3. CASE l < h
  BY <1>1, <1>3 DEF Off
<1> QED BY <1>1, <1>2, <1>3

-----------------------------------------------------------------------------
(* Arrays of buckets.                                                      *)

Bkt == [full : BOOLEAN, key : Keys \cup {ZeroKey}, val : Vals \cup {NoVal}, psl : Nat]

Arrays(n) == [Locs(n) -> Bkt]

Full(n, f) == {i \in Locs(n) : f[i].full}

\* what the buckets hold
Pairs(n, f) == {<<f[i].key, f[i].val>> : i \in Full(n, f)}

\* psl is how far a key is from home; w[k] is the home of k
AtPsl(n, w, f) ==
  \A i \in Locs(n) :
    IF f[i].full
    THEN f[i].key \in Keys /\ f[i].val \in Vals /\ f[i].psl = Off(n, i, w[f[i].key])
    ELSE f[i] = EmptyBkt

\* bucket i is not emptier, nor closer to home, than a key that is p from home
\* in the next bucket allows for
Leads(f, i, p) == p > 0 => f[i].full /\ f[i].psl >= p - 1

Chained(n, f) == \A i \in Full(n, f) : Leads(f, Prev(n, i), f[i].psl)

Unique(n, f) == \A i, j \in Full(n, f) : f[i].key = f[j].key => i = j

Placed(n, w, f) == f \in Arrays(n) /\ AtPsl(n, w, f) /\ Chained(n, f) /\ Unique(n, f)

Homes(n) == [Keys -> Locs(n)]

(* All buckets between a key and its home are full, of keys that are no    *)
(* closer to their home.                                                   *)
LEMMA ChainBack ==
  ASSUME NEW n \in Nat \ {0}, NEW f \in Arrays(n), Chained(n, f), NEW i \in Full(n, f),
         f[i].psl < n
  PROVE  \A d \in 0..f[i].psl : f[Off(n, i, d)].full /\ f[Off(n, i, d)].psl >= f[i].psl - d
<1>1. i \in Locs(n) /\ f[i].psl \in Nat
  BY DEF Full, Arrays, Bkt
<1>2. PICK p \in Nat : p = f[i].psl /\ p < n
  BY <1>1
<1> DEFINE T == {d \in Nat : d <= p => f[Off(n, i, d)].full /\ f[Off(n, i, d)].psl >= p - d}
<1>3. 0 \in T
  <2>1. Off(n, i, 0) = i
    BY <1>1 DEF Off, Locs
  <2> QED BY <1>2, <2>1 DEF Full
<1>4. ASSUME NEW d \in T PROVE d + 1 \in T
  <2> SUFFICES ASSUME d + 1 <= p
               PROVE  f[Off(n, i, d + 1)].full /\ f[Off(n, i, d + 1)].psl >= p - (d + 1)
    OBVIOUS
  <2>1. PICK a \in Locs(n) : a = Off(n, i, d)
    BY <1>1, <1>2 DEF Off, Locs
  <2>2. f[a].full /\ f[a].psl >= p - d /\ f[a].psl \in Nat
    BY <2>1 DEF Arrays, Bkt
  <2>3. Off(n, i, d + 1) = Prev(n, a)
    BY <1>1, <1>2, <2>1 DEF Off, Prev, Locs
  <2>4. Leads(f, Prev(n, a), f[a].psl)
    BY <2>1, <2>2 DEF Chained, Full
  <2>5. Prev(n, a) \in Locs(n)
    BY <2>1 DEF Prev, Locs
  <2>6. f[Prev(n, a)].psl \in Nat
    BY <2>5 DEF Arrays, Bkt
  <2> QED BY <2>2, <2>3, <2>4, <2>6 DEF Leads
<1> HIDE DEF T
<1>5. T \in SUBSET Nat
  BY DEF T
<1>6. Nat \subseteq T
  BY <1>3, <1>4, <1>5, NatSet
<1> QED BY <1>2, <1>6 DEF T

(* A search that has not come to the key it looks for yet is at a full     *)
(* bucket, whose key is not closer to its home than the search is.         *)
LEMMA NotYet ==
  ASSUME NEW n \in Nat \ {0}, NEW w \in Homes(n), NEW f, Placed(n, w, f),
         NEW j \in Full(n, f), NEW l \in Locs(n), NEW p \in Nat,
         p = Off(n, l, w[f[j].key]), p <= f[j].psl
  PROVE  /\ f[l].full /\ f[l].psl >= p
         /\ f[l].key = f[j].key <=> p = f[j].psl
<1>1. j \in Locs(n) /\ f[j].full /\ f[j].key \in Keys /\ f[j].psl = Off(n, j, w[f[j].key])
  BY DEF Full, Placed, AtPsl
<1>2. PICK h \in Locs(n) : h = w[f[j].key]
  BY <1>1 DEF Homes
<1>3. PICK q \in Nat : q = f[j].psl /\ q = Off(n, j, h) /\ q < n /\ p <= q
  <2>1. Off(n, j, h) \in 0..(n - 1)
    BY <1>1, Remainders DEF Locs
  <2> QED BY <1>1, <1>2, <2>1
<1>4. PICK d \in 0..q : d = q - p
  BY <1>3
<1>5. Off(n, j, q - p) = l /\ (l = j <=> p = q)
  <2>1. p = Off(n, l, h)
    BY <1>2
  <2> QED BY <1>1, <1>3, <2>1, Distances
<1>6. f[l].full /\ f[l].psl >= q - d
  <2>1. \A x \in 0..q : f[Off(n, j, x)].full /\ f[Off(n, j, x)].psl >= q - x
    BY <1>3, ChainBack DEF Placed
  <2> QED BY <1>4, <1>5, <2>1
<1>7. f[l].psl \in Nat
  BY DEF Placed, Arrays, Bkt
<1>8. f[l].key = f[j].key <=> l = j
  BY <1>6 DEF Placed, Unique, Full
<1>9. f[l].psl >= p
  BY <1>3, <1>4, <1>6, <1>7
<1> QED BY <1>3, <1>5, <1>6, <1>8, <1>9

(* A full bucket is nearer to its key's home than to an empty bucket.      *)
LEMMA EmptyAhead ==
  ASSUME NEW n \in Nat \ {0}, NEW w \in Homes(n), NEW f, Placed(n, w, f),
         NEW z \in Locs(n), ~f[z].full, NEW l \in Full(n, f)
  PROVE  f[l].psl \in Nat /\ f[l].psl < Off(n, l, z) /\ f[l].psl + 1 < n
<1>1. l \in Locs(n) /\ f[l].full /\ f[l].key \in Keys /\ f[l].psl = Off(n, l, w[f[l].key])
  BY DEF Full, Placed, AtPsl
<1>2. PICK q \in Nat : q = f[l].psl /\ q < n
  <2>1. Off(n, l, w[f[l].key]) \in Locs(n)
    BY <1>1, Remainders DEF Homes
  <2> QED BY <1>1, <2>1 DEF Locs
<1>3. PICK d \in Nat : d = Off(n, l, z) /\ d < n /\ Off(n, l, d) = z
  <2>1. l \in 0..(n - 1) /\ z \in 0..(n - 1)
    BY <1>1 DEF Locs
  <2>2. CASE l >= z
    BY <2>1, <2>2 DEF Off
  <2>3. CASE l < z
    BY <2>1, <2>3 DEF Off
  <2> QED BY <2>2, <2>3, <2>1
<1>4. \A x \in 0..q : f[Off(n, l, x)].full
  BY <1>2, ChainBack DEF Placed
<1>5. ~(d <= q)
  BY <1>3, <1>4
<1> QED BY <1>2, <1>3, <1>5

\* k has been looked for from its home up to l, which is p buckets on
Seeking(n, w, f, k, l, p) ==
  p = Off(n, l, w[k]) /\ \A j \in Full(n, f) : f[j].key = k => p <= f[j].psl

(* What a bucket that is looked at says about the key.                     *)
LEMMA Seek ==
  ASSUME NEW n \in Nat \ {0}, NEW w \in Homes(n), NEW f, Placed(n, w, f),
         NEW z \in Locs(n), ~f[z].full, NEW k \in Keys,
         NEW l \in Locs(n), NEW p \in Nat, Seeking(n, w, f, k, l, p)
  PROVE  /\ ~f[l].full \/ p > f[l].psl => \A j \in Full(n, f) : f[j].key # k
         /\ f[l].full /\ f[l].key # k /\ ~(p > f[l].psl) =>
              Seeking(n, w, f, k, After(n, l), p + 1)
<1>1. ASSUME NEW j \in Full(n, f), f[j].key = k
      PROVE  /\ f[l].full /\ f[l].psl >= p /\ p \in Nat /\ f[j].psl \in Nat /\ p <= f[j].psl
             /\ f[l].key = k <=> p = f[j].psl
  <2>1. p = Off(n, l, w[f[j].key]) /\ p <= f[j].psl
    BY <1>1 DEF Seeking
  <2>2. f[j].psl \in Nat
    BY DEF Placed, Arrays, Bkt, Full
  <2> QED BY <1>1, <2>1, <2>2, NotYet
<1>2. f[l].psl \in Nat
  BY DEF Placed, Arrays, Bkt
<1>3. ASSUME f[l].full, f[l].key # k, ~(p > f[l].psl)
      PROVE  Seeking(n, w, f, k, After(n, l), p + 1)
  <2>1. l \in Full(n, f)
    BY <1>3 DEF Full
  <2>2. p + 1 < n
    BY <1>3, <2>1, EmptyAhead
  <2>3. PICK h \in Locs(n) : h = w[k]
    BY DEF Homes
  <2>4. p = Off(n, l, h)
    BY <2>3 DEF Seeking
  <2>5. p + 1 = Off(n, After(n, l), h)
    BY <2>2, <2>4 DEF Off, After, Locs
  <2>6. \A j \in Full(n, f) : f[j].key = k => p + 1 <= f[j].psl
    BY <1>1, <1>3
  <2> QED BY <2>3, <2>5, <2>6 DEF Seeking
<1> QED BY <1>1, <1>2, <1>3

-----------------------------------------------------------------------------
(* The two searches.                                                       *)

Structs(n) == [size : {n}, nitems : Int, hash : [Keys -> Hashes], bkts : Arrays(n),
               status : {0, -1}]

HomesOf(h) == [k \in Keys |-> h.hash[k] % h.size]

\* a table of n buckets, which keeps to the rules
Sound(n, h) == h \in Structs(n) /\ Placed(n, HomesOf(h), h.bkts)

Has(n, f, k) == \E j \in Full(n, f) : f[j].key = k

(* The parts of a table.                                                   *)
LEMMA StructParts ==
  ASSUME NEW n \in Nat \ {0}, NEW h \in Structs(n)
  PROVE  /\ h.size = n /\ h.nitems \in Int /\ h.hash \in [Keys -> Hashes]
         /\ h.bkts \in Arrays(n) /\ h.status \in {0, -1}
         /\ HomesOf(h) \in Homes(n)
         /\ \A k \in Keys : probe_loc(h, k) = HomesOf(h)[k]
         /\ \A i \in Locs(n) : NextLoc(h, i) = After(n, i) /\ NextLoc(h, i) \in Locs(n)
<1>1. /\ h.size = n /\ h.nitems \in Int /\ h.hash \in [Keys -> Hashes]
      /\ h.bkts \in Arrays(n) /\ h.status \in {0, -1}
  BY DEF Structs
<1>2. \A k \in Keys : h.hash[k] \in Nat
  BY <1>1, ConfigAssumption DEF ConfigAssumption
<1>3. \A k \in Keys : h.hash[k] % n \in Locs(n)
  BY <1>2 DEF Locs
<1>4. \A i \in Locs(n) : NextLoc(h, i) = After(n, i) /\ NextLoc(h, i) \in Locs(n)
  BY <1>1 DEF NextLoc, After, Locs
<1> QED BY <1>1, <1>3, <1>4 DEF HomesOf, Homes, probe_loc

\* where a search is
Places(n) == [loc : Locs(n), psl : Nat, done : BOOLEAN, found : BOOLEAN]

DelStart(h, k) == [loc |-> probe_loc(h, k), psl |-> 0, done |-> FALSE, found |-> FALSE]

DelStep(h, k, s) ==
  LET b == h.bkts[s.loc]
  IN  IF s.done THEN s
      ELSE IF ~b.full \/ s.psl > b.psl THEN [s EXCEPT !.done = TRUE]
      ELSE IF b.key = k THEN [s EXCEPT !.done = TRUE, !.found = TRUE]
      ELSE [s EXCEPT !.psl = @ + 1, !.loc = NextLoc(h, s.loc)]

(* Each round of the search of del is a DelStep.                           *)
LEMMA DelRuns ==
  ASSUME NEW n \in Nat \ {0}, NEW h \in Structs(n), NEW k \in Keys
  PROVE  \E g : /\ DelLoc(h, k) = g[n] /\ g[0] = DelStart(h, k) /\ \A i \in 0..n : g[i] \in Places(n)
                /\ \A i \in 1..n : g[i] = DelStep(h, k, g[i - 1])
<1> DEFINE step(s) == DelStep(h, k, s)
           init == DelStart(h, k)
           S == Places(n)
<1>1. init \in S
  BY StructParts DEF DelStart, Places, Homes
<1>2. \A s \in S : step(s) \in S
  <2> SUFFICES ASSUME NEW s \in S PROVE step(s) \in S
    OBVIOUS
  <2>1. PICK l \in Locs(n), p \in Nat : l = s.loc /\ p = s.psl + 1
    BY DEF Places
  <2>2. NextLoc(h, l) \in Locs(n)
    BY StructParts
  <2>3. PICK a \in Locs(n) : a = NextLoc(h, l)
    BY <2>2
  <2>4. /\ [s EXCEPT !.done = TRUE] \in Places(n)
        /\ [s EXCEPT !.done = TRUE, !.found = TRUE] \in Places(n)
        /\ [s EXCEPT !.psl = p, !.loc = a] \in Places(n)
    BY DEF Places
  <2> QED BY <2>1, <2>3, <2>4 DEF DelStep
<1>3. DelLoc(h, k) = Loop(step, n, init)
  BY StructParts DEF DelLoc, DelStep, DelStart
<1> HIDE DEF step, init, S
<1> DEFINE body(g, i) == IF i = 0 THEN init
                         ELSE CHOOSE y \in {step(p) : p \in {g[i - 1]}} : TRUE
           A == CHOOSE g : g = [i \in 0..n |-> body(g, i)]
<1>4. DelLoc(h, k) = A[n]
  BY <1>3 DEF Loop
<1>5. ASSUME NEW g, NEW i \in 0..n
      PROVE  body(g, i) = IF i = 0 THEN init ELSE step(g[i - 1])
  OBVIOUS
<1> HIDE DEF body
<1>6. \E g : g = [i \in 0..n |-> body(g, i)]
  <2>1. PICK F : F = [s \in S |-> step(s)]
    OBVIOUS
  <2>2. PICK g : Iterated(g, F, init, n) /\ \A i \in 0..n : g[i] \in S
    BY <1>1, <1>2, <2>1, Runs
  <2>3. ASSUME NEW i \in 0..n PROVE g[i] = body(g, i)
    <3>1. g[i] = IF i = 0 THEN init ELSE F[g[i - 1]]
      BY <2>2 DEF Iterated
    <3>2. i # 0 => g[i - 1] \in S
      BY <2>2
    <3>3. i # 0 => F[g[i - 1]] = step(g[i - 1])
      BY <2>1, <3>2
    <3> QED BY <1>5, <3>1, <3>3
  <2> QED BY <2>2, <2>3 DEF Iterated
<1>7. A = [i \in 0..n |-> body(A, i)]
  BY <1>6
<1> HIDE DEF A
<1>8. A[0] = init /\ \A i \in 1..n : A[i] = step(A[i - 1])
  BY <1>5, <1>7
<1>9. \A i \in 0..n : A[i] \in S
  <2>1. PICK W : W = [i \in 0..n |-> S]
    OBVIOUS
  <2>2. A[0] \in W[0] /\ \A i \in 1..n : A[i - 1] \in W[i - 1] => A[i] \in W[i]
    BY <1>1, <1>2, <1>8, <2>1
  <2> QED BY <2>1, <2>2, RoundsStay
<1> QED BY <1>4, <1>8, <1>9 DEF S, init, step

\* what is known of a search after i rounds
Sought(n, w, f, k, i, s) ==
  IF s.done THEN /\ s.found <=> Has(n, f, k)
                 /\ s.found => f[s.loc].full /\ f[s.loc].key = k
  ELSE ~s.found /\ s.psl = i /\ Seeking(n, w, f, k, s.loc, i)

(* One more round.                                                         *)
LEMMA DelStepOk ==
  ASSUME NEW n \in Nat \ {0}, NEW h, Sound(n, h), NEW z \in Locs(n), ~h.bkts[z].full,
         NEW k \in Keys, NEW i \in Nat, NEW s \in Places(n),
         Sought(n, HomesOf(h), h.bkts, k, i, s)
  PROVE  Sought(n, HomesOf(h), h.bkts, k, i + 1, DelStep(h, k, s))
<1>1. PICK f, w : f = h.bkts /\ w = HomesOf(h)
  OBVIOUS
<1>2. w \in Homes(n) /\ Placed(n, w, f) /\ ~f[z].full /\ Sought(n, w, f, k, i, s)
  BY <1>1, StructParts DEF Sound
<1>3. PICK l \in Locs(n) : l = s.loc
  BY DEF Places
<1>4. PICK t : t = DelStep(h, k, s)
  OBVIOUS
<1>5. CASE s.done
  <2>1. t = s
    BY <1>4, <1>5 DEF DelStep
  <2> QED BY <1>1, <1>2, <1>4, <1>5, <2>1 DEF Sought
<1>6. CASE ~s.done
  <2>1. s.found = FALSE /\ s.psl = i /\ Seeking(n, w, f, k, l, i)
    BY <1>2, <1>3, <1>6 DEF Sought, Places
  <2>2. CASE ~f[l].full \/ i > f[l].psl
    <3>1. t = [s EXCEPT !.done = TRUE]
      BY <1>1, <1>3, <1>4, <1>6, <2>1, <2>2 DEF DelStep
    <3>2. t.done /\ t.found = FALSE
      BY <2>1, <3>1 DEF Places
    <3>3. ~Has(n, f, k)
      BY <1>2, <2>1, <2>2, Seek DEF Has
    <3> QED BY <1>1, <1>4, <3>2, <3>3 DEF Sought
  <2>3. CASE ~(~f[l].full \/ i > f[l].psl) /\ f[l].key = k
    <3>1. t = [s EXCEPT !.done = TRUE, !.found = TRUE]
      BY <1>1, <1>3, <1>4, <1>6, <2>1, <2>3 DEF DelStep
    <3>2. t.done /\ t.found /\ t.loc = l
      BY <1>3, <3>1 DEF Places
    <3>3. Has(n, f, k)
      BY <2>3 DEF Has, Full
    <3> QED BY <1>1, <1>4, <2>3, <3>2, <3>3 DEF Sought
  <2>4. CASE ~(~f[l].full \/ i > f[l].psl) /\ f[l].key # k
    <3>1. PICK a \in Locs(n), q \in Nat : a = After(n, l) /\ q = i + 1
      BY Remainders
    <3>2. NextLoc(h, l) = a
      BY <3>1, StructParts DEF Sound
    <3>3. t = [s EXCEPT !.psl = q, !.loc = a]
      BY <1>1, <1>3, <1>4, <1>6, <2>1, <2>4, <3>1, <3>2 DEF DelStep
    <3>4. t.done = FALSE /\ t.found = FALSE /\ t.psl = q /\ t.loc = a
      BY <1>6, <2>1, <3>3 DEF Places
    <3>5. Seeking(n, w, f, k, a, q)
      BY <1>2, <2>1, <2>4, <3>1, Seek
    <3> QED BY <1>1, <1>4, <3>1, <3>4, <3>5 DEF Sought
  <2> QED BY <2>2, <2>3, <2>4
<1> QED BY <1>5, <1>6

(* At its home a key has been looked for nowhere.                          *)
LEMMA SeekFromHome ==
  ASSUME NEW n \in Nat \ {0}, NEW w \in Homes(n), NEW f, Placed(n, w, f), NEW k \in Keys
  PROVE  Seeking(n, w, f, k, w[k], 0)
<1>1. w[k] \in Locs(n)
  BY DEF Homes
<1>2. Off(n, w[k], w[k]) = 0
  BY <1>1 DEF Off, Locs
<1>3. \A j \in Full(n, f) : f[j].psl \in Nat
  BY DEF Placed, Arrays, Bkt, Full
<1> QED BY <1>2, <1>3 DEF Seeking

(* A search cannot go on for n rounds.                                     *)
LEMMA SeekEnds ==
  ASSUME NEW n \in Nat \ {0}, NEW w \in Homes(n), NEW f, NEW k \in Keys, NEW l \in Locs(n)
  PROVE  ~Seeking(n, w, f, k, l, n)
<1>1. Off(n, l, w[k]) \in Locs(n)
  BY Remainders DEF Homes
<1> QED BY <1>1 DEF Seeking, Locs

(* The search of del always ends, and finds a key exactly if it is there.  *)
LEMMA DelLocFinds ==
  ASSUME NEW n \in Nat \ {0}, NEW h, Sound(n, h), NEW z \in Locs(n), ~h.bkts[z].full,
         NEW k \in Keys, NEW r, r = DelLoc(h, k)
  PROVE  /\ r.done /\ r.loc \in Locs(n) /\ r.found \in BOOLEAN
         /\ r.found <=> Has(n, h.bkts, k)
         /\ r.found => h.bkts[r.loc].full /\ h.bkts[r.loc].key = k
<1>1. h \in Structs(n)
  BY DEF Sound
<1>2. PICK f, w : f = h.bkts /\ w = HomesOf(h)
  OBVIOUS
<1>3. w \in Homes(n) /\ Placed(n, w, f) /\ probe_loc(h, k) = w[k]
  BY <1>1, <1>2, StructParts DEF Sound
<1>4. PICK g : /\ r = g[n] /\ g[0] = DelStart(h, k) /\ \A i \in 0..n : g[i] \in Places(n)
               /\ \A i \in 1..n : g[i] = DelStep(h, k, g[i - 1])
  BY <1>1, DelRuns
<1>5. PICK W : W = [i \in 0..n |-> {s \in Places(n) : Sought(n, w, f, k, i, s)}]
  OBVIOUS
<1>6. g[0] \in W[0]
  BY <1>3, <1>4, <1>5, SeekFromHome DEF DelStart, Sought
<1>7. ASSUME NEW i \in 1..n, g[i - 1] \in W[i - 1] PROVE g[i] \in W[i]
  <2>1. PICK j \in Nat : j = i - 1 /\ j + 1 = i
    OBVIOUS
  <2>2. g[j] \in Places(n) /\ Sought(n, w, f, k, j, g[j])
    BY <1>5, <1>7, <2>1
  <2>3. Sought(n, w, f, k, i, DelStep(h, k, g[j]))
    BY <1>2, <2>1, <2>2, DelStepOk
  <2> QED BY <1>4, <1>5, <2>1, <2>3
<1>8. \A i \in 0..n : g[i] \in W[i]
  BY <1>6, <1>7, RoundsStay
<1>9. r \in Places(n) /\ Sought(n, w, f, k, n, r)
  BY <1>4, <1>5, <1>8
<1>10. r.done
  BY <1>3, <1>9, SeekEnds DEF Sought, Places
<1> QED BY <1>2, <1>9, <1>10 DEF Sought, Places

-----------------------------------------------------------------------------
(* get is the same search, which looks at the key of a bucket first and    *)
(* brings its value.                                                       *)

GetPlaces(n) ==
  [loc : Locs(n), psl : Nat, done : BOOLEAN, found : BOOLEAN, val : Vals \cup {NoVal}]

GetStart(h, k) ==
  [loc |-> probe_loc(h, k), psl |-> 0, done |-> FALSE, found |-> FALSE, val |-> NoVal]

GetStep(h, k, s) ==
  LET b == h.bkts[s.loc]
  IN  IF s.done THEN s
      ELSE IF b.key = k
      THEN [s EXCEPT !.done = TRUE, !.found = TRUE, !.val = b.val]
      ELSE IF ~b.full \/ s.psl > b.psl THEN [s EXCEPT !.done = TRUE]
      ELSE [s EXCEPT !.psl = @ + 1, !.loc = NextLoc(h, s.loc)]

GetLoop(h, k) ==
  LET Step(s) == GetStep(h, k, s)
  IN  Loop(Step, h.size, GetStart(h, k))

(* Each round of the search of get is a GetStep.                           *)
LEMMA GetRuns ==
  ASSUME NEW n \in Nat \ {0}, NEW h \in Structs(n), NEW k \in Keys
  PROVE  \E g : /\ GetLoop(h, k) = g[n] /\ g[0] = GetStart(h, k) /\ \A i \in 0..n : g[i] \in GetPlaces(n)
                /\ \A i \in 1..n : g[i] = GetStep(h, k, g[i - 1])
<1> DEFINE step(s) == GetStep(h, k, s)
           init == GetStart(h, k)
           S == GetPlaces(n)
<1>1. init \in S
  BY StructParts DEF GetStart, GetPlaces, Homes
<1>2. \A s \in S : step(s) \in S
  <2> SUFFICES ASSUME NEW s \in S PROVE step(s) \in S
    OBVIOUS
  <2>1. PICK l \in Locs(n), p \in Nat : l = s.loc /\ p = s.psl + 1
    BY DEF GetPlaces
  <2>2. NextLoc(h, l) \in Locs(n)
    BY StructParts
  <2>3. PICK a \in Locs(n) : a = NextLoc(h, l)
    BY <2>2
  <2>5. PICK v \in Vals \cup {NoVal} : v = h.bkts[l].val
    <3>1. h.bkts[l] \in Bkt
      BY StructParts DEF Arrays
    <3> QED BY <3>1 DEF Bkt
  <2>4. /\ [s EXCEPT !.done = TRUE] \in GetPlaces(n)
        /\ [s EXCEPT !.done = TRUE, !.found = TRUE, !.val = v] \in GetPlaces(n)
        /\ [s EXCEPT !.psl = p, !.loc = a] \in GetPlaces(n)
    BY DEF GetPlaces
  <2> QED BY <2>1, <2>3, <2>4, <2>5 DEF GetStep
<1>3. GetLoop(h, k) = Loop(step, n, init)
  BY StructParts DEF GetLoop, GetStep, GetStart
<1> HIDE DEF step, init, S
<1> DEFINE body(g, i) == IF i = 0 THEN init
                         ELSE CHOOSE y \in {step(p) : p \in {g[i - 1]}} : TRUE
           A == CHOOSE g : g = [i \in 0..n |-> body(g, i)]
<1>4. GetLoop(h, k) = A[n]
  BY <1>3 DEF Loop
<1>5. ASSUME NEW g, NEW i \in 0..n
      PROVE  body(g, i) = IF i = 0 THEN init ELSE step(g[i - 1])
  OBVIOUS
<1> HIDE DEF body
<1>6. \E g : g = [i \in 0..n |-> body(g, i)]
  <2>1. PICK F : F = [s \in S |-> step(s)]
    OBVIOUS
  <2>2. PICK g : Iterated(g, F, init, n) /\ \A i \in 0..n : g[i] \in S
    BY <1>1, <1>2, <2>1, Runs
  <2>3. ASSUME NEW i \in 0..n PROVE g[i] = body(g, i)
    <3>1. g[i] = IF i = 0 THEN init ELSE F[g[i - 1]]
      BY <2>2 DEF Iterated
    <3>2. i # 0 => g[i - 1] \in S
      BY <2>2
    <3>3. i # 0 => F[g[i - 1]] = step(g[i - 1])
      BY <2>1, <3>2
    <3> QED BY <1>5, <3>1, <3>3
  <2> QED BY <2>2, <2>3 DEF Iterated
<1>7. A = [i \in 0..n |-> body(A, i)]
  BY <1>6
<1> HIDE DEF A
<1>8. A[0] = init /\ \A i \in 1..n : A[i] = step(A[i - 1])
  BY <1>5, <1>7
<1>9. \A i \in 0..n : A[i] \in S
  <2>1. PICK W : W = [i \in 0..n |-> S]
    OBVIOUS
  <2>2. A[0] \in W[0] /\ \A i \in 1..n : A[i - 1] \in W[i - 1] => A[i] \in W[i]
    BY <1>1, <1>2, <1>8, <2>1
  <2> QED BY <2>1, <2>2, RoundsStay
<1> QED BY <1>4, <1>8, <1>9 DEF S, init, step

\* what is known of a search after i rounds
Got(n, w, f, k, i, s) ==
  IF s.done THEN /\ s.found <=> Has(n, f, k)
                 /\ s.found => f[s.loc].full /\ f[s.loc].key = k /\ s.val = f[s.loc].val
  ELSE ~s.found /\ s.psl = i /\ Seeking(n, w, f, k, s.loc, i)

(* One more round.                                                         *)
LEMMA GetStepOk ==
  ASSUME NEW n \in Nat \ {0}, NEW h, Sound(n, h), NEW z \in Locs(n), ~h.bkts[z].full,
         NEW k \in Keys \ {ZeroKey}, NEW i \in Nat, NEW s \in GetPlaces(n),
         Got(n, HomesOf(h), h.bkts, k, i, s)
  PROVE  Got(n, HomesOf(h), h.bkts, k, i + 1, GetStep(h, k, s))
<1>1. PICK f, w : f = h.bkts /\ w = HomesOf(h)
  OBVIOUS
<1>2. w \in Homes(n) /\ Placed(n, w, f) /\ ~f[z].full /\ Got(n, w, f, k, i, s)
  BY <1>1, StructParts DEF Sound
<1>3. PICK l \in Locs(n) : l = s.loc
  BY DEF GetPlaces
<1>4. PICK t : t = GetStep(h, k, s)
  OBVIOUS
<1>5. CASE s.done
  <2>1. t = s
    BY <1>4, <1>5 DEF GetStep
  <2> QED BY <1>1, <1>2, <1>4, <1>5, <2>1 DEF Got
<1>6. CASE ~s.done
  <2>1. s.found = FALSE /\ s.psl = i /\ Seeking(n, w, f, k, l, i)
    BY <1>2, <1>3, <1>6 DEF Got, GetPlaces
  <2>2. CASE f[l].key # k /\ (~f[l].full \/ i > f[l].psl)
    <3>1. t = [s EXCEPT !.done = TRUE]
      BY <1>1, <1>3, <1>4, <1>6, <2>1, <2>2 DEF GetStep
    <3>2. t.done /\ t.found = FALSE
      BY <2>1, <3>1 DEF GetPlaces
    <3>3. ~Has(n, f, k)
      BY <1>2, <2>1, <2>2, Seek DEF Has
    <3> QED BY <1>1, <1>4, <3>2, <3>3 DEF Got
  <2>3. CASE f[l].key = k
    <3>1. PICK v : v = f[l].val
      OBVIOUS
    <3>2. t = [s EXCEPT !.done = TRUE, !.found = TRUE, !.val = v]
      BY <1>1, <1>3, <1>4, <1>6, <2>1, <2>3, <3>1 DEF GetStep
    <3>3. t.done /\ t.found /\ t.loc = l /\ t.val = v
      <4>1. s \in GetPlaces(n) /\ s.loc = l
        BY <1>3
      <4> QED BY <3>2, <4>1 DEF GetPlaces
    <3>4. f[l].full
      <4>1. k # ZeroKey
        OBVIOUS
      <4>2. f[l].full \/ f[l] = EmptyBkt
        BY <1>2 DEF Placed, AtPsl
      <4> QED BY <2>3, <4>1, <4>2 DEF EmptyBkt
    <3>5. Has(n, f, k)
      BY <2>3, <3>4 DEF Has, Full
    <3>6. t.found /\ f[t.loc].full /\ f[t.loc].key = k /\ t.val = f[t.loc].val
      BY <2>3, <3>1, <3>3, <3>4
    <3>7. Got(n, w, f, k, i + 1, t)
      BY <3>3, <3>5, <3>6 DEF Got
    <3> QED BY <1>1, <1>4, <3>7
  <2>4. CASE ~(~f[l].full \/ i > f[l].psl) /\ f[l].key # k
    <3>1. PICK a \in Locs(n), q \in Nat : a = After(n, l) /\ q = i + 1
      BY DEF After, Locs
    <3>2. NextLoc(h, l) = a
      BY <3>1, StructParts DEF Sound
    <3>3. t = [s EXCEPT !.psl = q, !.loc = a]
      BY <1>1, <1>3, <1>4, <1>6, <2>1, <2>4, <3>1, <3>2 DEF GetStep
    <3>4. t.done = FALSE /\ t.found = FALSE /\ t.psl = q /\ t.loc = a
      BY <1>6, <2>1, <3>3 DEF GetPlaces
    <3>5. Seeking(n, w, f, k, a, q)
      BY <1>2, <2>1, <2>4, <3>1, Seek
    <3> QED BY <1>1, <1>4, <3>1, <3>4, <3>5 DEF Got
  <2> QED BY <2>2, <2>3, <2>4
<1> QED BY <1>5, <1>6

(* The search of get always ends, and finds a key exactly if it is there.  *)
LEMMA GetLoopFinds ==
  ASSUME NEW n \in Nat \ {0}, NEW h, Sound(n, h), NEW z \in Locs(n), ~h.bkts[z].full,
         NEW k \in Keys \ {ZeroKey}, NEW r, r = GetLoop(h, k)
  PROVE  /\ r.done /\ r.loc \in Locs(n) /\ r.found \in BOOLEAN
         /\ r.found <=> Has(n, h.bkts, k)
         /\ r.found => h.bkts[r.loc].full /\ h.bkts[r.loc].key = k
                       /\ r.val = h.bkts[r.loc].val
<1>1. h \in Structs(n)
  BY DEF Sound
<1>2. PICK f, w : f = h.bkts /\ w = HomesOf(h)
  OBVIOUS
<1>3. w \in Homes(n) /\ Placed(n, w, f) /\ probe_loc(h, k) = w[k]
  BY <1>1, <1>2, StructParts DEF Sound
<1>4. PICK g : /\ r = g[n] /\ g[0] = GetStart(h, k) /\ \A i \in 0..n : g[i] \in GetPlaces(n)
               /\ \A i \in 1..n : g[i] = GetStep(h, k, g[i - 1])
  BY <1>1, GetRuns
<1>5. PICK W : W = [i \in 0..n |-> {s \in GetPlaces(n) : Got(n, w, f, k, i, s)}]
  OBVIOUS
<1>6. g[0] \in W[0]
  BY <1>3, <1>4, <1>5, SeekFromHome DEF GetStart, Got
<1>7. ASSUME NEW i \in 1..n, g[i - 1] \in W[i - 1] PROVE g[i] \in W[i]
  <2>1. PICK j \in Nat : j = i - 1 /\ j + 1 = i
    OBVIOUS
  <2>2. g[j] \in GetPlaces(n) /\ Got(n, w, f, k, j, g[j])
    BY <1>5, <1>7, <2>1
  <2>3. Got(n, w, f, k, i, GetStep(h, k, g[j]))
    BY <1>2, <2>1, <2>2, GetStepOk
  <2> QED BY <1>4, <1>5, <2>1, <2>3
<1>8. \A i \in 0..n : g[i] \in W[i]
  BY <1>6, <1>7, RoundsStay
<1>9. r \in GetPlaces(n) /\ Got(n, w, f, k, n, r)
  BY <1>4, <1>5, <1>8
<1>10. r.done
  BY <1>3, <1>9, SeekEnds DEF Got, GetPlaces
<1> QED BY <1>2, <1>9, <1>10 DEF Got, GetPlaces

(* What get gives.                                                         *)
LEMMA GetFinds ==
  ASSUME NEW n \in Nat \ {0}, NEW h, Sound(n, h), NEW z \in Locs(n), ~h.bkts[z].full,
         NEW k \in Keys \ {ZeroKey}
  PROVE  /\ get(h, k).status = 0 /\ get(h, k).found \in BOOLEAN
         /\ get(h, k).found <=> Has(n, h.bkts, k)
         /\ \A i \in Full(n, h.bkts) : h.bkts[i].key = k => get(h, k).val = h.bkts[i].val
<1>1. PICK r : r = GetLoop(h, k)
  OBVIOUS
<1>2. get(h, k) = [status |-> IF r.done THEN 0 ELSE -1, found |-> r.found, val |-> r.val]
  BY <1>1 DEF get, GetLoop, GetStep, GetStart
<1>3. /\ r.done /\ r.loc \in Locs(n) /\ r.found \in BOOLEAN
      /\ r.found <=> Has(n, h.bkts, k)
      /\ r.found => h.bkts[r.loc].full /\ h.bkts[r.loc].key = k /\ r.val = h.bkts[r.loc].val
  BY <1>1, GetLoopFinds
<1>4. ASSUME NEW i \in Full(n, h.bkts), h.bkts[i].key = k PROVE r.val = h.bkts[i].val
  <2>1. r.found
    BY <1>3, <1>4 DEF Has
  <2>2. r.loc = i
    BY <1>3, <1>4, <2>1 DEF Sound, Placed, Unique, Full
  <2> QED BY <1>3, <2>1, <2>2
<1> QED BY <1>2, <1>3, <1>4

-----------------------------------------------------------------------------
(* Insertion.                                                              *)

\* the pairs P with v for k
Set(P, k, v) == {p \in P : p[1] # k} \cup {<<k, v>>}

\* a full bucket e may be put at l, whose predecessors were passed
Fits(n, w, f, l, e) ==
  /\ e \in Bkt /\ e.full /\ e.key \in Keys /\ e.val \in Vals
  /\ e.psl = Off(n, l, w[e.key]) /\ Leads(f, Prev(n, l), e.psl)

\* a full bucket e is carried on to l
Carried(n, w, f, l, e) == Fits(n, w, f, l, e) /\ Seeking(n, w, f, e.key, l, e.psl)

ValSet(b, x) == [b EXCEPT !.val = x]

Farther(b) == [b EXCEPT !.psl = b.psl + 1]

\* f with e in bucket l
At(f, l, e) == [f EXCEPT ![l] = e]

\* g is that
Puts(n, f, g, l, e) ==
  f \in Arrays(n) /\ e \in Bkt /\ e.full /\ l \in Locs(n) /\ g = At(f, l, e)

(* Where a bucket is changed.                                              *)
LEMMA PutAt ==
  ASSUME NEW n \in Nat \ {0}, NEW f, NEW g, NEW l, NEW e, Puts(n, f, g, l, e)
  PROVE  /\ g \in Arrays(n) /\ g[l] = e /\ \A i \in Locs(n) : i # l => g[i] = f[i]
         /\ Full(n, g) = Full(n, f) \cup {l}
<1>1. g \in Arrays(n) /\ g[l] = e /\ \A i \in Locs(n) : i # l => g[i] = f[i]
  BY DEF Arrays, Puts, At
<1>2. Full(n, g) = Full(n, f) \cup {l}
  BY <1>1 DEF Full, Puts
<1> QED BY <1>1, <1>2

(* What the other buckets hold stays.                                      *)
LEMMA PutAtPairs ==
  ASSUME NEW n \in Nat \ {0}, NEW f, NEW g, NEW l, NEW e, Puts(n, f, g, l, e)
  PROVE  Pairs(n, g) = {<<f[i].key, f[i].val>> : i \in Full(n, f) \ {l}} \cup {<<e.key, e.val>>}
<1>1. /\ g[l] = e /\ \A i \in Locs(n) : i # l => g[i] = f[i]
      /\ Full(n, g) = Full(n, f) \cup {l}
  BY PutAt
<1>2. PICK R : R = {<<f[i].key, f[i].val>> : i \in Full(n, f) \ {l}}
  OBVIOUS
<1>3. ASSUME NEW i \in Full(n, g) PROVE <<g[i].key, g[i].val>> \in R \cup {<<e.key, e.val>>}
  <2>1. CASE i = l
    BY <1>1, <2>1
  <2>2. CASE i # l
    <3>1. i \in Full(n, f) \ {l} /\ g[i] = f[i]
      BY <1>1, <2>2 DEF Full
    <3> QED BY <1>2, <3>1
  <2> QED BY <2>1, <2>2
<1>4. ASSUME NEW p \in Pairs(n, g) PROVE p \in R \cup {<<e.key, e.val>>}
  <2>1. PICK i \in Full(n, g) : p = <<g[i].key, g[i].val>>
    BY DEF Pairs
  <2> QED BY <1>3, <2>1, Zenon
<1>5. ASSUME NEW i \in Full(n, f) \ {l} PROVE <<f[i].key, f[i].val>> \in Pairs(n, g)
  <2>1. i \in Full(n, g) /\ g[i] = f[i]
    BY <1>1 DEF Full
  <2>2. <<g[i].key, g[i].val>> \in Pairs(n, g)
    BY <2>1 DEF Pairs
  <2> QED BY <2>1, <2>2
<1>6. R \subseteq Pairs(n, g)
  BY <1>2, <1>5
<1>7. <<e.key, e.val>> \in Pairs(n, g)
  <2>1. l \in Full(n, g)
    BY <1>1
  <2>2. <<g[l].key, g[l].val>> \in Pairs(n, g)
    BY <2>1 DEF Pairs
  <2> QED BY <1>1, <2>2
<1> QED BY <1>2, <1>4, <1>6, <1>7

(* Robbing or filling a bucket keeps the order, if the key is not there.   *)
LEMMA PutPlaced ==
  ASSUME NEW n \in Nat \ {0}, NEW w \in Homes(n), NEW f, Placed(n, w, f), NEW l \in Locs(n),
         NEW e, Fits(n, w, f, l, e), ~Has(n, f, e.key), f[l].full => e.psl > f[l].psl,
         NEW g, Puts(n, f, g, l, e)
  PROVE  Placed(n, w, g)
<1>2. f \in Arrays(n) /\ e \in Bkt /\ e.full
  BY DEF Puts
<1>3. /\ g \in Arrays(n) /\ g[l] = e /\ \A i \in Locs(n) : i # l => g[i] = f[i]
      /\ Full(n, g) = Full(n, f) \cup {l}
  BY PutAt
<1>4. AtPsl(n, w, g)
  BY <1>3 DEF Placed, AtPsl, Fits
<1>5. Unique(n, g)
  BY <1>3 DEF Placed, Unique, Has, Full
<1>6. ASSUME NEW i \in Full(n, g) PROVE Leads(g, Prev(n, i), g[i].psl)
  <2>1. i \in Locs(n)
    BY <1>6 DEF Full
  <2>2. PICK j \in Locs(n) : j = Prev(n, i) /\ (n > 1 => j # i)
    BY <2>1 DEF Prev, Locs
  <2>3. CASE i = l
    <3>1. g[i].psl = Off(n, i, w[e.key]) /\ g[i].psl = e.psl /\ w[e.key] \in Locs(n)
      BY <1>3, <2>3 DEF Fits, Homes
    <3>2. g[i].psl > 0 => n > 1
      BY <2>1, <3>1 DEF Off, Locs
    <3>3. Leads(f, j, e.psl)
      BY <2>2, <2>3 DEF Fits
    <3> QED BY <1>3, <2>2, <2>3, <3>1, <3>2, <3>3 DEF Leads
  <2>4. CASE i # l
    <3>1. i \in Full(n, f) /\ g[i] = f[i]
      BY <1>3, <2>1, <2>4
    <3>2. Leads(f, j, f[i].psl)
      BY <2>2, <3>1 DEF Placed, Chained
    <3>3. CASE j # l
      BY <1>3, <2>2, <3>1, <3>2, <3>3 DEF Leads
    <3>4. CASE j = l
      <4>1. g[j].full /\ g[j].psl = e.psl
        BY <1>3, <3>4 DEF Fits
      <4>2. f[l].psl \in Nat /\ e.psl \in Nat /\ f[i].psl \in Nat
        BY <1>2, <2>1 DEF Arrays, Bkt
      <4>3. f[i].psl > 0 => f[l].full /\ f[l].psl >= f[i].psl - 1
        BY <3>2, <3>4 DEF Leads
      <4>4. f[i].psl > 0 => e.psl >= f[i].psl - 1
        BY <4>2, <4>3
      <4> QED BY <2>2, <3>1, <4>1, <4>4 DEF Leads
    <3> QED BY <3>3, <3>4
  <2> QED BY <2>3, <2>4
<1> QED BY <1>3, <1>4, <1>5, <1>6 DEF Placed, Chained

(* What the buckets hold when one is filled, robbed or updated.            *)
LEMMA PutPairs ==
  ASSUME NEW n \in Nat \ {0}, NEW w \in Homes(n), NEW f, Placed(n, w, f), NEW l \in Locs(n),
         NEW e, NEW g, Puts(n, f, g, l, e)
  PROVE  /\ ~f[l].full => Pairs(n, g) = Pairs(n, f) \cup {<<e.key, e.val>>}
         /\ f[l].full => Pairs(n, g) = {p \in Pairs(n, f) : p[1] # f[l].key} \cup {<<e.key, e.val>>}
<1>1. PICK R : R = {<<f[i].key, f[i].val>> : i \in Full(n, f) \ {l}}
  OBVIOUS
<1>2. Pairs(n, g) = R \cup {<<e.key, e.val>>}
  BY <1>1, PutAtPairs
<1>3. ASSUME ~f[l].full PROVE R = Pairs(n, f)
  <2>1. Full(n, f) \ {l} = Full(n, f)
    BY <1>3 DEF Full
  <2> QED BY <1>1, <2>1 DEF Pairs
<1>4. ASSUME f[l].full
      PROVE  R = {p \in Pairs(n, f) : p[1] # f[l].key}
  <2>1. \A i \in Full(n, f) : f[i].key = f[l].key <=> i = l
    BY <1>4 DEF Placed, Unique, Full
  <2>2. PICK Q : Q = {p \in Pairs(n, f) : p[1] # f[l].key}
    OBVIOUS
  <2>3. ASSUME NEW p \in R PROVE p \in Q
    <3>1. PICK i \in Full(n, f) \ {l} : p = <<f[i].key, f[i].val>>
      BY <1>1
    <3>2. p \in Pairs(n, f)
      BY <3>1 DEF Pairs
    <3> QED BY <2>1, <2>2, <3>1, <3>2
  <2>4. ASSUME NEW p \in Q PROVE p \in R
    <3>1. PICK i \in Full(n, f) : p = <<f[i].key, f[i].val>>
      BY <2>2 DEF Pairs
    <3>2. i # l
      BY <2>2, <3>1
    <3> QED BY <1>1, <3>1, <3>2
  <2> QED BY <2>2, <2>3, <2>4
<1> QED BY <1>2, <1>3, <1>4

(* A key has one value.                                                    *)
LEMMA PairsUnique ==
  ASSUME NEW n \in Nat \ {0}, NEW w \in Homes(n), NEW f, Placed(n, w, f)
  PROVE  /\ \A p, q \in Pairs(n, f) : p[1] = q[1] => p = q
         /\ \A k : Has(n, f, k) <=> \E p \in Pairs(n, f) : p[1] = k
         /\ \A i \in Full(n, f) : <<f[i].key, f[i].val>> \in Pairs(n, f)
<1>1. ASSUME NEW p \in Pairs(n, f), NEW q \in Pairs(n, f), p[1] = q[1] PROVE p = q
  <2>1. PICK i \in Full(n, f) : p = <<f[i].key, f[i].val>>
    BY DEF Pairs
  <2>2. PICK j \in Full(n, f) : q = <<f[j].key, f[j].val>>
    BY DEF Pairs
  <2>3. i = j
    BY <1>1, <2>1, <2>2 DEF Placed, Unique
  <2> QED BY <2>1, <2>2, <2>3
<1>2. \A i \in Full(n, f) : <<f[i].key, f[i].val>> \in Pairs(n, f)
  BY DEF Pairs
<1>3. ASSUME NEW k PROVE Has(n, f, k) <=> \E p \in Pairs(n, f) : p[1] = k
  <2>1. ASSUME NEW j \in Full(n, f), f[j].key = k PROVE \E p \in Pairs(n, f) : p[1] = k
    <3>1. PICK p : p = <<f[j].key, f[j].val>>
      OBVIOUS
    <3> QED BY <1>2, <2>1, <3>1
  <2>2. ASSUME NEW p \in Pairs(n, f), p[1] = k PROVE \E j \in Full(n, f) : f[j].key = k
    BY <2>2 DEF Pairs
  <2> QED BY <2>1, <2>2 DEF Has
<1> QED BY <1>1, <1>2, <1>3

(* A new value for a key that is there.                                    *)
LEMMA UpdatePlaced ==
  ASSUME NEW n \in Nat \ {0}, NEW w \in Homes(n), NEW f, Placed(n, w, f), NEW l \in Locs(n),
         NEW e, f[l].full, e.key = f[l].key, e.psl = f[l].psl, e.val \in Vals,
         NEW g, Puts(n, f, g, l, e)
  PROVE  Placed(n, w, g) /\ Full(n, g) = Full(n, f)
<1>1. /\ g \in Arrays(n) /\ g[l] = e /\ \A i \in Locs(n) : i # l => g[i] = f[i]
      /\ Full(n, g) = Full(n, f) \cup {l}
  BY PutAt
<1>2. Full(n, g) = Full(n, f)
  BY <1>1 DEF Full
<1>3. \A i \in Locs(n) : /\ g[i].full = f[i].full /\ g[i].key = f[i].key /\ g[i].psl = f[i].psl
                         /\ g[i].val = f[i].val \/ i = l
  BY <1>1 DEF Puts, Arrays, Bkt
<1>4. AtPsl(n, w, g)
  BY <1>1, <1>3 DEF Placed, AtPsl
<1>5. Unique(n, g)
  BY <1>2, <1>3 DEF Placed, Unique, Full
<1>6. ASSUME NEW i \in Full(n, g) PROVE Leads(g, Prev(n, i), g[i].psl)
  <2>1. Prev(n, i) \in Locs(n)
    BY Remainders DEF Full
  <2>2. Leads(f, Prev(n, i), f[i].psl)
    BY <1>2 DEF Placed, Chained
  <2> QED BY <1>3, <2>1, <2>2 DEF Leads, Full
<1> QED BY <1>1, <1>2, <1>4, <1>5, <1>6 DEF Placed, Chained

(* The four things a round may do with the bucket it carries: fill an      *)
(* empty bucket, update the key it finds, rob a bucket that is nearer to   *)
(* home, or pass.                                                          *)
LEMMA FillOk ==
  ASSUME NEW n \in Nat \ {0}, NEW w \in Homes(n), NEW f, Placed(n, w, f), NEW l \in Locs(n),
         NEW e, Carried(n, w, f, l, e), ~f[l].full, NEW g, Puts(n, f, g, l, e)
  PROVE  /\ Placed(n, w, g) /\ Full(n, g) = Full(n, f) \cup {l} /\ l \notin Full(n, f)
         /\ Pairs(n, g) = Set(Pairs(n, f), e.key, e.val)
<1>1. e.psl \in Nat /\ e.key \in Keys
  BY DEF Carried, Fits, Bkt
<1>2. ~Has(n, f, e.key)
  BY <1>1, Seek DEF Carried, Has
<1>3. Placed(n, w, g)
  BY <1>2, PutPlaced DEF Carried
<1>4. Pairs(n, g) = Pairs(n, f) \cup {<<e.key, e.val>>}
  BY PutPairs
<1>5. \A p \in Pairs(n, f) : p[1] # e.key
  BY <1>2, PairsUnique
<1>6. Full(n, g) = Full(n, f) \cup {l}
  BY PutAt
<1> QED BY <1>3, <1>4, <1>5, <1>6 DEF Set, Full

(* A key that is there gets its new value where it is.                     *)
LEMMA UpdateOk ==
  ASSUME NEW n \in Nat \ {0}, NEW w \in Homes(n), NEW f, Placed(n, w, f), NEW l \in Locs(n),
         f[l].full, NEW v \in Vals, NEW g, Puts(n, f, g, l, [f[l] EXCEPT !.val = v])
  PROVE  /\ Placed(n, w, g) /\ Full(n, g) = Full(n, f)
         /\ Pairs(n, g) = Set(Pairs(n, f), f[l].key, v)
<1>1. PICK e : e = [f[l] EXCEPT !.val = v]
  OBVIOUS
<1>2. f[l] \in Bkt
  BY DEF Placed, Arrays
<1>3. e.key = f[l].key /\ e.psl = f[l].psl /\ e.val = v
  BY <1>1, <1>2 DEF Bkt
<1>4. Puts(n, f, g, l, e)
  BY <1>1
<1>5. Placed(n, w, g) /\ Full(n, g) = Full(n, f)
  BY <1>3, <1>4, UpdatePlaced
<1>6. Pairs(n, g) = {p \in Pairs(n, f) : p[1] # f[l].key} \cup {<<e.key, e.val>>}
  BY <1>4, PutPairs
<1> QED BY <1>3, <1>5, <1>6 DEF Set

(* A search passes a bucket whose key is no closer to home than it is.     *)
LEMMA PassOk ==
  ASSUME NEW n \in Nat \ {0}, NEW w \in Homes(n), NEW f, Placed(n, w, f), NEW l \in Locs(n),
         NEW z \in Locs(n), ~f[z].full,
         NEW e, Carried(n, w, f, l, e), f[l].full, f[l].key # e.key, ~(e.psl > f[l].psl),
         NEW d, d = Farther(e)
  PROVE  Carried(n, w, f, After(n, l), d) /\ d.key = e.key /\ d.val = e.val
<1>1. e \in Bkt /\ e.psl \in Nat /\ e.key \in Keys /\ e.full /\ e.val \in Vals
  BY DEF Carried, Fits, Bkt
<1>2. PICK p \in Nat : p = e.psl + 1
  BY <1>1
<1>3. d \in Bkt /\ d.psl = p /\ d.key = e.key /\ d.val = e.val /\ d.full
  BY <1>1, <1>2 DEF Bkt, Farther
<1>4. Seeking(n, w, f, e.key, After(n, l), e.psl + 1)
  BY <1>1, Seek DEF Carried
<1>5. Prev(n, After(n, l)) = l
  BY Remainders
<1>6. f[l].psl \in Nat
  BY DEF Placed, Arrays, Bkt
<1>7. Leads(f, l, p)
  BY <1>1, <1>2, <1>6 DEF Leads
<1> QED BY <1>1, <1>2, <1>3, <1>4, <1>5, <1>7 DEF Carried, Fits, Seeking

(* A search takes the bucket of a key that is closer to home, and goes on  *)
(* with that key.                                                          *)
LEMMA RobOk ==
  ASSUME NEW n \in Nat \ {0}, NEW w \in Homes(n), NEW f, Placed(n, w, f), NEW l \in Locs(n),
         NEW z \in Locs(n), ~f[z].full,
         NEW e, Carried(n, w, f, l, e), f[l].full, f[l].key # e.key, e.psl > f[l].psl,
         NEW d, d = Farther(f[l]),
         NEW g, Puts(n, f, g, l, e)
  PROVE  /\ Placed(n, w, g) /\ Full(n, g) = Full(n, f) /\ Carried(n, w, g, After(n, l), d)
         /\ Set(Pairs(n, g), d.key, d.val) = Set(Pairs(n, f), e.key, e.val)
<1>1. e \in Bkt /\ e.psl \in Nat /\ e.key \in Keys /\ e.full /\ e.val \in Vals
  BY DEF Carried, Fits, Bkt
<1>2. ~Has(n, f, e.key)
  BY <1>1, Seek DEF Carried, Has
<1>3. Placed(n, w, g)
  BY <1>2, PutPlaced DEF Carried
<1>4. /\ g \in Arrays(n) /\ g[l] = e /\ \A i \in Locs(n) : i # l => g[i] = f[i]
      /\ Full(n, g) = Full(n, f) \cup {l}
  BY PutAt
<1>5. Full(n, g) = Full(n, f)
  BY <1>4 DEF Full
<1>6. PICK b \in Bkt : b = f[l]
  BY DEF Placed, Arrays
<1>7. b.psl \in Nat /\ b.key \in Keys /\ b.val \in Vals /\ b.full /\ b.psl = Off(n, l, w[b.key])
  BY <1>6 DEF Placed, AtPsl, Bkt
<1>8. PICK p \in Nat : p = b.psl + 1 /\ p < n
  <2>1. l \in Full(n, f)
    BY DEF Full
  <2>2. f[l].psl + 1 < n
    BY <2>1, EmptyAhead
  <2> QED BY <1>6, <1>7, <2>2
<1>9. d \in Bkt /\ d.psl = p /\ d.key = b.key /\ d.val = b.val /\ d.full
  BY <1>6, <1>7, <1>8 DEF Bkt, Farther
<1>10. p = Off(n, After(n, l), w[b.key])
  <2>1. PICK c \in Locs(n) : c = w[b.key]
    BY <1>7 DEF Homes
  <2> QED BY <1>7, <1>8, <2>1 DEF Off, After, Locs
<1>11. Prev(n, After(n, l)) = l /\ After(n, l) \in Locs(n)
  BY Remainders
<1>12. Leads(g, l, p)
  BY <1>1, <1>4, <1>6, <1>7, <1>8 DEF Leads
<1>13. \A j \in Full(n, g) : g[j].key # b.key
  <2> SUFFICES ASSUME NEW j \in Full(n, g), g[j].key = b.key PROVE FALSE
    OBVIOUS
  <2>1. j # l
    BY <1>4, <1>6
  <2>2. j \in Full(n, f) /\ g[j] = f[j] /\ l \in Full(n, f)
    BY <1>4, <1>5, <2>1 DEF Full
  <2> QED BY <1>6, <2>1, <2>2 DEF Placed, Unique
<1>14. Carried(n, w, g, After(n, l), d)
  BY <1>7, <1>9, <1>10, <1>11, <1>12, <1>13 DEF Carried, Fits, Seeking
<1>15. Pairs(n, g) = {q \in Pairs(n, f) : q[1] # b.key} \cup {<<e.key, e.val>>}
  BY <1>6, PutPairs
<1>16. <<b.key, b.val>> \in Pairs(n, f) /\ \A q \in Pairs(n, f) : q[1] = b.key => q = <<b.key, b.val>>
  BY <1>6, PairsUnique DEF Full
<1>17. \A q \in Pairs(n, f) : q[1] # e.key
  BY <1>2, PairsUnique
<1>18. Set(Pairs(n, g), b.key, b.val) = Pairs(n, f) \cup {<<e.key, e.val>>}
  BY <1>6, <1>15, <1>16 DEF Set
<1>19. Set(Pairs(n, f), e.key, e.val) = Pairs(n, f) \cup {<<e.key, e.val>>}
  BY <1>17 DEF Set
<1> QED BY <1>3, <1>5, <1>9, <1>14, <1>18, <1>19

-----------------------------------------------------------------------------
(* The loop of insert.                                                     *)

Carrying(n) == [h : Structs(n), loc : Locs(n), entry : Bkt, done : BOOLEAN]

InsertStart(h, k, v) ==
  [h |-> h, loc |-> probe_loc(h, k), entry |-> Entry(k, v, 0), done |-> FALSE]

\* g is h with bucket l put, put and counted, or with another value
Stores(h, g, l, e) == g = [h EXCEPT !.bkts[l] = e]

Fills(h, g, l, e, c) == g = [h EXCEPT !.bkts[l] = e, !.nitems = c]

Updates(h, g, l, x) == g = [h EXCEPT !.bkts[l].val = x]

(* What these change.                                                      *)
LEMMA Stored ==
  ASSUME NEW n \in Nat \ {0}, NEW h \in Structs(n), NEW l \in Locs(n), NEW e \in Bkt,
         NEW g, Stores(h, g, l, e)
  PROVE  /\ g \in Structs(n) /\ g.bkts = At(h.bkts, l, e)
         /\ g.nitems = h.nitems /\ g.hash = h.hash /\ g.status = h.status /\ g.size = h.size
<1>1. PICK f \in Arrays(n) : f = h.bkts
  BY DEF Structs
<1>2. PICK fe \in Arrays(n) : fe = [f EXCEPT ![l] = e]
  BY DEF Arrays
<1>3. g = [h EXCEPT !.bkts = fe]
  BY <1>1, <1>2 DEF Stores
<1> QED BY <1>1, <1>2, <1>3 DEF Structs, At

(* A table with an entry in a bucket that was empty.                       *)
LEMMA Filled ==
  ASSUME NEW n \in Nat \ {0}, NEW h \in Structs(n), NEW l \in Locs(n), NEW e \in Bkt,
         NEW c \in Int, NEW g, Fills(h, g, l, e, c)
  PROVE  /\ g \in Structs(n) /\ g.bkts = At(h.bkts, l, e)
         /\ g.nitems = c /\ g.hash = h.hash /\ g.status = h.status /\ g.size = h.size
<1>1. PICK f \in Arrays(n) : f = h.bkts
  BY DEF Structs
<1>2. PICK fe \in Arrays(n) : fe = [f EXCEPT ![l] = e]
  BY DEF Arrays
<1>3. g = [h EXCEPT !.bkts = fe, !.nitems = c]
  BY <1>1, <1>2 DEF Fills
<1> QED BY <1>1, <1>2, <1>3 DEF Structs, At

(* A table with another value in a bucket.                                 *)
LEMMA Updated ==
  ASSUME NEW n \in Nat \ {0}, NEW h \in Structs(n), NEW l \in Locs(n), NEW x \in Vals,
         NEW g, Updates(h, g, l, x)
  PROVE  /\ g \in Structs(n) /\ g.bkts = At(h.bkts, l, ValSet(h.bkts[l], x))
         /\ g.nitems = h.nitems /\ g.hash = h.hash /\ g.status = h.status /\ g.size = h.size
<1>1. PICK f \in Arrays(n) : f = h.bkts
  BY DEF Structs
<1>2. PICK b \in Bkt : b = f[l]
  BY DEF Arrays
<1>3. PICK d \in Bkt : d = [b EXCEPT !.val = x]
  BY DEF Bkt
<1>4. PICK fd \in Arrays(n) : fd = [f EXCEPT ![l] = d]
  BY DEF Arrays
<1>5. g = [h EXCEPT !.bkts = fd]
  BY <1>1, <1>2, <1>3, <1>4 DEF Updates
<1> QED BY <1>1, <1>2, <1>3, <1>4, <1>5 DEF Structs, At, ValSet

(* What a round does.                                                      *)
LEMMA InsertShape ==
  ASSUME NEW n \in Nat \ {0}, NEW s \in Carrying(n), NEW t, t = InsertStep(s),
         NEW h, h = s.h, NEW l, l = s.loc, NEW e, e = s.entry, NEW b, b = h.bkts[l],
         e.val \in Vals
  PROVE  /\ t \in Carrying(n) /\ t.h.hash = h.hash /\ t.h.status = h.status
         /\ s.done => t = s
         /\ ~s.done /\ ~b.full =>
              /\ t.done /\ t.h.nitems = h.nitems + 1 /\ t.h.bkts = At(h.bkts, l, e)
              /\ t.entry = e
         /\ ~s.done /\ b.full /\ b.key = e.key =>
              /\ t.done /\ t.h.nitems = h.nitems /\ t.entry = e
              /\ t.h.bkts = At(h.bkts, l, ValSet(b, e.val))
         /\ ~s.done /\ b.full /\ b.key # e.key /\ e.psl > b.psl =>
              /\ ~t.done /\ t.h.nitems = h.nitems /\ t.h.bkts = At(h.bkts, l, e)
              /\ t.loc = After(n, l) /\ t.entry = Farther(b)
         /\ ~s.done /\ b.full /\ b.key # e.key /\ ~(e.psl > b.psl) =>
              /\ ~t.done /\ t.h = h
              /\ t.loc = After(n, l) /\ t.entry = Farther(e)
<1>1. h \in Structs(n) /\ l \in Locs(n) /\ e \in Bkt /\ s.done \in BOOLEAN
  BY DEF Carrying
<1>2. b \in Bkt
  BY <1>1, StructParts DEF Arrays
<1>3. PICK c \in Int : c = h.nitems + 1
  BY <1>1, StructParts
<1>4. PICK a \in Locs(n) : a = NextLoc(h, l) /\ a = After(n, l)
  BY <1>1, StructParts
<1>5. PICK pe \in Nat, pb \in Nat : pe = e.psl + 1 /\ pb = b.psl + 1
  BY <1>1, <1>2 DEF Bkt
<1>6. PICK de \in Bkt, db \in Bkt : de = [e EXCEPT !.psl = pe] /\ db = [b EXCEPT !.psl = pb]
  BY <1>1, <1>2 DEF Bkt
<1>7. PICK g1 : Stores(h, g1, l, e)
  BY DEF Stores
<1>8. PICK g2 : Fills(h, g2, l, e, c)
  BY DEF Fills
<1>9. PICK x \in Vals : x = e.val
  OBVIOUS
<1>10. PICK g3 : Updates(h, g3, l, x)
  BY DEF Updates
<1>11. /\ g1 \in Structs(n) /\ g1.bkts = At(h.bkts, l, e)
       /\ g1.nitems = h.nitems /\ g1.hash = h.hash /\ g1.status = h.status
  BY <1>1, <1>7, Stored
<1>12. /\ g2 \in Structs(n) /\ g2.bkts = At(h.bkts, l, e)
       /\ g2.nitems = c /\ g2.hash = h.hash /\ g2.status = h.status
  BY <1>1, <1>8, Filled
<1>13. /\ g3 \in Structs(n) /\ g3.bkts = At(h.bkts, l, ValSet(b, x))
       /\ g3.nitems = h.nitems /\ g3.hash = h.hash /\ g3.status = h.status
  BY <1>1, <1>9, <1>10, Updated
<1>14. CASE s.done
  BY <1>14 DEF InsertStep
<1>15. CASE ~s.done /\ ~b.full
  <2>1. t = [s EXCEPT !.done = TRUE, !.h = g2]
    BY <1>3, <1>8, <1>15 DEF InsertStep, Fills
  <2> QED BY <1>1, <1>3, <1>12, <1>15, <2>1 DEF Carrying
<1>16. CASE ~s.done /\ b.full /\ b.key = e.key
  <2>1. t = [s EXCEPT !.done = TRUE, !.h = g3]
    BY <1>9, <1>10, <1>16 DEF InsertStep, Updates
  <2> QED BY <1>1, <1>9, <1>13, <1>16, <2>1 DEF Carrying
<1>17. CASE ~s.done /\ b.full /\ b.key # e.key /\ e.psl > b.psl
  <2>1. t = [s EXCEPT !.entry = db, !.loc = a, !.h = g1]
    BY <1>4, <1>5, <1>6, <1>7, <1>17 DEF InsertStep, Stores
  <2> QED BY <1>1, <1>4, <1>5, <1>6, <1>11, <1>17, <2>1 DEF Carrying, Farther
<1>18. CASE ~s.done /\ b.full /\ b.key # e.key /\ ~(e.psl > b.psl)
  <2>1. t = [s EXCEPT !.entry = de, !.loc = a, !.h = h]
    BY <1>4, <1>5, <1>6, <1>18 DEF InsertStep
  <2> QED BY <1>1, <1>4, <1>5, <1>6, <1>18, <2>1 DEF Carrying, Farther
<1> QED BY <1>14, <1>15, <1>16, <1>17, <1>18

\* one key more, or not
Grown(n, h0, h) ==
  \/ h.nitems = h0.nitems /\ Full(n, h.bkts) = Full(n, h0.bkts)
  \/ /\ h.nitems = h0.nitems + 1
     /\ \E l \in Locs(n) : l \notin Full(n, h0.bkts) /\ Full(n, h.bkts) = Full(n, h0.bkts) \cup {l}

\* k and v have been put into h0, or s.entry has yet to be put, which comes to the same
Inserting(n, w, h0, z, k, v, i, s) ==
  /\ s.h.hash = h0.hash /\ s.h.status = h0.status /\ Placed(n, w, s.h.bkts)
  /\ s.done => /\ Pairs(n, s.h.bkts) = Set(Pairs(n, h0.bkts), k, v)
               /\ Grown(n, h0, s.h)
  /\ ~s.done => /\ s.h.nitems = h0.nitems /\ Full(n, s.h.bkts) = Full(n, h0.bkts)
                /\ Carried(n, w, s.h.bkts, s.loc, s.entry)
                /\ i + Off(n, z, s.loc) = Off(n, z, w[k])
                /\ Set(Pairs(n, s.h.bkts), s.entry.key, s.entry.val) = Set(Pairs(n, h0.bkts), k, v)

(* One more round: the empty bucket comes nearer.                          *)
LEMMA Nearer ==
  ASSUME NEW n \in Nat \ {0}, NEW z \in Locs(n), NEW l \in Locs(n), l # z
  PROVE  Off(n, z, After(n, l)) = Off(n, z, l) - 1 /\ Off(n, z, l) \in Nat
BY DEF Off, After, Locs

(* A round of insert.                                                      *)
LEMMA InsertStepOk ==
  ASSUME NEW n \in Nat \ {0}, NEW w \in Homes(n), NEW h0, NEW z \in Locs(n), ~h0.bkts[z].full,
         NEW k, NEW v, NEW i \in Nat, NEW s \in Carrying(n), Inserting(n, w, h0, z, k, v, i, s)
  PROVE  InsertStep(s) \in Carrying(n) /\ Inserting(n, w, h0, z, k, v, i + 1, InsertStep(s))
<1>1. PICK t : t = InsertStep(s)
  OBVIOUS
<1>2. CASE s.done
  <2>1. t = s
    BY <1>1, <1>2 DEF InsertStep
  <2> QED BY <1>1, <1>2, <2>1 DEF Inserting
<1>3. CASE ~s.done
  <2>1. PICK h, l, e, f, b : h = s.h /\ l = s.loc /\ e = s.entry /\ f = h.bkts /\ b = f[l]
    OBVIOUS
  <2>2. /\ h.hash = h0.hash /\ h.status = h0.status /\ Placed(n, w, f) /\ h.nitems = h0.nitems
        /\ Full(n, f) = Full(n, h0.bkts) /\ Carried(n, w, f, l, e)
        /\ i + Off(n, z, l) = Off(n, z, w[k])
        /\ Set(Pairs(n, f), e.key, e.val) = Set(Pairs(n, h0.bkts), k, v)
    BY <1>3, <2>1 DEF Inserting
  <2>3. l \in Locs(n) /\ e \in Bkt /\ e.full /\ e.val \in Vals /\ f \in Arrays(n) /\ b \in Bkt
    BY <2>1, <2>2 DEF Carrying, Carried, Fits, Placed, Arrays
  <2>4. ~f[z].full
    BY <2>2 DEF Full
  <2>5. /\ t \in Carrying(n) /\ t.h.hash = h.hash /\ t.h.status = h.status
        /\ ~b.full => /\ t.done /\ t.h.nitems = h.nitems + 1 /\ t.h.bkts = At(f, l, e)
        /\ b.full /\ b.key = e.key =>
              /\ t.done /\ t.h.nitems = h.nitems /\ t.h.bkts = At(f, l, ValSet(b, e.val))
        /\ b.full /\ b.key # e.key /\ e.psl > b.psl =>
              /\ ~t.done /\ t.h.nitems = h.nitems /\ t.h.bkts = At(f, l, e)
              /\ t.loc = After(n, l) /\ t.entry = Farther(b)
        /\ b.full /\ b.key # e.key /\ ~(e.psl > b.psl) =>
              /\ ~t.done /\ t.h = h
              /\ t.loc = After(n, l) /\ t.entry = Farther(e)
    BY <1>1, <1>3, <2>1, <2>3, InsertShape
  <2>6. PICK g : g = t.h.bkts
    OBVIOUS
  <2>7. CASE ~b.full
    <3>1. Puts(n, f, g, l, e)
      BY <2>3, <2>5, <2>6, <2>7 DEF Puts
    <3>2. /\ Placed(n, w, g) /\ Full(n, g) = Full(n, f) \cup {l} /\ l \notin Full(n, f)
          /\ Pairs(n, g) = Set(Pairs(n, f), e.key, e.val)
      BY <2>1, <2>2, <2>3, <2>7, <3>1, FillOk
    <3>3. Grown(n, h0, t.h)
      BY <2>2, <2>3, <2>5, <2>6, <2>7, <3>2 DEF Grown
    <3>4. t.done
      BY <2>5, <2>7
    <3> QED BY <1>1, <2>2, <2>5, <2>6, <3>2, <3>3, <3>4 DEF Inserting
  <2>8. CASE b.full /\ b.key = e.key
    <3>1. ValSet(b, e.val) \in Bkt /\ ValSet(b, e.val).full
      BY <2>3, <2>8 DEF Bkt, ValSet
    <3>2. Puts(n, f, g, l, ValSet(b, e.val))
      BY <2>3, <2>5, <2>6, <2>8, <3>1 DEF Puts
    <3>3. /\ Placed(n, w, g) /\ Full(n, g) = Full(n, f)
          /\ Pairs(n, g) = Set(Pairs(n, f), e.key, e.val)
      BY <2>1, <2>2, <2>3, <2>8, <3>2, UpdateOk DEF ValSet
    <3>4. Grown(n, h0, t.h)
      BY <2>2, <2>3, <2>5, <2>6, <2>8, <3>3 DEF Grown
    <3>5. t.done
      BY <2>5, <2>8
    <3> QED BY <1>1, <2>2, <2>5, <2>6, <3>3, <3>4, <3>5 DEF Inserting
  <2>9. l # z \/ ~b.full
    BY <2>1, <2>4
  <2>10. ASSUME b.full PROVE (i + 1) + Off(n, z, After(n, l)) = Off(n, z, w[k])
    <3>1. l # z
      BY <2>9, <2>10
    <3>2. Off(n, z, After(n, l)) = Off(n, z, l) - 1 /\ Off(n, z, l) \in Nat
      BY <2>3, <3>1, Nearer
    <3> QED BY <2>2, <3>2
  <2>11. CASE b.full /\ b.key # e.key /\ e.psl > b.psl
    <3>1. Puts(n, f, g, l, e)
      BY <2>3, <2>5, <2>6, <2>11 DEF Puts
    <3>2. PICK d : d = Farther(b)
      OBVIOUS
    <3>3. /\ Placed(n, w, g) /\ Full(n, g) = Full(n, f) /\ Carried(n, w, g, After(n, l), d)
          /\ Set(Pairs(n, g), d.key, d.val) = Set(Pairs(n, f), e.key, e.val)
      BY <2>1, <2>2, <2>3, <2>4, <2>11, <3>1, <3>2, RobOk
    <3>4. t.loc = After(n, l) /\ t.entry = d /\ ~t.done /\ t.h.nitems = h.nitems
      BY <2>5, <2>11, <3>2
    <3> QED BY <1>1, <2>2, <2>5, <2>6, <2>10, <2>11, <3>3, <3>4 DEF Inserting
  <2>12. CASE b.full /\ b.key # e.key /\ ~(e.psl > b.psl)
    <3>1. PICK d : d = Farther(e)
      OBVIOUS
    <3>2. Carried(n, w, f, After(n, l), d) /\ d.key = e.key /\ d.val = e.val
      BY <2>1, <2>2, <2>3, <2>4, <2>12, <3>1, PassOk
    <3>3. t.loc = After(n, l) /\ t.entry = d /\ ~t.done /\ t.h = h /\ g = f
      BY <2>1, <2>5, <2>6, <2>12, <3>1
    <3> QED BY <1>1, <2>1, <2>2, <2>5, <2>6, <2>10, <2>12, <3>2, <3>3 DEF Inserting
  <2> QED BY <2>7, <2>8, <2>11, <2>12
<1> QED BY <1>2, <1>3

InsertLoop(n, init) == Loop(InsertStep, n, init)

(* Each round of insert is an InsertStep.                                  *)
LEMMA InsertRuns ==
  ASSUME NEW n \in Nat, NEW init,
         NEW C, init \in C, \A s \in C : InsertStep(s) \in C
  PROVE  \E g : /\ InsertLoop(n, init) = g[n] /\ g[0] = init /\ \A i \in 0..n : g[i] \in C
                /\ \A i \in 1..n : g[i] = InsertStep(g[i - 1])
<1> DEFINE body(g, i) == IF i = 0 THEN init
                         ELSE CHOOSE y \in {InsertStep(p) : p \in {g[i - 1]}} : TRUE
           A == CHOOSE g : g = [i \in 0..n |-> body(g, i)]
<1>4. InsertLoop(n, init) = A[n]
  BY DEF InsertLoop, Loop
<1>5. ASSUME NEW g, NEW i \in 0..n
      PROVE  body(g, i) = IF i = 0 THEN init ELSE InsertStep(g[i - 1])
  OBVIOUS
<1> HIDE DEF body
<1>6. \E g : g = [i \in 0..n |-> body(g, i)]
  <2>1. PICK F : F = [s \in C |-> InsertStep(s)]
    OBVIOUS
  <2>2. PICK g : Iterated(g, F, init, n) /\ \A i \in 0..n : g[i] \in C
    BY <2>1, Runs
  <2>3. ASSUME NEW i \in 0..n PROVE g[i] = body(g, i)
    <3>1. g[i] = IF i = 0 THEN init ELSE F[g[i - 1]]
      BY <2>2 DEF Iterated
    <3>2. i # 0 => g[i - 1] \in C
      BY <2>2
    <3>3. i # 0 => F[g[i - 1]] = InsertStep(g[i - 1])
      BY <2>1, <3>2
    <3> QED BY <1>5, <3>1, <3>3
  <2> QED BY <2>2, <2>3 DEF Iterated
<1>7. A = [i \in 0..n |-> body(A, i)]
  BY <1>6
<1> HIDE DEF A
<1>8. A[0] = init /\ \A i \in 1..n : A[i] = InsertStep(A[i - 1])
  BY <1>5, <1>7
<1>9. \A i \in 0..n : A[i] \in C
  <2>1. PICK W : W = [i \in 0..n |-> C]
    OBVIOUS
  <2>2. A[0] \in W[0] /\ \A i \in 1..n : A[i - 1] \in W[i - 1] => A[i] \in W[i]
    BY <1>8, <2>1
  <2> QED BY <2>1, <2>2, RoundsStay
<1> QED BY <1>4, <1>8, <1>9

(* What an insertion comes to, in a table with an empty bucket.            *)
LEMMA InsertOk ==
  ASSUME NEW n \in Nat \ {0}, NEW h, Sound(n, h), NEW z \in Locs(n), ~h.bkts[z].full,
         NEW k \in Keys, NEW v \in Vals, NEW r, r = insert(h, k, v)
  PROVE  /\ Sound(n, r) /\ r.hash = h.hash /\ r.status = h.status /\ Grown(n, h, r)
         /\ Pairs(n, r.bkts) = Set(Pairs(n, h.bkts), k, v)
<1>1. PICK w, f : w = HomesOf(h) /\ f = h.bkts
  OBVIOUS
<1>2. w \in Homes(n) /\ Placed(n, w, f) /\ probe_loc(h, k) = w[k] /\ h.size = n /\ h \in Structs(n)
  BY <1>1, StructParts DEF Sound
<1>3. PICK init : init = [h |-> h, loc |-> probe_loc(h, k), entry |-> Entry(k, v, 0), done |-> FALSE]
  OBVIOUS
<1>4. Entry(k, v, 0) \in Bkt /\ w[k] \in Locs(n)
  BY <1>2 DEF Entry, Bkt, Homes
<1>5. PICK e : e = Entry(k, v, 0) /\ e.full /\ e.key = k /\ e.val = v /\ e.psl = 0
  <2>1. LET e == Entry(k, v, 0) IN e.full /\ e.key = k /\ e.val = v /\ e.psl = 0
    BY DEF Entry
  <2> QED BY <2>1
<1>6. Off(n, w[k], w[k]) = 0
  BY <1>4 DEF Off, Locs
<1>7. Carried(n, w, f, w[k], e)
  BY <1>2, <1>4, <1>5, <1>6, SeekFromHome DEF Carried, Fits, Leads
<1>8. init \in Carrying(n) /\ Inserting(n, w, h, z, k, v, 0, init)
  <2>1. Off(n, z, w[k]) \in Nat
    BY <1>4 DEF Off, Locs
  <2>2. init \in Carrying(n)
    BY <1>2, <1>3, <1>4 DEF Carrying
  <2>3. init.h = h /\ init.loc = w[k] /\ init.entry = e /\ ~init.done
    BY <1>2, <1>3, <1>5
  <2> QED BY <1>1, <1>2, <1>5, <1>7, <2>1, <2>2, <2>3 DEF Inserting
<1>9. PICK C : C = {s \in Carrying(n) : \E i \in Nat : Inserting(n, w, h, z, k, v, i, s)}
  OBVIOUS
<1>10. init \in C
  BY <1>8, <1>9
<1>11. ASSUME NEW s \in C PROVE InsertStep(s) \in C
  <2>1. PICK i \in Nat : Inserting(n, w, h, z, k, v, i, s)
    BY <1>9
  <2>2. s \in Carrying(n)
    BY <1>9
  <2>3. InsertStep(s) \in Carrying(n) /\ Inserting(n, w, h, z, k, v, i + 1, InsertStep(s))
    BY <1>2, <2>1, <2>2, InsertStepOk
  <2> QED BY <1>9, <2>3
<1>12. PICK end : end = InsertLoop(n, init)
  OBVIOUS
<1>13. PICK g : /\ end = g[n] /\ g[0] = init /\ \A i \in 0..n : g[i] \in C
                /\ \A i \in 1..n : g[i] = InsertStep(g[i - 1])
  BY <1>10, <1>11, <1>12, InsertRuns
<1>14. PICK W : W = [i \in 0..n |-> {s \in Carrying(n) : Inserting(n, w, h, z, k, v, i, s)}]
  OBVIOUS
<1>15. g[0] \in W[0]
  BY <1>8, <1>13, <1>14
<1>16. ASSUME NEW i \in 1..n, g[i - 1] \in W[i - 1] PROVE g[i] \in W[i]
  <2>1. PICK j \in Nat : j = i - 1 /\ j + 1 = i
    OBVIOUS
  <2>2. g[j] \in Carrying(n) /\ Inserting(n, w, h, z, k, v, j, g[j])
    BY <1>14, <1>16, <2>1
  <2>3. InsertStep(g[j]) \in Carrying(n) /\ Inserting(n, w, h, z, k, v, j + 1, InsertStep(g[j]))
    BY <1>2, <2>2, InsertStepOk
  <2> QED BY <1>13, <1>14, <2>1, <2>3
<1>17. \A i \in 0..n : g[i] \in W[i]
  BY <1>15, <1>16, RoundsStay
<1>18. end \in Carrying(n) /\ Inserting(n, w, h, z, k, v, n, end)
  BY <1>13, <1>14, <1>17
<1>19. end.done
  <2> SUFFICES ASSUME ~end.done PROVE FALSE
    OBVIOUS
  <2>1. n + Off(n, z, end.loc) = Off(n, z, w[k]) /\ end.loc \in Locs(n)
    BY <1>18 DEF Inserting, Carrying
  <2>2. Off(n, z, end.loc) \in Locs(n) /\ Off(n, z, w[k]) \in Locs(n)
    BY <1>4, <2>1, Remainders
  <2> QED BY <2>1, <2>2 DEF Locs
<1>20. r = end.h
  BY <1>2, <1>3, <1>12, <1>19 DEF insert, InsertLoop
<1>21. r \in Structs(n) /\ r.hash = h.hash /\ r.size = h.size
  BY <1>2, <1>18, <1>20, StructParts DEF Inserting, Carrying
<1>22. HomesOf(r) = w
  BY <1>1, <1>21 DEF HomesOf
<1> QED BY <1>1, <1>18, <1>19, <1>20, <1>21, <1>22 DEF Inserting, Sound

-----------------------------------------------------------------------------
(* The shift back after a deletion.                                        *)

\* what a table that keeps to the rules becomes when bucket o is emptied: the
\* next bucket may miss its predecessor, but not the one before that
Holed(n, w, f, o) ==
  /\ f \in Arrays(n) /\ AtPsl(n, w, f) /\ Unique(n, f) /\ f[o] = EmptyBkt
  /\ \A i \in Full(n, f) : i # After(n, o) => Leads(f, Prev(n, i), f[i].psl)
  /\ f[After(n, o)].full =>
       LET q == f[After(n, o)].psl
       IN  q > 1 => f[Prev(n, o)].full /\ f[Prev(n, o)].psl >= q - 2

(* An empty bucket is a bucket.                                            *)
LEMMA EmptyIsBkt == EmptyBkt \in Bkt /\ ~EmptyBkt.full /\ EmptyBkt.psl = 0
BY DEF EmptyBkt, Bkt

(* A bucket is emptied.                                                    *)
LEMMA ClearAt ==
  ASSUME NEW n \in Nat \ {0}, NEW f \in Arrays(n), NEW l \in Locs(n),
         NEW g, g = At(f, l, EmptyBkt)
  PROVE  /\ g \in Arrays(n) /\ g[l] = EmptyBkt /\ \A i \in Locs(n) : i # l => g[i] = f[i]
         /\ Full(n, g) = Full(n, f) \ {l}
<1>1. PICK e \in Bkt : e = EmptyBkt /\ ~e.full
  BY EmptyIsBkt
<1>2. g \in Arrays(n) /\ g[l] = e /\ \A i \in Locs(n) : i # l => g[i] = f[i]
  BY <1>1 DEF At, Arrays
<1>3. Full(n, g) = Full(n, f) \ {l}
  BY <1>1, <1>2 DEF Full
<1> QED BY <1>1, <1>2, <1>3

(* What the buckets hold then.                                             *)
LEMMA ClearPairs ==
  ASSUME NEW n \in Nat \ {0}, NEW w \in Homes(n), NEW f, Placed(n, w, f), NEW l \in Full(n, f),
         NEW g, g = At(f, l, EmptyBkt)
  PROVE  Pairs(n, g) = {p \in Pairs(n, f) : p[1] # f[l].key}
<1>1. l \in Locs(n) /\ f \in Arrays(n)
  BY DEF Full, Placed
<1>2. \A i \in Locs(n) : i # l => g[i] = f[i]
  BY <1>1, ClearAt
<1>3. Full(n, g) = Full(n, f) \ {l}
  BY <1>1, ClearAt
<1>4. PICK Q : Q = {p \in Pairs(n, f) : p[1] # f[l].key}
  OBVIOUS
<1>5. ASSUME NEW p \in Pairs(n, g) PROVE p \in Q
  <2>1. PICK i \in Full(n, g) : p = <<g[i].key, g[i].val>>
    BY DEF Pairs
  <2>2. i \in Full(n, f) /\ i # l /\ g[i] = f[i]
    BY <1>2, <1>3 DEF Full
  <2>3. p \in Pairs(n, f)
    BY <2>1, <2>2 DEF Pairs
  <2>4. f[i].key # f[l].key
    BY <2>2 DEF Placed, Unique
  <2> QED BY <1>4, <2>1, <2>2, <2>3, <2>4
<1>6. ASSUME NEW p \in Q PROVE p \in Pairs(n, g)
  <2>1. PICK i \in Full(n, f) : p = <<f[i].key, f[i].val>>
    BY <1>4 DEF Pairs
  <2>2. i # l
    BY <1>4, <2>1
  <2>3. i \in Full(n, g) /\ g[i] = f[i]
    BY <1>2, <1>3, <2>2 DEF Full
  <2> QED BY <2>1, <2>3 DEF Pairs
<1> QED BY <1>4, <1>5, <1>6

(* Emptying a bucket leaves a hole.                                        *)
LEMMA ClearHoles ==
  ASSUME NEW n \in Nat \ {0}, NEW w \in Homes(n), NEW f, Placed(n, w, f), NEW l \in Full(n, f),
         NEW g, g = At(f, l, EmptyBkt)
  PROVE  Holed(n, w, g, l)
<1>1. l \in Locs(n) /\ f \in Arrays(n) /\ f[l].full
  BY DEF Full, Placed
<1>2. g \in Arrays(n) /\ g[l] = EmptyBkt /\ \A i \in Locs(n) : i # l => g[i] = f[i]
  BY <1>1, ClearAt
<1>3. Full(n, g) = Full(n, f) \ {l}
  BY <1>1, ClearAt
<1>4. ~g[l].full
  BY <1>2, EmptyIsBkt
<1>5. AtPsl(n, w, g)
  BY <1>2, <1>4 DEF Placed, AtPsl
<1>6. Unique(n, g)
  BY <1>2, <1>3 DEF Placed, Unique, Full
<1>7. ASSUME NEW i \in Full(n, g), i # After(n, l) PROVE Leads(g, Prev(n, i), g[i].psl)
  <2>1. i \in Full(n, f) /\ i # l /\ g[i] = f[i]
    BY <1>2, <1>3 DEF Full
  <2>2. Prev(n, i) \in Locs(n) /\ Prev(n, i) # l
    BY <1>1, <1>7, <2>1 DEF Prev, After, Locs, Full
  <2> QED BY <1>2, <2>1, <2>2 DEF Placed, Chained, Leads
<1>8. ASSUME g[After(n, l)].full, g[After(n, l)].psl > 1
      PROVE  g[Prev(n, l)].full /\ g[Prev(n, l)].psl >= g[After(n, l)].psl - 2
  <2>1. PICK a \in Locs(n) : a = After(n, l) /\ Prev(n, a) = l
    BY <1>1, Remainders
  <2>2. a # l /\ g[a] = f[a] /\ a \in Full(n, f)
    BY <1>2, <1>3, <1>4, <1>8, <2>1 DEF Full
  <2>3. PICK p \in Locs(n) : p = Prev(n, l) /\ p # l
    BY <1>1, <2>1, <2>2 DEF Prev, After, Locs
  <2>4. f[l].psl \in Nat /\ f[a].psl \in Nat /\ f[p].psl \in Nat
    BY <1>1 DEF Arrays, Bkt
  <2>5. f[l].psl >= f[a].psl - 1
    BY <1>8, <2>1, <2>2, <2>4 DEF Placed, Chained, Leads
  <2>6. f[p].full /\ f[p].psl >= f[l].psl - 1
    BY <1>8, <2>1, <2>2, <2>3, <2>4, <2>5 DEF Placed, Chained, Leads
  <2> QED BY <1>2, <2>1, <2>2, <2>3, <2>4, <2>5, <2>6
<1> QED BY <1>2, <1>5, <1>6, <1>7, <1>8 DEF Holed

(* A hole before an empty bucket, or before a key that is at home, is none.*)
LEMMA HoleCloses ==
  ASSUME NEW n \in Nat \ {0}, NEW w \in Homes(n), NEW f, NEW o \in Locs(n), Holed(n, w, f, o),
         ~f[After(n, o)].full \/ f[After(n, o)].psl = 0
  PROVE  Placed(n, w, f)
<1>1. ASSUME NEW i \in Full(n, f), i = After(n, o) PROVE Leads(f, Prev(n, i), f[i].psl)
  BY <1>1 DEF Leads, Full
<1>2. Chained(n, f)
  BY <1>1 DEF Holed, Chained
<1> QED BY <1>2 DEF Holed, Placed

\* a key moves back one bucket
Nearby(b) == [b EXCEPT !.psl = b.psl - 1]

MovedBack(n, f, g, o) ==
  g = [f EXCEPT ![o] = Nearby(f[After(n, o)]), ![After(n, o)] = EmptyBkt]

(* The parts of a move.                                                    *)
LEMMA MoveParts ==
  ASSUME NEW n \in Nat \ {0}, NEW f \in Arrays(n), NEW o \in Locs(n), f[o] = EmptyBkt,
         f[After(n, o)].full, f[After(n, o)].psl > 0,
         NEW g, MovedBack(n, f, g, o), NEW a, a = After(n, o)
  PROVE  /\ a \in Locs(n) /\ a # o /\ g \in Arrays(n) /\ g[a] = EmptyBkt /\ ~g[a].full /\ f[a].full
         /\ g[o].full /\ g[o].key = f[a].key /\ g[o].val = f[a].val /\ g[o].psl = f[a].psl - 1
         /\ f[a].psl \in Nat /\ g[o].psl \in Nat /\ ~f[o].full
         /\ \A i \in Locs(n) : i # o /\ i # a => g[i] = f[i]
<1>1. a \in Locs(n)
  BY Remainders
<1>2. PICK b \in Bkt : b = f[a] /\ b.full /\ b.psl > 0
  BY <1>1 DEF Arrays
<1>3. PICK p \in Nat : p = b.psl - 1
  BY <1>2 DEF Bkt
<1>4. PICK c \in Bkt : c = Nearby(b) /\ c.full /\ c.key = b.key /\ c.val = b.val /\ c.psl = p
  <2>1. [b EXCEPT !.psl = p] \in Bkt
    BY DEF Bkt
  <2> QED BY <1>2, <1>3, <2>1 DEF Nearby, Bkt
<1>5. PICK e \in Bkt : e = EmptyBkt /\ ~e.full
  BY EmptyIsBkt
<1>6. a # o
  BY <1>2, <1>5
<1>7. g = [f EXCEPT ![o] = c, ![a] = e]
  BY <1>2, <1>4, <1>5 DEF MovedBack
<1>8. /\ g \in Arrays(n) /\ g[a] = e /\ g[o] = c
      /\ \A i \in Locs(n) : i # o /\ i # a => g[i] = f[i]
  BY <1>1, <1>6, <1>7 DEF Arrays
<1>9. b.psl \in Nat
  BY DEF Bkt
<1> QED BY <1>1, <1>2, <1>3, <1>4, <1>5, <1>6, <1>8, <1>9

(* The hole moves on to where the key was.                                 *)
LEMMA MoveHoles ==
  ASSUME NEW n \in Nat \ {0}, NEW w \in Homes(n), NEW f, NEW o \in Locs(n), Holed(n, w, f, o),
         f[After(n, o)].full, f[After(n, o)].psl > 0,
         NEW g, MovedBack(n, f, g, o)
  PROVE  Holed(n, w, g, After(n, o)) /\ Full(n, g) = (Full(n, f) \cup {o}) \ {After(n, o)}
<1>1. PICK a \in Locs(n) : a = After(n, o)
  BY Remainders
<1>2. /\ a # o /\ g \in Arrays(n) /\ g[a] = EmptyBkt /\ ~g[a].full /\ f[a].full
      /\ g[o].full /\ g[o].key = f[a].key /\ g[o].val = f[a].val /\ g[o].psl = f[a].psl - 1
      /\ f[a].psl \in Nat /\ g[o].psl \in Nat /\ ~f[o].full
      /\ \A i \in Locs(n) : i # o /\ i # a => g[i] = f[i]
  BY <1>1, MoveParts DEF Holed
<1>3. Full(n, g) = (Full(n, f) \cup {o}) \ {a}
  BY <1>2 DEF Full
<1>4. f[a].key \in Keys /\ f[a].val \in Vals /\ f[a].psl = Off(n, a, w[f[a].key])
  BY <1>2 DEF Holed, AtPsl
<1>5. PICK h \in Locs(n) : h = w[f[a].key]
  BY <1>4 DEF Homes
<1>6. g[o].psl = Off(n, o, h) /\ f[a].psl < n
  <2>1. Off(n, a, h) = Off(n, o, h) + 1
    BY <1>1, <1>2, <1>4, <1>5 DEF Off, After, Locs
  <2>2. Off(n, a, h) < n /\ Off(n, a, h) \in Int /\ Off(n, o, h) \in Int
    BY DEF Off, Locs
  <2> QED BY <1>2, <1>4, <1>5, <2>1, <2>2
<1>7. AtPsl(n, w, g)
  BY <1>2, <1>4, <1>5, <1>6 DEF Holed, AtPsl
<1>8. Unique(n, g)
  <2> SUFFICES ASSUME NEW i \in Full(n, g), NEW j \in Full(n, g), g[i].key = g[j].key
               PROVE  i = j
    BY DEF Unique
  <2>1. PICK i1, j1 : i1 = (IF i = o THEN a ELSE i) /\ j1 = (IF j = o THEN a ELSE j)
    OBVIOUS
  <2>2. i # a /\ j # a /\ i \in Locs(n) /\ j \in Locs(n)
    BY <1>2 DEF Full
  <2>3. i1 \in Full(n, f) /\ f[i1].key = g[i].key
    BY <1>2, <2>1, <2>2 DEF Full
  <2>4. j1 \in Full(n, f) /\ f[j1].key = g[j].key
    BY <1>2, <2>1, <2>2 DEF Full
  <2>5. i1 = j1
    BY <2>3, <2>4 DEF Holed, Unique
  <2> QED BY <2>1, <2>2, <2>5
<1>9. ASSUME NEW i \in Full(n, g), i # After(n, a) PROVE Leads(g, Prev(n, i), g[i].psl)
  <2>1. i # a /\ i \in Locs(n)
    BY <1>2 DEF Full
  <2>2. CASE i = o
    <3>1. PICK p \in Locs(n) : p = Prev(n, o)
      BY Remainders
    <3>2. SUFFICES ASSUME g[o].psl > 0 PROVE g[p].full /\ g[p].psl >= g[o].psl - 1
      BY <2>2, <3>1 DEF Leads
    <3>3. n > 2
      BY <1>2, <1>6, <3>2
    <3>4. p # o /\ p # a
      BY <1>1, <3>1, <3>3 DEF Prev, After, Locs
    <3>5. f[a].psl > 1
      BY <1>2, <3>2
    <3>6. f[p].full /\ f[p].psl >= f[a].psl - 2 /\ g[p] = f[p]
      BY <1>1, <1>2, <3>1, <3>4, <3>5 DEF Holed
    <3>7. f[p].psl \in Nat
      BY DEF Holed, Arrays, Bkt
    <3> QED BY <1>2, <3>6, <3>7
  <2>3. CASE i # o
    <3>1. i \in Full(n, f) /\ g[i] = f[i]
      BY <1>2, <2>1, <2>3 DEF Full
    <3>2. Prev(n, i) \in Locs(n) /\ Prev(n, i) # a /\ Prev(n, i) # o
      BY <1>1, <1>9, <2>1, <2>3 DEF Prev, After, Locs
    <3>3. Leads(f, Prev(n, i), f[i].psl)
      BY <1>1, <2>1, <3>1 DEF Holed
    <3> QED BY <1>2, <3>1, <3>2, <3>3 DEF Leads
  <2> QED BY <2>2, <2>3
<1>10. ASSUME g[After(n, a)].full, g[After(n, a)].psl > 1
       PROVE  g[Prev(n, a)].full /\ g[Prev(n, a)].psl >= g[After(n, a)].psl - 2
  <2>1. PICK c \in Locs(n) : c = After(n, a) /\ Prev(n, c) = a /\ Prev(n, a) = o
    BY <1>1, Remainders
  <2>2. c # a
    BY <1>2, <1>10, <2>1
  <2>3. c # o
    <3> SUFFICES ASSUME c = o PROVE FALSE
      OBVIOUS
    <3>1. n = 2
      BY <1>1, <1>2, <2>1 DEF After, Locs
    <3>2. g[o].psl < 1
      BY <1>2, <1>6, <3>1
    <3> QED BY <1>2, <1>10, <2>1, <3>2
  <2>4. g[c] = f[c] /\ c \in Full(n, f)
    BY <1>2, <1>10, <2>1, <2>2, <2>3 DEF Full
  <2>5. f[c].psl \in Nat
    BY DEF Holed, Arrays, Bkt
  <2>6. Leads(f, a, f[c].psl)
    BY <1>1, <2>1, <2>2, <2>4 DEF Holed
  <2>7. f[a].psl >= f[c].psl - 1
    BY <1>10, <2>1, <2>4, <2>5, <2>6 DEF Leads
  <2> QED BY <1>2, <2>1, <2>4, <2>5, <2>7
<1> QED BY <1>1, <1>2, <1>3, <1>7, <1>8, <1>9, <1>10 DEF Holed

(* The buckets hold the same as before.                                    *)
LEMMA MovePairs ==
  ASSUME NEW n \in Nat \ {0}, NEW f \in Arrays(n), NEW o \in Locs(n), f[o] = EmptyBkt,
         f[After(n, o)].full, f[After(n, o)].psl > 0,
         NEW g, MovedBack(n, f, g, o)
  PROVE  Pairs(n, g) = Pairs(n, f)
<1>1. PICK a \in Locs(n) : a = After(n, o)
  BY Remainders
<1>2. /\ a # o /\ g \in Arrays(n) /\ ~g[a].full /\ f[a].full
      /\ g[o].full /\ g[o].key = f[a].key /\ g[o].val = f[a].val /\ ~f[o].full
      /\ \A i \in Locs(n) : i # o /\ i # a => g[i] = f[i]
  BY <1>1, MoveParts
<1>3. ASSUME NEW p \in Pairs(n, g) PROVE p \in Pairs(n, f)
  <2>1. PICK i \in Full(n, g) : p = <<g[i].key, g[i].val>>
    BY DEF Pairs
  <2>2. PICK j : j = IF i = o THEN a ELSE i
    OBVIOUS
  <2>3. j \in Full(n, f) /\ p = <<f[j].key, f[j].val>>
    BY <1>2, <2>1, <2>2 DEF Full
  <2> QED BY <2>3 DEF Pairs
<1>4. ASSUME NEW p \in Pairs(n, f) PROVE p \in Pairs(n, g)
  <2>1. PICK i \in Full(n, f) : p = <<f[i].key, f[i].val>>
    BY DEF Pairs
  <2>2. PICK j : j = IF i = a THEN o ELSE i
    OBVIOUS
  <2>3. j \in Full(n, g) /\ p = <<g[j].key, g[j].val>>
    BY <1>2, <2>1, <2>2 DEF Full
  <2> QED BY <2>3 DEF Pairs
<1> QED BY <1>3, <1>4

(* Counting the full buckets.                                              *)
LEMMA FullCount ==
  ASSUME NEW n \in Nat \ {0}, NEW f
  PROVE  /\ IsFiniteSet(Full(n, f)) /\ Cardinality(Full(n, f)) \in Nat
         /\ Cardinality(Full(n, f)) <= n
         /\ Cardinality(Full(n, f)) < n => \E z \in Locs(n) : ~f[z].full
<1>1. IsFiniteSet(Locs(n)) /\ Cardinality(Locs(n)) = n
  BY FS_Interval DEF Locs
<1>2. Full(n, f) \in SUBSET Locs(n)
  BY DEF Full
<1>3. IsFiniteSet(Full(n, f)) /\ Cardinality(Full(n, f)) <= n
  BY <1>1, <1>2, FS_Subset
<1>4. Cardinality(Full(n, f)) \in Nat
  BY <1>3, FS_CardinalityType
<1>5. ASSUME Cardinality(Full(n, f)) < n PROVE \E z \in Locs(n) : ~f[z].full
  <2>1. Full(n, f) # Locs(n)
    BY <1>1, <1>4, <1>5
  <2> QED BY <2>1 DEF Full
<1> QED BY <1>3, <1>4, <1>5

(* Moving a key back does not change the number of full buckets.           *)
LEMMA CountMove ==
  ASSUME NEW n \in Nat \ {0}, NEW f, NEW o, o \notin Full(n, f), NEW a \in Full(n, f)
  PROVE  Cardinality((Full(n, f) \cup {o}) \ {a}) = Cardinality(Full(n, f))
<1>1. IsFiniteSet(Full(n, f)) /\ Cardinality(Full(n, f)) \in Nat
  BY FullCount
<1>2. PICK S : S = Full(n, f) \cup {o}
  OBVIOUS
<1>3. IsFiniteSet(S) /\ Cardinality(S) = Cardinality(Full(n, f)) + 1
  BY <1>1, <1>2, FS_AddElement
<1>4. Cardinality(S \ {a}) = Cardinality(S) - 1
  BY <1>2, <1>3, FS_RemoveElement
<1> QED BY <1>1, <1>2, <1>3, <1>4

\* where the shift is
Holes(n) == [h : Structs(n), hole : Locs(n), done : BOOLEAN]

(* What a round of the shift makes of a table.                             *)
LEMMA ShiftShape ==
  ASSUME NEW n \in Nat \ {0}, NEW s \in Holes(n), NEW t, t = ShiftStep(s),
         NEW h, h = s.h, NEW o, o = s.hole, NEW f, f = h.bkts, NEW a, a = After(n, o),
         f[o] = EmptyBkt \/ s.done
  PROVE  /\ s.done => t = s
         /\ ~s.done /\ (~f[a].full \/ f[a].psl = 0) =>
              t \in Holes(n) /\ t.done /\ t.h = h /\ t.hole = o
         /\ ~s.done /\ f[a].full /\ f[a].psl # 0 =>
              /\ t \in Holes(n) /\ ~t.done /\ t.hole = a /\ MovedBack(n, f, t.h.bkts, o)
              /\ t.h.nitems = h.nitems /\ t.h.hash = h.hash /\ t.h.status = h.status
<1>1. h \in Structs(n) /\ o \in Locs(n) /\ s.done \in BOOLEAN
  BY DEF Holes
<1>2. f \in Arrays(n) /\ NextLoc(h, o) = a /\ a \in Locs(n)
  BY <1>1, StructParts
<1>3. CASE s.done
  BY <1>3 DEF ShiftStep
<1>4. CASE ~s.done /\ (~f[a].full \/ f[a].psl = 0)
  <2>1. t = [s EXCEPT !.done = TRUE]
    BY <1>2, <1>4 DEF ShiftStep
  <2> QED BY <1>1, <1>4, <2>1 DEF Holes
<1>5. CASE ~s.done /\ f[a].full /\ f[a].psl # 0
  <2>1. PICK g : MovedBack(n, f, g, o)
    BY DEF MovedBack
  <2>2. f[a].psl \in Nat
    BY <1>2 DEF Arrays, Bkt
  <2>3. g \in Arrays(n)
    BY <1>1, <1>2, <1>5, <2>1, <2>2, MoveParts
  <2>4. PICK k : k = [h EXCEPT !.bkts = g]
    OBVIOUS
  <2>5. k \in Structs(n) /\ k.bkts = g /\ k.nitems = h.nitems /\ k.hash = h.hash /\ k.status = h.status
    BY <1>1, <2>3, <2>4 DEF Structs
  <2>6. t = [s EXCEPT !.hole = a, !.h = k]
    BY <1>1, <1>2, <1>5, <2>1, <2>4 DEF ShiftStep, MovedBack, Nearby
  <2> QED BY <1>1, <1>2, <1>5, <2>1, <2>5, <2>6 DEF Holes
<1> QED BY <1>3, <1>4, <1>5

ShiftLoop(n, init) == Loop(ShiftStep, n, init)

(* Each round of the shift is a ShiftStep.                                 *)
LEMMA ShiftRuns ==
  ASSUME NEW n \in Nat, NEW init,
         NEW C, init \in C, \A s \in C : ShiftStep(s) \in C
  PROVE  \E g : /\ ShiftLoop(n, init) = g[n] /\ g[0] = init /\ \A i \in 0..n : g[i] \in C
                /\ \A i \in 1..n : g[i] = ShiftStep(g[i - 1])
<1> DEFINE body(g, i) == IF i = 0 THEN init
                         ELSE CHOOSE y \in {ShiftStep(p) : p \in {g[i - 1]}} : TRUE
           A == CHOOSE g : g = [i \in 0..n |-> body(g, i)]
<1>4. ShiftLoop(n, init) = A[n]
  BY DEF ShiftLoop, Loop
<1>5. ASSUME NEW g, NEW i \in 0..n
      PROVE  body(g, i) = IF i = 0 THEN init ELSE ShiftStep(g[i - 1])
  OBVIOUS
<1> HIDE DEF body
<1>6. \E g : g = [i \in 0..n |-> body(g, i)]
  <2>1. PICK F : F = [s \in C |-> ShiftStep(s)]
    OBVIOUS
  <2>2. PICK g : Iterated(g, F, init, n) /\ \A i \in 0..n : g[i] \in C
    BY <2>1, Runs
  <2>3. ASSUME NEW i \in 0..n PROVE g[i] = body(g, i)
    <3>1. g[i] = IF i = 0 THEN init ELSE F[g[i - 1]]
      BY <2>2 DEF Iterated
    <3>2. i # 0 => g[i - 1] \in C
      BY <2>2
    <3>3. i # 0 => F[g[i - 1]] = ShiftStep(g[i - 1])
      BY <2>1, <3>2
    <3> QED BY <1>5, <3>1, <3>3
  <2> QED BY <2>2, <2>3 DEF Iterated
<1>7. A = [i \in 0..n |-> body(A, i)]
  BY <1>6
<1> HIDE DEF A
<1>8. A[0] = init /\ \A i \in 1..n : A[i] = ShiftStep(A[i - 1])
  BY <1>5, <1>7
<1>9. \A i \in 0..n : A[i] \in C
  <2>1. PICK W : W = [i \in 0..n |-> C]
    OBVIOUS
  <2>2. A[0] \in W[0] /\ \A i \in 1..n : A[i - 1] \in W[i - 1] => A[i] \in W[i]
    BY <1>8, <2>1
  <2> QED BY <2>1, <2>2, RoundsStay
<1> QED BY <1>4, <1>8, <1>9


\* the hole o, left by a deletion in h1 at l, has come to s.hole, or is gone
Shifting(n, w, h1, z, l, i, s) ==
  /\ s.h.hash = h1.hash /\ s.h.status = h1.status /\ s.h.nitems = h1.nitems
  /\ Pairs(n, s.h.bkts) = Pairs(n, h1.bkts)
  /\ Cardinality(Full(n, s.h.bkts)) = Cardinality(Full(n, h1.bkts))
  /\ s.done => Placed(n, w, s.h.bkts)
  /\ ~s.done => /\ Holed(n, w, s.h.bkts, s.hole)
                /\ ~s.h.bkts[z].full /\ z # s.hole
                /\ i + Off(n, z, s.hole) = Off(n, z, l)

(* A round of the shift.                                                   *)
LEMMA ShiftStepOk ==
  ASSUME NEW n \in Nat \ {0}, NEW w \in Homes(n), NEW h1, NEW z \in Locs(n), NEW l,
         NEW i \in Nat, NEW s \in Holes(n), Shifting(n, w, h1, z, l, i, s)
  PROVE  ShiftStep(s) \in Holes(n) /\ Shifting(n, w, h1, z, l, i + 1, ShiftStep(s))
<1>1. PICK t, h, o, f, a : t = ShiftStep(s) /\ h = s.h /\ o = s.hole /\ f = h.bkts /\ a = After(n, o)
  OBVIOUS
<1>2. CASE s.done
  <2>1. t = s
    BY <1>1, <1>2 DEF ShiftStep
  <2> QED BY <1>1, <1>2, <2>1 DEF Shifting
<1>3. CASE ~s.done
  <2>1. /\ h.hash = h1.hash /\ h.status = h1.status /\ h.nitems = h1.nitems
        /\ Pairs(n, f) = Pairs(n, h1.bkts) /\ Cardinality(Full(n, f)) = Cardinality(Full(n, h1.bkts))
        /\ Holed(n, w, f, o) /\ ~f[z].full /\ z # o /\ i + Off(n, z, o) = Off(n, z, l)
    BY <1>1, <1>3 DEF Shifting
  <2>2. o \in Locs(n) /\ a \in Locs(n) /\ f[o] = EmptyBkt /\ f \in Arrays(n)
    BY <1>1, <2>1, Remainders DEF Holes, Holed
  <2>3. /\ ~f[a].full \/ f[a].psl = 0 => t \in Holes(n) /\ t.done /\ t.h = h /\ t.hole = o
        /\ f[a].full /\ f[a].psl # 0 =>
              /\ t \in Holes(n) /\ ~t.done /\ t.hole = a /\ MovedBack(n, f, t.h.bkts, o)
              /\ t.h.nitems = h.nitems /\ t.h.hash = h.hash /\ t.h.status = h.status
    BY <1>1, <1>3, <2>2, ShiftShape
  <2>4. CASE ~f[a].full \/ f[a].psl = 0
    <3>1. Placed(n, w, f)
      BY <1>1, <2>1, <2>2, <2>4, HoleCloses
    <3> QED BY <1>1, <2>1, <2>3, <2>4, <3>1 DEF Shifting
  <2>5. CASE f[a].full /\ f[a].psl # 0
    <3>1. PICK g : g = t.h.bkts
      OBVIOUS
    <3>2. MovedBack(n, f, g, o) /\ f[a].psl > 0
      <4>1. f[a].psl \in Nat
        BY <2>2 DEF Arrays, Bkt
      <4> QED BY <2>3, <2>5, <3>1, <4>1
    <3>3. Holed(n, w, g, a) /\ Full(n, g) = (Full(n, f) \cup {o}) \ {a}
      BY <1>1, <2>1, <2>2, <2>5, <3>2, MoveHoles
    <3>4. Pairs(n, g) = Pairs(n, f)
      BY <1>1, <2>2, <2>5, <3>2, MovePairs
    <3>5. o \notin Full(n, f) /\ a \in Full(n, f)
      BY <2>2, <2>5, EmptyIsBkt DEF Full
    <3>6. Cardinality(Full(n, g)) = Cardinality(Full(n, f))
      BY <3>3, <3>5, CountMove
    <3>7. z # a /\ ~g[z].full
      <4>1. z # a /\ g[z] = f[z]
        BY <1>1, <2>1, <2>2, <2>5, <3>2, MoveParts
      <4> QED BY <2>1, <4>1
    <3>8. (i + 1) + Off(n, z, a) = Off(n, z, l)
      <4>1. Off(n, z, After(n, o)) = Off(n, z, o) - 1 /\ Off(n, z, o) \in Nat
        BY <2>1, <2>2, Nearer
      <4> QED BY <1>1, <2>1, <4>1
    <3> QED BY <1>1, <2>1, <2>3, <2>5, <3>1, <3>3, <3>4, <3>6, <3>7, <3>8 DEF Shifting
  <2> QED BY <2>4, <2>5
<1> QED BY <1>2, <1>3

(* What deleting the key of bucket l comes to.                             *)
LEMMA BackwardOk ==
  ASSUME NEW n \in Nat \ {0}, NEW h, Sound(n, h), NEW z \in Locs(n), ~h.bkts[z].full,
         NEW l \in Full(n, h.bkts), NEW r, r = BackwardShift(h, l)
  PROVE  /\ Sound(n, r) /\ r.hash = h.hash /\ r.status = h.status /\ r.nitems = h.nitems
         /\ Pairs(n, r.bkts) = {p \in Pairs(n, h.bkts) : p[1] # h.bkts[l].key}
         /\ Cardinality(Full(n, r.bkts)) = Cardinality(Full(n, h.bkts)) - 1
<1>1. PICK w, f : w = HomesOf(h) /\ f = h.bkts
  OBVIOUS
<1>2. w \in Homes(n) /\ Placed(n, w, f) /\ h.size = n /\ h \in Structs(n) /\ f \in Arrays(n)
  BY <1>1, StructParts DEF Sound
<1>3. l \in Locs(n) /\ f[l].full /\ z # l /\ l \in Full(n, f)
  BY <1>1 DEF Full
<1>4. PICK e \in Bkt : e = EmptyBkt
  BY EmptyIsBkt
<1>5. PICK h1 : Stores(h, h1, l, e)
  BY DEF Stores
<1>6. /\ h1 \in Structs(n) /\ h1.bkts = At(f, l, e)
      /\ h1.nitems = h.nitems /\ h1.hash = h.hash /\ h1.status = h.status /\ h1.size = h.size
  BY <1>1, <1>2, <1>3, <1>5, Stored
<1>7. PICK f1 : f1 = h1.bkts /\ f1 = At(f, l, EmptyBkt)
  BY <1>4, <1>6
<1>8. Holed(n, w, f1, l) /\ Pairs(n, f1) = {p \in Pairs(n, f) : p[1] # f[l].key}
  BY <1>2, <1>3, <1>7, ClearHoles, ClearPairs
<1>9. Full(n, f1) = Full(n, f) \ {l} /\ \A i \in Locs(n) : i # l => f1[i] = f[i]
  BY <1>2, <1>3, <1>7, ClearAt
<1>10. Cardinality(Full(n, f1)) = Cardinality(Full(n, f)) - 1
  <2>1. IsFiniteSet(Full(n, f))
    BY FullCount
  <2> QED BY <1>3, <1>9, <2>1, FS_RemoveElement
<1>11. PICK init : init = [h |-> h1, hole |-> l, done |-> FALSE]
  OBVIOUS
<1>12. init \in Holes(n) /\ Shifting(n, w, h1, z, l, 0, init)
  <2>1. init \in Holes(n) /\ init.h = h1 /\ init.hole = l /\ ~init.done
    BY <1>3, <1>6, <1>11 DEF Holes
  <2>2. ~f1[z].full
    BY <1>1, <1>3, <1>9
  <2>3. Off(n, z, l) \in Nat
    BY <1>3 DEF Off, Locs
  <2>4. h1.bkts = f1 /\ Holed(n, w, f1, l)
    BY <1>7, <1>8
  <2> QED BY <1>3, <2>1, <2>2, <2>3, <2>4 DEF Shifting
<1>13. PICK C : C = {s \in Holes(n) : \E i \in Nat : Shifting(n, w, h1, z, l, i, s)}
  OBVIOUS
<1>14. init \in C
  BY <1>12, <1>13
<1>15. ASSUME NEW s \in C PROVE ShiftStep(s) \in C
  <2>1. PICK i \in Nat : Shifting(n, w, h1, z, l, i, s)
    BY <1>13
  <2>2. s \in Holes(n)
    BY <1>13
  <2>3. ShiftStep(s) \in Holes(n) /\ Shifting(n, w, h1, z, l, i + 1, ShiftStep(s))
    BY <1>2, <2>1, <2>2, ShiftStepOk
  <2> QED BY <1>13, <2>3
<1>16. PICK end : end = ShiftLoop(n, init)
  OBVIOUS
<1>17. PICK g : /\ end = g[n] /\ g[0] = init /\ \A i \in 0..n : g[i] \in C
                /\ \A i \in 1..n : g[i] = ShiftStep(g[i - 1])
  BY <1>14, <1>15, <1>16, ShiftRuns
<1>18. PICK W : W = [i \in 0..n |-> {s \in Holes(n) : Shifting(n, w, h1, z, l, i, s)}]
  OBVIOUS
<1>19. g[0] \in W[0]
  BY <1>12, <1>17, <1>18
<1>20. ASSUME NEW i \in 1..n, g[i - 1] \in W[i - 1] PROVE g[i] \in W[i]
  <2>1. PICK j \in Nat : j = i - 1 /\ j + 1 = i
    OBVIOUS
  <2>2. g[j] \in Holes(n) /\ Shifting(n, w, h1, z, l, j, g[j])
    BY <1>18, <1>20, <2>1
  <2>3. ShiftStep(g[j]) \in Holes(n) /\ Shifting(n, w, h1, z, l, j + 1, ShiftStep(g[j]))
    BY <1>2, <2>2, ShiftStepOk
  <2> QED BY <1>17, <1>18, <2>1, <2>3
<1>21. \A i \in 0..n : g[i] \in W[i]
  BY <1>19, <1>20, RoundsStay
<1>22. end \in Holes(n) /\ Shifting(n, w, h1, z, l, n, end)
  BY <1>17, <1>18, <1>21
<1>23. end.done
  <2> SUFFICES ASSUME ~end.done PROVE FALSE
    OBVIOUS
  <2>1. n + Off(n, z, end.hole) = Off(n, z, l) /\ end.hole \in Locs(n)
    BY <1>22 DEF Shifting, Holes
  <2>2. Off(n, z, end.hole) \in Locs(n) /\ Off(n, z, l) \in Locs(n)
    BY <1>3, <2>1, Remainders
  <2> QED BY <2>1, <2>2 DEF Locs
<1>24. r = end.h
  BY <1>2, <1>4, <1>5, <1>11, <1>16 DEF BackwardShift, ShiftLoop, Stores
<1>25. r \in Structs(n) /\ r.hash = h.hash /\ r.size = h.size
  BY <1>2, <1>6, <1>22, <1>24, StructParts DEF Shifting, Holes
<1>26. HomesOf(r) = w
  BY <1>1, <1>25 DEF HomesOf
<1> QED BY <1>1, <1>6, <1>7, <1>8, <1>10, <1>22, <1>23, <1>24, <1>25, <1>26 DEF Shifting, Sound

(* As many pairs as full buckets.                                          *)
LEMMA PairsCount ==
  ASSUME NEW n \in Nat \ {0}, NEW w \in Homes(n), NEW f, Placed(n, w, f)
  PROVE  IsFiniteSet(Pairs(n, f)) /\ Cardinality(Pairs(n, f)) = Cardinality(Full(n, f))
<1>1. PICK b : b = [i \in Full(n, f) |-> <<f[i].key, f[i].val>>]
  OBVIOUS
<1>2. b \in [Full(n, f) -> Pairs(n, f)]
  BY <1>1 DEF Pairs
<1>3. \A i, j \in Full(n, f) : b[i] = b[j] => i = j
  BY <1>1 DEF Placed, Unique
<1>4. \A p \in Pairs(n, f) : \E i \in Full(n, f) : b[i] = p
  BY <1>1 DEF Pairs
<1>5. b \in Bijection(Full(n, f), Pairs(n, f))
  BY <1>2, <1>3, <1>4 DEF Bijection, Injection, Surjection, IsInjective
<1>6. ExistsBijection(Full(n, f), Pairs(n, f))
  BY <1>5 DEF ExistsBijection
<1>7. IsFiniteSet(Full(n, f))
  BY FullCount
<1> QED BY <1>6, <1>7, FS_Bijection

-----------------------------------------------------------------------------
(* The map as a whole.                                                     *)

\* a table that keeps to the rules, counts its keys and has an empty bucket
Kept(n, h) == Sound(n, h) /\ h.nitems = Cardinality(Full(n, h.bkts)) /\ h.nitems < n

(* The parts of such a table.                                              *)
LEMMA KeptParts ==
  ASSUME NEW n \in Nat \ {0}, NEW h, Sound(n, h), h.nitems = Cardinality(Full(n, h.bkts))
  PROVE  /\ h \in Structs(n) /\ h.size = n /\ h.nitems \in Nat /\ h.bkts \in Arrays(n)
         /\ HomesOf(h) \in Homes(n) /\ Placed(n, HomesOf(h), h.bkts)
         /\ IsFiniteSet(Pairs(n, h.bkts)) /\ Cardinality(Pairs(n, h.bkts)) = h.nitems
         /\ h.nitems < n => \E z \in Locs(n) : ~h.bkts[z].full
<1>1. /\ h \in Structs(n) /\ h.size = n /\ h.bkts \in Arrays(n)
      /\ HomesOf(h) \in Homes(n) /\ Placed(n, HomesOf(h), h.bkts)
  BY StructParts DEF Sound
<1>2. h.nitems \in Nat /\ (h.nitems < n => \E z \in Locs(n) : ~h.bkts[z].full)
  BY FullCount
<1>3. IsFiniteSet(Pairs(n, h.bkts)) /\ Cardinality(Pairs(n, h.bkts)) = Cardinality(Full(n, h.bkts))
  BY <1>1, PairsCount
<1> QED BY <1>1, <1>2, <1>3

(* An insertion counts the key if it is new.                               *)
LEMMA InsertCounts ==
  ASSUME NEW n \in Nat \ {0}, NEW h, Kept(n, h), NEW k \in Keys, NEW v \in Vals,
         NEW r, r = insert(h, k, v)
  PROVE  /\ Sound(n, r) /\ r.nitems = Cardinality(Full(n, r.bkts)) /\ r.nitems <= h.nitems + 1
         /\ r.hash = h.hash /\ r.status = h.status
         /\ Pairs(n, r.bkts) = Set(Pairs(n, h.bkts), k, v)
<1>1. Sound(n, h) /\ h.nitems = Cardinality(Full(n, h.bkts)) /\ h.nitems \in Nat
  BY KeptParts DEF Kept
<1>2. PICK z \in Locs(n) : ~h.bkts[z].full
  BY KeptParts DEF Kept
<1>3. /\ Sound(n, r) /\ r.hash = h.hash /\ r.status = h.status /\ Grown(n, h, r)
      /\ Pairs(n, r.bkts) = Set(Pairs(n, h.bkts), k, v)
  BY <1>1, <1>2, InsertOk
<1>4. IsFiniteSet(Full(n, h.bkts))
  BY FullCount
<1>5. r.nitems = Cardinality(Full(n, r.bkts)) /\ r.nitems <= h.nitems + 1
  <2>1. CASE r.nitems = h.nitems /\ Full(n, r.bkts) = Full(n, h.bkts)
    BY <1>1, <2>1
  <2>2. CASE ~(r.nitems = h.nitems /\ Full(n, r.bkts) = Full(n, h.bkts))
    <3>1. PICK l \in Locs(n) : /\ r.nitems = h.nitems + 1 /\ l \notin Full(n, h.bkts)
                               /\ Full(n, r.bkts) = Full(n, h.bkts) \cup {l}
      BY <1>3, <2>2 DEF Grown
    <3>2. Cardinality(Full(n, h.bkts) \cup {l}) = Cardinality(Full(n, h.bkts)) + 1
      BY <1>4, <3>1, FS_AddElement
    <3> QED BY <1>1, <3>1, <3>2
  <2> QED BY <2>1, <2>2
<1> QED BY <1>3, <1>5

(* A new array.                                                            *)
LEMMA FreshKept ==
  ASSUME NEW m \in Nat \ {0}, NEW newhash \in [Keys -> Hashes],
         NEW h, h = [size |-> m, nitems |-> 0, hash |-> newhash, bkts |-> EmptyBkts(m), status |-> 0]
  PROVE  Kept(m, h) /\ Pairs(m, h.bkts) = {} /\ h.nitems = 0 /\ h.status = 0 /\ h.hash = newhash
<1>1. PICK e \in Bkt : e = EmptyBkt /\ ~e.full
  BY EmptyIsBkt
<1>2. PICK f \in Arrays(m) : f = EmptyBkts(m) /\ \A i \in Locs(m) : f[i] = e
  BY <1>1 DEF EmptyBkts, Arrays, Locs
<1>3. h.bkts = f /\ h.nitems = 0 /\ h.status = 0 /\ h.hash = newhash /\ h \in Structs(m)
  BY <1>2 DEF Structs
<1>4. Full(m, f) = {}
  BY <1>1, <1>2 DEF Full
<1>5. Placed(m, HomesOf(h), f)
  BY <1>1, <1>2, <1>4 DEF Placed, AtPsl, Chained, Unique
<1>6. Pairs(m, f) = {}
  BY <1>4 DEF Pairs
<1> QED BY <1>3, <1>4, <1>5, <1>6, FS_EmptySet DEF Kept, Sound

\* one round of resize
ReinsertStep(h, s) ==
  LET b == h.bkts[s.i]
  IN  [i |-> s.i + 1,
       h |-> IF ~b.full \/ s.h.status # 0 THEN s.h ELSE insert(s.h, b.key, b.val)]

ReinsertLoop(h, n, init) ==
  LET Step(s) == ReinsertStep(h, s)
  IN  Loop(Step, n, init)

(* The rounds of resize.                                                   *)
LEMMA ReinsertRuns ==
  ASSUME NEW n \in Nat, NEW init, NEW h, NEW W, init \in W[0],
         \A i \in 1..n : \A s \in W[i - 1] : ReinsertStep(h, s) \in W[i]
  PROVE  \E g : /\ ReinsertLoop(h, n, init) = g[n] /\ g[0] = init /\ \A i \in 0..n : g[i] \in W[i]
                /\ \A i \in 1..n : g[i] = ReinsertStep(h, g[i - 1])
<1> DEFINE body(g, i) == IF i = 0 THEN init
                         ELSE CHOOSE y \in {ReinsertStep(h, p) : p \in {g[i - 1]}} : TRUE
           A == CHOOSE g : g = [i \in 0..n |-> body(g, i)]
<1>1. ReinsertLoop(h, n, init) = A[n]
  BY DEF ReinsertLoop, Loop
<1>2. ASSUME NEW g, NEW i \in 0..n
      PROVE  body(g, i) = IF i = 0 THEN init ELSE ReinsertStep(h, g[i - 1])
  OBVIOUS
<1> HIDE DEF body
<1>3. \E g : g = [i \in 0..n |-> body(g, i)]
  <2>1. PICK C : C = UNION {W[i] : i \in 0..n}
    OBVIOUS
  <2>2. PICK F : F = [s \in C |-> IF ReinsertStep(h, s) \in C THEN ReinsertStep(h, s) ELSE s]
    OBVIOUS
  <2>3. \A i \in 0..n : W[i] \subseteq C
    BY <2>1
  <2>4. init \in C /\ \A s \in C : F[s] \in C
    BY <2>2, <2>3
  <2>5. PICK g : Iterated(g, F, init, n) /\ \A i \in 0..n : g[i] \in C
    BY <2>4, Runs
  <2>6. ASSUME NEW i \in 1..n, g[i - 1] \in W[i - 1]
        PROVE  g[i] = ReinsertStep(h, g[i - 1]) /\ g[i] \in W[i]
    <3>1. g[i] = F[g[i - 1]] /\ i - 1 \in 0..n /\ i \in 0..n
      BY <2>5 DEF Iterated
    <3>2. ReinsertStep(h, g[i - 1]) \in W[i]
      BY <2>6
    <3>3. ReinsertStep(h, g[i - 1]) \in C /\ g[i - 1] \in C
      BY <2>3, <2>5, <3>1, <3>2
    <3> QED BY <2>2, <3>1, <3>2, <3>3
  <2>7. g[0] = init
    BY <2>5 DEF Iterated
  <2>8. \A i \in 0..n : g[i] \in W[i]
    BY <2>6, <2>7, RoundsStay
  <2>9. ASSUME NEW i \in 0..n PROVE g[i] = body(g, i)
    <3>1. CASE i = 0
      BY <1>2, <2>7, <3>1
    <3>2. CASE i # 0
      <4>1. g[i] = ReinsertStep(h, g[i - 1])
        BY <2>6, <2>8, <3>2
      <4> QED BY <1>2, <3>2, <4>1
    <3> QED BY <3>1, <3>2
  <2> QED BY <2>5, <2>9 DEF Iterated
<1>4. A = [i \in 0..n |-> body(A, i)]
  BY <1>3
<1> HIDE DEF A
<1>5. A[0] = init /\ \A i \in 1..n : A[i] = ReinsertStep(h, A[i - 1])
  BY <1>2, <1>4
<1>6. \A i \in 0..n : A[i] \in W[i]
  <2>1. A[0] \in W[0] /\ \A i \in 1..n : A[i - 1] \in W[i - 1] => A[i] \in W[i]
    BY <1>5
  <2> QED BY <2>1, RoundsStay
<1> QED BY <1>1, <1>5, <1>6

\* the pairs of the first i buckets
Upto(n, f, i) == {<<f[j].key, f[j].val>> : j \in {x \in Full(n, f) : x < i}}

\* the first i buckets have been put into m new ones
Moved(n, f, m, newhash, i, s) ==
  /\ s.i = i /\ Sound(m, s.h) /\ s.h.nitems = Cardinality(Full(m, s.h.bkts))
  /\ s.h.status = 0 /\ s.h.hash = newhash /\ Pairs(m, s.h.bkts) = Upto(n, f, i)

(* The first i + 1 buckets.                                                *)
LEMMA UptoNext ==
  ASSUME NEW n \in Nat \ {0}, NEW w \in Homes(n), NEW f, Placed(n, w, f), NEW i \in Locs(n)
  PROVE  /\ ~f[i].full => Upto(n, f, i + 1) = Upto(n, f, i)
         /\ f[i].full => /\ Upto(n, f, i + 1) = Set(Upto(n, f, i), f[i].key, f[i].val)
                         /\ \E p \in Pairs(n, f) : p \notin Upto(n, f, i)
         /\ Upto(n, f, i) \subseteq Pairs(n, f) /\ Upto(n, f, 0) = {} /\ Upto(n, f, n) = Pairs(n, f)
<1>1. \A j \in Full(n, f) : j \in Nat /\ j < n
  BY DEF Full, Locs
<1>2. i \in Nat
  BY DEF Locs
<1>3. ASSUME ~f[i].full PROVE Upto(n, f, i + 1) = Upto(n, f, i)
  <2>1. i \notin Full(n, f)
    BY <1>3 DEF Full
  <2>2. \A x \in Full(n, f) : x < i + 1 <=> x < i
    BY <1>1, <1>2, <2>1
  <2>3. {x \in Full(n, f) : x < i + 1} = {x \in Full(n, f) : x < i}
    BY <2>2
  <2> QED BY <2>3 DEF Upto
<1>4. ASSUME f[i].full
      PROVE  /\ Upto(n, f, i + 1) = Set(Upto(n, f, i), f[i].key, f[i].val)
             /\ \E p \in Pairs(n, f) : p \notin Upto(n, f, i)
  <2>1. i \in Full(n, f)
    BY <1>4 DEF Full
  <2>2. ASSUME NEW p \in Upto(n, f, i) PROVE p[1] # f[i].key
    <3>1. PICK j \in Full(n, f) : j < i /\ p = <<f[j].key, f[j].val>>
      BY DEF Upto
    <3>2. j # i
      BY <1>1, <1>2, <3>1
    <3> QED BY <2>1, <3>1, <3>2 DEF Placed, Unique
  <2>3. PICK P : P = Upto(n, f, i)
    OBVIOUS
  <2>4. PICK q : q = <<f[i].key, f[i].val>> /\ q[1] = f[i].key
    <3>1. <<f[i].key, f[i].val>>[1] = f[i].key
      OBVIOUS
    <3> QED BY <3>1
  <2>5. ASSUME NEW p \in Upto(n, f, i + 1) PROVE p \in P \cup {q}
    <3>1. PICK j \in Full(n, f) : j < i + 1 /\ p = <<f[j].key, f[j].val>>
      BY DEF Upto
    <3>2. CASE j < i
      BY <2>3, <3>1, <3>2 DEF Upto
    <3>3. CASE ~(j < i)
      <4>1. j = i
        BY <1>1, <1>2, <3>1, <3>3
      <4> QED BY <2>4, <3>1, <4>1
    <3> QED BY <3>2, <3>3
  <2>6. ASSUME NEW p \in P PROVE p \in Upto(n, f, i + 1)
    <3>1. PICK j \in Full(n, f) : j < i /\ p = <<f[j].key, f[j].val>>
      BY <2>3 DEF Upto
    <3>2. j < i + 1
      BY <1>1, <1>2, <3>1
    <3> QED BY <3>1, <3>2 DEF Upto
  <2>7. q \in Upto(n, f, i + 1)
    <3>1. i < i + 1
      BY <1>2
    <3> QED BY <2>1, <2>4, <3>1 DEF Upto
  <2>8. Upto(n, f, i + 1) = P \cup {q}
    BY <2>5, <2>6, <2>7
  <2>9. Set(P, f[i].key, f[i].val) = P \cup {q}
    BY <2>2, <2>3, <2>4 DEF Set
  <2>10. q \in Pairs(n, f) /\ q \notin P
    BY <2>1, <2>2, <2>3, <2>4 DEF Pairs
  <2> QED BY <2>3, <2>8, <2>9, <2>10
<1>5. Upto(n, f, i) \subseteq Pairs(n, f)
  BY DEF Upto, Pairs
<1>6. Upto(n, f, 0) = {}
  <2>1. {j \in Full(n, f) : j < 0} = {}
    BY <1>1
  <2> QED BY <2>1 DEF Upto
<1>7. Upto(n, f, n) = Pairs(n, f)
  <2>1. {j \in Full(n, f) : j < n} = Full(n, f)
    BY <1>1
  <2> QED BY <2>1 DEF Upto, Pairs
<1> QED BY <1>3, <1>4, <1>5, <1>6, <1>7

(* A round of resize.                                                      *)
LEMMA ReinsertOk ==
  ASSUME NEW n \in Nat \ {0}, NEW h, Kept(n, h), NEW m \in Nat \ {0}, h.nitems < m,
         NEW newhash, NEW i \in Locs(n), NEW s, Moved(n, h.bkts, m, newhash, i, s)
  PROVE  Moved(n, h.bkts, m, newhash, i + 1, ReinsertStep(h, s))
<1>1. PICK w, f : w = HomesOf(h) /\ f = h.bkts
  OBVIOUS
<1>2. /\ w \in Homes(n) /\ Placed(n, w, f) /\ h.nitems \in Nat
      /\ IsFiniteSet(Pairs(n, f)) /\ Cardinality(Pairs(n, f)) = h.nitems
  BY <1>1, KeptParts DEF Kept
<1>3. PICK t, u, b : t = ReinsertStep(h, s) /\ u = s.h /\ b = f[i]
  OBVIOUS
<1>4. /\ s.i = i /\ Sound(m, u) /\ u.nitems = Cardinality(Full(m, u.bkts))
      /\ u.status = 0 /\ u.hash = newhash /\ Pairs(m, u.bkts) = Upto(n, f, i)
  BY <1>1, <1>3 DEF Moved
<1>5. i \in Nat
  BY DEF Locs
<1>6. CASE ~b.full
  <2>1. t.i = i + 1 /\ t.h = u
    BY <1>1, <1>3, <1>4, <1>6 DEF ReinsertStep
  <2>2. Upto(n, f, i + 1) = Upto(n, f, i)
    BY <1>2, <1>3, <1>6, UptoNext
  <2> QED BY <1>1, <1>3, <1>4, <2>1, <2>2 DEF Moved
<1>7. CASE b.full
  <2>1. t.i = i + 1 /\ t.h = insert(u, b.key, b.val)
    BY <1>1, <1>3, <1>4, <1>7 DEF ReinsertStep
  <2>2. b.key \in Keys /\ b.val \in Vals
    BY <1>2, <1>3, <1>7 DEF Placed, AtPsl
  <2>3. /\ Upto(n, f, i + 1) = Set(Upto(n, f, i), b.key, b.val)
        /\ \E p \in Pairs(n, f) : p \notin Upto(n, f, i)
        /\ Upto(n, f, i) \subseteq Pairs(n, f)
    BY <1>2, <1>3, <1>7, UptoNext
  <2>4. u.nitems < h.nitems
    <3>1. Cardinality(Upto(n, f, i)) = u.nitems /\ u.nitems \in Nat
      BY <1>4, KeptParts
    <3>2. Upto(n, f, i) # Pairs(n, f)
      BY <2>3
    <3>3. /\ Cardinality(Upto(n, f, i)) <= Cardinality(Pairs(n, f))
          /\ Cardinality(Upto(n, f, i)) # Cardinality(Pairs(n, f))
      BY <1>2, <2>3, <3>2, FS_Subset
    <3> QED BY <1>2, <3>1, <3>3
  <2>5. Kept(m, u)
    BY <1>2, <1>4, <2>4, KeptParts DEF Kept
  <2>6. PICK r : r = insert(u, b.key, b.val)
    OBVIOUS
  <2>7. /\ Sound(m, r) /\ r.nitems = Cardinality(Full(m, r.bkts))
        /\ r.hash = u.hash /\ r.status = u.status
        /\ Pairs(m, r.bkts) = Set(Pairs(m, u.bkts), b.key, b.val)
    BY <2>2, <2>5, <2>6, InsertCounts
  <2> QED BY <1>1, <1>3, <1>4, <2>1, <2>3, <2>6, <2>7 DEF Moved
<1> QED BY <1>6, <1>7

(* A share of a number is at most the number.                              *)
LEMMA PercentBelow ==
  ASSUME NEW p \in 1..99, NEW x \in Nat
  PROVE  Percent(p, x) \in Nat /\ Percent(p, x) <= x /\ 100 * Percent(p, x) <= p * x
<1>1. p * x \in Nat /\ p * x <= 100 * x
  OBVIOUS
<1>2. PICK y \in Nat : y = p * x
  BY <1>1
<1>3. y \div 100 \in Nat /\ y \div 100 <= x /\ 100 * (y \div 100) <= y
  BY <1>1, <1>2
<1> QED BY <1>2, <1>3 DEF Percent

(* Resizing keeps every key.                                               *)
LEMMA ResizeOk ==
  ASSUME NEW n \in Nat \ {0}, NEW h, Kept(n, h), NEW m \in Nat \ {0}, h.nitems < m,
         NEW newhash \in [Keys -> Hashes], NEW r, r = resize(h, m, newhash)
  PROVE  Kept(m, r) /\ r.status = 0 /\ r.nitems = h.nitems /\ Pairs(m, r.bkts) = Pairs(n, h.bkts)
<1>1. PICK f, w : f = h.bkts /\ w = HomesOf(h)
  OBVIOUS
<1>2. /\ h.size = n /\ h.nitems \in Nat /\ w \in Homes(n) /\ Placed(n, w, f)
      /\ Cardinality(Pairs(n, f)) = h.nitems
  BY <1>1, KeptParts DEF Kept
<1>3. PICK fresh : fresh = [size |-> m, nitems |-> 0, hash |-> newhash,
                            bkts |-> EmptyBkts(m), status |-> 0]
  OBVIOUS
<1>4. Kept(m, fresh) /\ Pairs(m, fresh.bkts) = {} /\ fresh.status = 0 /\ fresh.hash = newhash
  BY <1>3, FreshKept
<1>5. PICK init : init = [i |-> 0, h |-> fresh]
  OBVIOUS
<1>7. PICK W : W = [i \in 0..n |-> {s \in [i : Nat, h : Structs(m)] : Moved(n, f, m, newhash, i, s)}]
  OBVIOUS
<1>8. init \in W[0]
  <2>1. init \in [i : Nat, h : Structs(m)] /\ init.i = 0 /\ init.h = fresh
    BY <1>4, <1>5 DEF Kept, Sound
  <2>2. Upto(n, f, 0) = {}
    <3>1. 0 \in Locs(n)
      BY DEF Locs
    <3> QED BY <1>2, <3>1, UptoNext
  <2>3. Moved(n, f, m, newhash, 0, init)
    BY <1>4, <2>1, <2>2 DEF Moved, Kept
  <2>4. 0 \in 0..n
    OBVIOUS
  <2> QED BY <1>7, <2>1, <2>3, <2>4
<1>9. ASSUME NEW i \in 1..n, NEW s \in W[i - 1] PROVE ReinsertStep(h, s) \in W[i]
  <2>1. PICK j \in Locs(n) : j = i - 1 /\ j + 1 = i /\ j \in 0..n
    BY DEF Locs
  <2>2. Moved(n, f, m, newhash, j, s)
    BY <1>7, <2>1
  <2>3. Moved(n, f, m, newhash, i, ReinsertStep(h, s))
    BY <1>1, <2>1, <2>2, ReinsertOk
  <2>4. PICK t : t = ReinsertStep(h, s)
    OBVIOUS
  <2>5. t = [i |-> s.i + 1, h |-> t.h]
    BY <2>4 DEF ReinsertStep
  <2>6. t.i = i /\ t.h \in Structs(m)
    BY <2>3, <2>4 DEF Moved, Sound
  <2>7. t \in [i : Nat, h : Structs(m)]
    <3>1. s.i + 1 = t.i
      BY <2>5
    <3> QED BY <2>5, <2>6, <3>1
  <2> QED BY <1>7, <2>3, <2>4, <2>7
<1>10. PICK end : end = ReinsertLoop(h, n, init)
  OBVIOUS
<1>11. end \in W[n]
  <2>1. PICK g : /\ end = g[n] /\ \A i \in 0..n : g[i] \in W[i]
    BY <1>8, <1>9, <1>10, ReinsertRuns
  <2> QED BY <2>1
<1>12. Moved(n, f, m, newhash, n, end)
  BY <1>7, <1>11
<1>13. Upto(n, f, n) = Pairs(n, f)
  <2>1. 0 \in Locs(n)
    BY DEF Locs
  <2> QED BY <1>2, <2>1, UptoNext
<1>14. PICK e : e = end.h
  OBVIOUS
<1>15. /\ Sound(m, e) /\ e.nitems = Cardinality(Full(m, e.bkts)) /\ e.status = 0
       /\ Pairs(m, e.bkts) = Pairs(n, f)
  BY <1>12, <1>13, <1>14 DEF Moved
<1>16. e.nitems = h.nitems
  BY <1>2, <1>15, KeptParts
<1>17. ~(m <= 0 \/ m < Percent(HIGH_WATER_MARK, h.nitems))
  <2>1. HIGH_WATER_MARK \in 1..99
    BY ConfigAssumption DEF ConfigAssumption
  <2>2. Percent(HIGH_WATER_MARK, h.nitems) \in Nat /\ Percent(HIGH_WATER_MARK, h.nitems) <= h.nitems
    BY <1>2, <2>1, PercentBelow
  <2> QED BY <1>2, <2>2
<1>18. r = e
  BY <1>2, <1>3, <1>5, <1>10, <1>14, <1>16, <1>17 DEF resize, ReinsertLoop, ReinsertStep
<1> QED BY <1>1, <1>2, <1>15, <1>16, <1>18 DEF Kept

\* a table as the map keeps it between calls, and what it holds
Good(h) == h.size \in Nat /\ h.size > MinSize /\ Kept(h.size, h)

Held(h) == Pairs(h.size, h.bkts)

(* Below the high mark there is room for two.                              *)
LEMMA RoomLeft ==
  ASSUME NEW n \in Nat, n > MinSize, NEW x \in Nat, x <= Percent(HIGH_WATER_MARK, n)
  PROVE  x + 1 < n
<1>1. PICK p \in 1..99 : p = HIGH_WATER_MARK
  BY ConfigAssumption DEF ConfigAssumption
<1>2. 100 * Percent(p, n) <= p * n /\ Percent(p, n) \in Nat
  BY PercentBelow
<1>3. 100 * x <= p * n
  BY <1>1, <1>2
<1>4. PICK c \in Nat, k \in Nat : c = 100 - p /\ k = MinSize + 1 /\ k <= n
  BY <1>1, ConfigAssumption DEF ConfigAssumption
<1>5. c * k > 100 /\ c * k <= c * n
  BY <1>1, <1>4, RoomAssumption DEF RoomAssumption
<1>6. p * n + c * n = 100 * n
  BY <1>4
<1>7. PICK a \in Int, b \in Int : a = p * n /\ b = c * n
  OBVIOUS
<1>8. b > 100 /\ a + b = 100 * n /\ 100 * x <= a
  BY <1>3, <1>5, <1>6, <1>7
<1> QED BY <1>8

(* Division by a number that is not 0.                                     *)
LEMMA Quotient ==
  ASSUME NEW p \in Nat \ {0}, NEW y \in Nat, NEW x \in Nat, p * x <= y
  PROVE  y \div p \in Nat /\ y \div p >= x
OBVIOUS

(* The size the map shrinks to has room for its keys.                      *)
LEMMA ShrinkRoom ==
  ASSUME NEW x \in Nat, x > MinSize
  PROVE  (100 * x) \div IDEAL_WATER_MARK \in Nat /\ (100 * x) \div IDEAL_WATER_MARK > x
<1>1. PICK p \in 1..99 : p = IDEAL_WATER_MARK
  BY ConfigAssumption DEF ConfigAssumption
<1>2. PICK c \in Nat, k \in Nat : c = 100 - p /\ k = MinSize + 1 /\ k <= x
  BY <1>1, ConfigAssumption DEF ConfigAssumption
<1>3. c * k >= p /\ c * k <= c * x
  BY <1>1, <1>2, RoomAssumption DEF RoomAssumption
<1>4. p * x + c * x = 100 * x
  BY <1>2
<1>5. 100 * x >= p * (x + 1)
  <2>1. p * (x + 1) = p * x + p
    OBVIOUS
  <2>2. PICK a \in Int, b \in Int : a = p * x /\ b = c * x
    OBVIOUS
  <2> QED BY <1>3, <1>4, <2>1, <2>2
<1>6. PICK y \in Nat : y = 100 * x
  OBVIOUS
<1>7. y \div p \in Nat /\ y \div p >= x + 1
  BY <1>5, <1>6, Quotient
<1> QED BY <1>1, <1>6, <1>7

(* The size the map grows to.                                              *)
LEMMA GrowSize ==
  ASSUME SizesExist, NEW h, h.size \in Nat \ {0}
  PROVE  calc_new_size(h).size \in Nat /\ calc_new_size(h).size > h.size + 1
<1>1. PICK n \in Nat \ {0} : n = h.size
  OBVIOUS
<1>2. MAX_GROWTH_STEP \in Nat \ {0}
  BY ConfigAssumption DEF ConfigAssumption
<1>3. PICK q \in Nat : q = MinOf(2 * n, n + MAX_GROWTH_STEP) /\ q > n
  <2>1. 2 * n \in Nat /\ 2 * n > n /\ n + MAX_GROWTH_STEP \in Nat /\ n + MAX_GROWTH_STEP > n
    BY <1>2
  <2> QED BY <2>1 DEF MinOf
<1>4. calc_new_size(h).size = prime_geq(q)
  <2>1. calc_new_size(h).size = prime_geq(MinOf(2 * h.size, h.size + MAX_GROWTH_STEP))
    BY DEF calc_new_size
  <2> QED BY <1>1, <1>3, <2>1
<1>5. prime_geq(q) \in (q + 1)..(4 * q + 3)
  <2>1. q \in Nat \ {0, 1}
    BY <1>3
  <2> QED BY <2>1 DEF SizesExist
<1> QED BY <1>1, <1>3, <1>4, <1>5

(* A failed call leaves the map as it was.                                 *)
LEMMA FailedOk ==
  ASSUME NEW h, Good(h), NEW r, r = [h EXCEPT !.status = -1]
  PROVE  Good(r) /\ r.status = -1 /\ Held(r) = Held(h)
<1>1. PICK n \in Nat \ {0} : n = h.size /\ Kept(n, h)
  BY RoomAssumption, ConfigAssumption DEF Good, RoomAssumption, ConfigAssumption
<1>2. h \in Structs(n)
  BY <1>1 DEF Kept, Sound
<1>3. /\ r \in Structs(n) /\ r.size = h.size /\ r.bkts = h.bkts /\ r.nitems = h.nitems
      /\ r.hash = h.hash /\ r.status = -1
  BY <1>2 DEF Structs
<1>4. HomesOf(r) = HomesOf(h)
  BY <1>3 DEF HomesOf
<1> QED BY <1>1, <1>3, <1>4 DEF Good, Held, Kept, Sound

(* put sets its key and no other, or fails and changes nothing.            *)
LEMMA PutOk ==
  ASSUME SizesExist, NEW h, Good(h), h.status = 0, NEW k \in Keys, NEW v \in Vals,
         NEW newhash \in [Keys -> Hashes], NEW r, r = put(h, k, v, newhash)
  PROVE  /\ Good(r)
         /\ \/ r.status = 0 /\ Held(r) = Set(Held(h), k, v)
            \/ r.status = -1 /\ Held(r) = Held(h)
<1>1. PICK n \in Nat \ {0} : n = h.size /\ n > MinSize /\ Kept(n, h)
  BY RoomAssumption, ConfigAssumption DEF Good, RoomAssumption, ConfigAssumption
<1>2. h.nitems \in Nat /\ h.nitems < n
  BY <1>1, KeptParts DEF Kept
<1>3. PICK new, z : new = calc_new_size(h) /\ z = resize(h, new.size, newhash)
  OBVIOUS
<1>4. r = IF ~new.resize THEN insert(h, k, v)
          ELSE IF new.fails THEN [h EXCEPT !.status = -1]
          ELSE IF z.status # 0 THEN z ELSE insert(z, k, v)
  BY <1>3 DEF put
<1>5. CASE ~new.resize
  <2>1. ~(h.nitems > Percent(HIGH_WATER_MARK, n))
    BY <1>1, <1>3, <1>5 DEF calc_new_size
  <2>2. h.nitems + 1 < n
    <3>1. HIGH_WATER_MARK \in 1..99
      BY ConfigAssumption DEF ConfigAssumption
    <3>2. Percent(HIGH_WATER_MARK, n) \in Nat
      BY <3>1, PercentBelow
    <3> QED BY <1>1, <1>2, <2>1, <3>2, RoomLeft
  <2>3. r = insert(h, k, v)
    BY <1>4, <1>5
  <2>4. /\ Sound(n, r) /\ r.nitems = Cardinality(Full(n, r.bkts)) /\ r.nitems <= h.nitems + 1
        /\ r.status = h.status /\ Pairs(n, r.bkts) = Set(Pairs(n, h.bkts), k, v)
    BY <1>1, <2>3, InsertCounts
  <2>5. r.size = n /\ r.nitems \in Nat
    BY <2>4, KeptParts
  <2> QED BY <1>1, <1>2, <2>2, <2>4, <2>5 DEF Good, Held, Kept
<1>6. CASE new.resize /\ new.fails
  <2>1. r = [h EXCEPT !.status = -1]
    BY <1>4, <1>6
  <2> QED BY <2>1, FailedOk
<1>7. CASE new.resize /\ ~new.fails
  <2>1. PICK m \in Nat \ {0} : m = new.size /\ m > n + 1
    BY <1>1, <1>3, GrowSize
  <2>2. Kept(m, z) /\ z.status = 0 /\ z.nitems = h.nitems /\ Pairs(m, z.bkts) = Pairs(n, h.bkts)
    BY <1>1, <1>2, <1>3, <2>1, ResizeOk
  <2>3. r = insert(z, k, v)
    BY <1>4, <1>7, <2>2
  <2>4. /\ Sound(m, r) /\ r.nitems = Cardinality(Full(m, r.bkts)) /\ r.nitems <= z.nitems + 1
        /\ r.status = z.status /\ Pairs(m, r.bkts) = Set(Pairs(m, z.bkts), k, v)
    BY <2>2, <2>3, InsertCounts
  <2>5. r.size = m /\ r.nitems \in Nat
    BY <2>4, KeptParts
  <2>6. MinSize \in Nat
    BY ConfigAssumption DEF ConfigAssumption
  <2> QED BY <1>1, <1>2, <2>1, <2>2, <2>4, <2>5, <2>6 DEF Good, Held, Kept
<1> QED BY <1>5, <1>6, <1>7

(* Shrinking keeps every key.                                              *)
LEMMA ShrunkOk ==
  ASSUME NEW h, Good(h), h.status = 0, NEW newhash \in [Keys -> Hashes],
         NEW r, r = Shrunk(h, newhash)
  PROVE  Good(r) /\ r.status = 0 /\ Held(r) = Held(h)
<1>1. PICK n \in Nat \ {0} : n = h.size /\ n > MinSize /\ Kept(n, h)
  BY RoomAssumption, ConfigAssumption DEF Good, RoomAssumption, ConfigAssumption
<1>2. h.nitems \in Nat /\ MinSize \in Nat
  BY <1>1, KeptParts, ConfigAssumption DEF Kept, ConfigAssumption
<1>3. CASE ~(h.nitems > MinSize /\ h.nitems < Percent(LOW_WATER_MARK, h.size))
  <2>1. r = h
    BY <1>3 DEF Shrunk
  <2> QED BY <2>1
<1>4. CASE h.nitems > MinSize /\ h.nitems < Percent(LOW_WATER_MARK, h.size)
  <2>1. PICK m \in Nat : m = (100 * h.nitems) \div IDEAL_WATER_MARK /\ m > h.nitems
    BY <1>2, <1>4, ShrinkRoom
  <2>2. r = resize(h, m, newhash)
    BY <1>2, <1>4, <2>1 DEF Shrunk
  <2>3. m \in Nat \ {0}
    BY <1>2, <2>1
  <2>4. Kept(m, r) /\ r.status = 0 /\ Pairs(m, r.bkts) = Pairs(n, h.bkts)
    BY <1>1, <2>1, <2>2, <2>3, ResizeOk
  <2>5. r.size = m
    BY <2>3, <2>4, KeptParts DEF Kept
  <2> QED BY <1>1, <1>2, <1>4, <2>1, <2>4, <2>5 DEF Good, Held
<1> QED BY <1>3, <1>4

\* the pairs P without the key k
Cut(P, k) == {p \in P : p[1] # k}

(* del removes its key and no other, and cannot fail.                      *)
LEMMA DelOk ==
  ASSUME NEW h, Good(h), h.status = 0, NEW k \in Keys,
         NEW newhash \in [Keys -> Hashes], NEW r, r = del(h, k, newhash)
  PROVE  Good(r) /\ r.status = 0 /\ Held(r) = Cut(Held(h), k)
<1>1. PICK n \in Nat \ {0} : n = h.size /\ n > MinSize /\ Kept(n, h)
  BY RoomAssumption, ConfigAssumption DEF Good, RoomAssumption, ConfigAssumption
<1>2. Sound(n, h) /\ h.nitems = Cardinality(Full(n, h.bkts)) /\ h.nitems < n
  BY <1>1 DEF Kept
<1>3. PICK z \in Locs(n) : ~h.bkts[z].full
  BY <1>2, KeptParts
<1>4. /\ h \in Structs(n) /\ h.nitems \in Nat /\ HomesOf(h) \in Homes(n)
      /\ Placed(n, HomesOf(h), h.bkts) /\ h.bkts \in Arrays(n)
  BY <1>2, KeptParts
<1>5. PICK at : at = DelLoc(h, k)
  OBVIOUS
<1>6. /\ at.done /\ at.loc \in Locs(n) /\ at.found \in BOOLEAN
      /\ at.found <=> Has(n, h.bkts, k)
      /\ at.found => h.bkts[at.loc].full /\ h.bkts[at.loc].key = k
  BY <1>2, <1>3, <1>5, DelLocFinds
<1>7. CASE ~at.found
  <2>1. r = h
    BY <1>5, <1>6, <1>7 DEF del
  <2>2. \A p \in Pairs(n, h.bkts) : p[1] # k
    BY <1>4, <1>6, <1>7, PairsUnique
  <2>3. Cut(Held(h), k) = Held(h)
    BY <1>1, <2>2 DEF Cut, Held
  <2> QED BY <2>1, <2>3
<1>8. CASE at.found
  <2>1. PICK l : l = at.loc /\ l \in Full(n, h.bkts) /\ h.bkts[l].key = k
    BY <1>6, <1>8 DEF Full
  <2>2. PICK c \in Int : c = h.nitems - 1
    BY <1>4
  <2>3. PICK g : g = [h EXCEPT !.nitems = c]
    OBVIOUS
  <2>4. /\ g \in Structs(n) /\ g.size = h.size /\ g.bkts = h.bkts /\ g.nitems = c
        /\ g.hash = h.hash /\ g.status = h.status
    BY <1>4, <2>3 DEF Structs
  <2>5. HomesOf(g) = HomesOf(h)
    BY <2>4 DEF HomesOf
  <2>6. Sound(n, g)
    BY <1>4, <2>4, <2>5 DEF Sound
  <2>7. PICK b : b = BackwardShift(g, l)
    OBVIOUS
  <2>8. /\ Sound(n, b) /\ b.hash = g.hash /\ b.status = g.status /\ b.nitems = g.nitems
        /\ Pairs(n, b.bkts) = {p \in Pairs(n, g.bkts) : p[1] # g.bkts[l].key}
        /\ Cardinality(Full(n, b.bkts)) = Cardinality(Full(n, g.bkts)) - 1
    BY <1>3, <2>1, <2>4, <2>6, <2>7, BackwardOk
  <2>9. b.nitems = Cardinality(Full(n, b.bkts)) /\ b.nitems < n
    BY <1>2, <1>4, <2>2, <2>4, <2>8
  <2>10. b.size = n
    BY <2>8, <2>9, KeptParts
  <2>11. Good(b) /\ b.status = 0 /\ Held(b) = Cut(Held(h), k)
    BY <1>1, <2>1, <2>4, <2>8, <2>9, <2>10 DEF Good, Held, Kept, Cut
  <2>12. r = Shrunk(b, newhash)
    BY <1>5, <1>6, <1>8, <2>1, <2>2, <2>3, <2>7 DEF del
  <2> QED BY <2>11, <2>12, ShrunkOk
<1> QED BY <1>6, <1>7, <1>8

-----------------------------------------------------------------------------
(* The map a set of pairs stands for.                                      *)

Rel(P) == P \subseteq Keys \X Vals /\ \A p, q \in P : p[1] = q[1] => p = q

AsMap(P) == [k \in {p[1] : p \in P} |-> CHOOSE v \in Vals : <<k, v>> \in P]

(* The value of a key.                                                     *)
LEMMA AsMapAt ==
  ASSUME NEW P, Rel(P)
  PROVE  /\ \A p \in P : p[1] \in DOMAIN AsMap(P) /\ AsMap(P)[p[1]] = p[2]
         /\ \A k \in DOMAIN AsMap(P) : \E p \in P : p[1] = k
<1>1. ASSUME NEW p \in P PROVE p[1] \in DOMAIN AsMap(P) /\ AsMap(P)[p[1]] = p[2]
  <2>1. PICK k \in Keys, v \in Vals : p = <<k, v>>
    BY DEF Rel
  <2>2. \A x : <<k, x>> \in P <=> x = v
    <3>1. ASSUME NEW x, <<k, x>> \in P PROVE x = v
      <4>1. PICK q : q = <<k, x>> /\ q \in P /\ q[1] = k /\ q[2] = x
        BY <3>1
      <4> QED BY <2>1, <4>1 DEF Rel
    <3> QED BY <2>1, <3>1
  <2>3. (CHOOSE x \in Vals : <<k, x>> \in P) = v
    BY <2>2
  <2>4. k \in {q[1] : q \in P}
    BY <2>1
  <2> QED BY <2>1, <2>3, <2>4 DEF AsMap
<1>2. \A k \in DOMAIN AsMap(P) : \E p \in P : p[1] = k
  BY DEF AsMap
<1> QED BY <1>1, <1>2

(* What AsMap gives is a function.                                         *)
LEMMA AsMapShape ==
  ASSUME NEW P
  PROVE  AsMap(P) = [x \in DOMAIN AsMap(P) |-> AsMap(P)[x]]
<1> DEFINE val(k) == CHOOSE v \in Vals : <<k, v>> \in P
           D == {p[1] : p \in P}
<1>1. AsMap(P) = [k \in D |-> val(k)]
  BY DEF AsMap
<1> HIDE DEF val, D
<1>2. PICK f : f = AsMap(P)
  OBVIOUS
<1>3. f = [x \in DOMAIN f |-> f[x]]
  BY <1>1, <1>2
<1> QED BY <1>2, <1>3

(* put on the pairs is what it is on the map.                              *)
LEMMA AsMapSet ==
  ASSUME NEW P, Rel(P), NEW k \in Keys, NEW v \in Vals
  PROVE  Rel(Set(P, k, v)) /\ AsMap(Set(P, k, v)) = Map!With(AsMap(P), k, v)
<1>1. PICK Q : Q = Set(P, k, v)
  OBVIOUS
<1>2. \A q : q \in Q <=> (q \in P /\ q[1] # k) \/ q = <<k, v>>
  BY <1>1 DEF Set
<1>3. Rel(Q)
  <2>1. Q \subseteq Keys \X Vals
    BY <1>2 DEF Rel
  <2>2. ASSUME NEW p \in Q, NEW q \in Q, p[1] = q[1] PROVE p = q
    BY <1>2, <2>2 DEF Rel
  <2> QED BY <2>1, <2>2 DEF Rel
<1>4. PICK f, g : f = AsMap(P) /\ g = AsMap(Q)
  OBVIOUS
<1>5. ASSUME NEW x PROVE x \in DOMAIN g <=> x \in DOMAIN f \cup {k}
  <2>1. ASSUME x \in DOMAIN g PROVE x \in DOMAIN f \cup {k}
    <3>1. PICK q \in Q : q[1] = x
      BY <1>3, <1>4, <2>1, AsMapAt
    <3>2. x = k \/ (q \in P /\ q[1] = x)
      BY <1>2, <3>1
    <3> QED BY <1>4, <3>2, AsMapAt
  <2>2. ASSUME x \in DOMAIN f, x # k PROVE x \in DOMAIN g
    <3>1. PICK q \in P : q[1] = x
      BY <1>4, <2>2, AsMapAt
    <3>2. q \in Q
      BY <1>2, <2>2, <3>1
    <3> QED BY <1>3, <1>4, <3>1, <3>2, AsMapAt
  <2>3. k \in DOMAIN g
    <3>1. <<k, v>> \in Q /\ <<k, v>>[1] = k
      BY <1>2
    <3>2. PICK q \in Q : q[1] = k
      BY <3>1
    <3> QED BY <1>3, <1>4, <3>2, AsMapAt
  <2> QED BY <2>1, <2>2, <2>3
<1>6. g[k] = v
  <2>2. <<k, v>> \in Q /\ <<k, v>>[1] = k /\ <<k, v>>[2] = v
    BY <1>2
  <2>1. PICK q \in Q : q[1] = k /\ q[2] = v
    BY <2>2
  <2> QED BY <1>3, <1>4, <2>1, AsMapAt
<1>7. ASSUME NEW x \in DOMAIN f, x # k PROVE g[x] = f[x]
  <2>1. PICK q \in P : q[1] = x
    BY <1>4, AsMapAt
  <2>2. q \in Q
    BY <1>2, <1>7, <2>1
  <2>3. g[x] = q[2]
    BY <1>3, <1>4, <2>1, <2>2, AsMapAt
  <2>4. f[x] = q[2]
    BY <1>4, <2>1, AsMapAt
  <2> QED BY <2>3, <2>4
<1>8. g = [x \in DOMAIN f \cup {k} |-> IF x = k THEN v ELSE f[x]]
  <2>1. g = [x \in DOMAIN g |-> g[x]]
    BY <1>4, AsMapShape
  <2>2. DOMAIN g = DOMAIN f \cup {k}
    BY <1>5
  <2>3. \A x \in DOMAIN g : g[x] = IF x = k THEN v ELSE f[x]
    BY <1>6, <1>7, <2>2
  <2> QED BY <2>1, <2>2, <2>3
<1> QED BY <1>1, <1>3, <1>4, <1>8 DEF Map!With

(* del on the pairs is what it is on the map.                              *)
LEMMA AsMapCut ==
  ASSUME NEW P, Rel(P), NEW k
  PROVE  Rel(Cut(P, k)) /\ AsMap(Cut(P, k)) = Map!Without(AsMap(P), k)
<1>1. PICK Q : Q = Cut(P, k)
  OBVIOUS
<1>2. \A q : q \in Q <=> q \in P /\ q[1] # k
  BY <1>1 DEF Cut
<1>3. Rel(Q)
  BY <1>2 DEF Rel
<1>4. PICK f, g : f = AsMap(P) /\ g = AsMap(Q)
  OBVIOUS
<1>5. ASSUME NEW x \in DOMAIN g PROVE x \in DOMAIN f \ {k} /\ g[x] = f[x]
  <2>1. PICK q \in Q : q[1] = x
    BY <1>3, <1>4, AsMapAt
  <2>2. q \in P /\ x # k
    BY <1>2, <2>1
  <2>3. g[x] = q[2]
    BY <1>3, <1>4, <2>1, AsMapAt
  <2>4. f[x] = q[2] /\ x \in DOMAIN f
    BY <1>4, <2>1, <2>2, AsMapAt
  <2> QED BY <2>2, <2>3, <2>4
<1>6. ASSUME NEW x \in DOMAIN f, x # k PROVE x \in DOMAIN g
  <2>1. PICK q \in P : q[1] = x
    BY <1>4, AsMapAt
  <2>2. q \in Q
    BY <1>2, <1>6, <2>1
  <2> QED BY <1>3, <1>4, <2>1, <2>2, AsMapAt
<1>7. g = [x \in DOMAIN f \ {k} |-> f[x]]
  <2>1. g = [x \in DOMAIN g |-> g[x]]
    BY <1>4, AsMapShape
  <2>2. DOMAIN g = DOMAIN f \ {k}
    BY <1>5, <1>6
  <2> QED BY <1>5, <2>1, <2>2
<1> QED BY <1>1, <1>3, <1>4, <1>7 DEF Map!Without

(* A good table holds a map.                                               *)
LEMMA HeldRel ==
  ASSUME NEW h, Good(h)
  PROVE  Rel(Held(h))
<1>1. PICK n \in Nat \ {0} : n = h.size /\ Kept(n, h)
  BY RoomAssumption, ConfigAssumption DEF Good, RoomAssumption, ConfigAssumption
<1>2. HomesOf(h) \in Homes(n) /\ Placed(n, HomesOf(h), h.bkts)
  BY <1>1, KeptParts DEF Kept
<1>3. \A p, q \in Pairs(n, h.bkts) : p[1] = q[1] => p = q
  BY <1>2, PairsUnique
<1>4. Pairs(n, h.bkts) \subseteq Keys \X Vals
  BY <1>2 DEF Pairs, Placed, AtPsl, Full
<1> QED BY <1>1, <1>3, <1>4 DEF Rel, Held

-----------------------------------------------------------------------------
(* merge.                                                                  *)

MergeStep(src, newhashes, s) ==
  [i |-> s.i + 1,
   h |-> IF s.h.status # 0 THEN s.h
         ELSE put(s.h, src[s.i][1], src[s.i][2], newhashes[s.i])]

MergeLoop(src, newhashes, n, init) ==
  LET Step(s) == MergeStep(src, newhashes, s)
  IN  Loop(Step, n, init)

(* The rounds of merge.                                                    *)
LEMMA MergeRuns ==
  ASSUME NEW n \in Nat, NEW init, NEW src, NEW newhashes, NEW W, init \in W[0],
         \A i \in 1..n : \A s \in W[i - 1] : MergeStep(src, newhashes, s) \in W[i]
  PROVE  MergeLoop(src, newhashes, n, init) \in W[n]
<1> DEFINE body(g, i) == IF i = 0 THEN init
                         ELSE CHOOSE y \in {MergeStep(src, newhashes, p) : p \in {g[i - 1]}} : TRUE
           A == CHOOSE g : g = [i \in 0..n |-> body(g, i)]
<1>1. MergeLoop(src, newhashes, n, init) = A[n]
  BY DEF MergeLoop, Loop
<1>2. ASSUME NEW g, NEW i \in 0..n
      PROVE  body(g, i) = IF i = 0 THEN init ELSE MergeStep(src, newhashes, g[i - 1])
  OBVIOUS
<1> HIDE DEF body
<1>3. \E g : g = [i \in 0..n |-> body(g, i)]
  <2>1. PICK C : C = UNION {W[i] : i \in 0..n}
    OBVIOUS
  <2>2. PICK F : F = [s \in C |-> IF MergeStep(src, newhashes, s) \in C THEN MergeStep(src, newhashes, s) ELSE s]
    OBVIOUS
  <2>3. \A i \in 0..n : W[i] \subseteq C
    BY <2>1
  <2>4. init \in C /\ \A s \in C : F[s] \in C
    BY <2>2, <2>3
  <2>5. PICK g : Iterated(g, F, init, n) /\ \A i \in 0..n : g[i] \in C
    BY <2>4, Runs
  <2>6. ASSUME NEW i \in 1..n, g[i - 1] \in W[i - 1]
        PROVE  g[i] = MergeStep(src, newhashes, g[i - 1]) /\ g[i] \in W[i]
    <3>4. i \in 0..n /\ i # 0 /\ i - 1 \in 0..n
      OBVIOUS
    <3>1. g[i] = F[g[i - 1]] /\ i - 1 \in 0..n /\ i \in 0..n
      BY <2>5, <3>4 DEF Iterated
    <3>2. MergeStep(src, newhashes, g[i - 1]) \in W[i]
      BY <2>6
    <3>3. MergeStep(src, newhashes, g[i - 1]) \in C /\ g[i - 1] \in C
      BY <2>3, <2>5, <3>1, <3>2
    <3> QED BY <2>2, <3>1, <3>2, <3>3
  <2>7. g[0] = init
    BY <2>5 DEF Iterated
  <2>8. \A i \in 0..n : g[i] \in W[i]
    BY <2>6, <2>7, RoundsStay
  <2>9. ASSUME NEW i \in 0..n PROVE g[i] = body(g, i)
    <3>1. CASE i = 0
      BY <1>2, <2>7, <3>1
    <3>2. CASE i # 0
      <4>1. g[i] = MergeStep(src, newhashes, g[i - 1])
        BY <2>6, <2>8, <3>2
      <4> QED BY <1>2, <3>2, <4>1
    <3> QED BY <3>1, <3>2
  <2> QED BY <2>5, <2>9 DEF Iterated
<1>4. A = [i \in 0..n |-> body(A, i)]
  BY <1>3
<1> HIDE DEF A
<1>5. A[0] = init /\ \A i \in 1..n : A[i] = MergeStep(src, newhashes, A[i - 1])
  BY <1>2, <1>4
<1>6. \A i \in 0..n : A[i] \in W[i]
  <2>1. A[0] \in W[0] /\ \A i \in 1..n : A[i - 1] \in W[i - 1] => A[i] \in W[i]
    BY <1>5
  <2> QED BY <2>1, RoundsStay
<1> QED BY <1>1, <1>5, <1>6


(* What Merged of HMap gives, from a sequence of maps.                     *)
LEMMA MergedIs ==
  ASSUME NEW STATE src, NEW j \in Nat, NEW STATE M, M[0] = Contents,
         \A i \in 1..j : M[i] = Map!With(M[i - 1], src[i][1], src[i][2])
  PROVE  Map!Merged(src, j) = M[j]
<1> DEFINE body(g, i) == IF i = 0 THEN Contents ELSE Map!With(g[i - 1], src[i][1], src[i][2])
           A == CHOOSE g : g = [i \in 0..j |-> body(g, i)]
<1>1. Map!Merged(src, j) = A[j]
  BY DEF Map!Merged
<1>2. \E g : g = [i \in 0..j |-> body(g, i)]
  <2>1. PICK g : g = [i \in 0..j |-> M[i]]
    OBVIOUS
  <2>2. ASSUME NEW i \in 0..j PROVE g[i] = body(g, i)
    <3>1. CASE i = 0
      BY <2>1, <3>1
    <3>2. CASE i # 0
      <4>1. i \in 1..j /\ i - 1 \in 0..j
        BY <3>2
      <4>2. g[i] = M[i] /\ g[i - 1] = M[i - 1]
        BY <2>1, <4>1
      <4> QED BY <3>2, <4>1, <4>2
    <3> QED BY <3>1, <3>2
  <2> HIDE DEF body
  <2> QED BY <2>1, <2>2
<1>3. A = [i \in 0..j |-> body(A, i)]
  <2> HIDE DEF body
  <2> QED BY <1>2
<1> HIDE DEF A
<1>4. A[0] = M[0] /\ \A i \in 1..j : A[i - 1] = M[i - 1] => A[i] = M[i]
  BY <1>3
<1>5. PICK W : W = [i \in 0..j |-> {M[i]}]
  OBVIOUS
<1>6. A[0] \in W[0] /\ \A i \in 1..j : A[i - 1] \in W[i - 1] => A[i] \in W[i]
  BY <1>4, <1>5
<1>7. \A i \in 0..j : A[i] \in W[i]
  BY <1>6, RoundsStay
<1> QED BY <1>1, <1>5, <1>7

\* m is what the first j pairs of src make of the map m0
Becoming(src, m0, j, m) ==
  \E M : /\ M[0] = m0 /\ M[j] = m
         /\ \A i \in 1..j : M[i] = Map!With(M[i - 1], src[i][1], src[i][2])

(* One pair more.                                                          *)
LEMMA BecomingNext ==
  ASSUME NEW src, NEW m0, NEW j \in Nat, NEW m, Becoming(src, m0, j, m)
  PROVE  Becoming(src, m0, j + 1, Map!With(m, src[j + 1][1], src[j + 1][2]))
<1>1. PICK M : /\ M[0] = m0 /\ M[j] = m
               /\ \A i \in 1..j : M[i] = Map!With(M[i - 1], src[i][1], src[i][2])
  BY DEF Becoming
<1>2. PICK y : y = Map!With(m, src[j + 1][1], src[j + 1][2])
  OBVIOUS
<1>3. PICK L : L = [i \in 0..(j + 1) |-> IF i = j + 1 THEN y ELSE M[i]]
  OBVIOUS
<1>4. L[0] = m0 /\ L[j + 1] = y /\ L[j] = m
  BY <1>1, <1>3
<1>5. ASSUME NEW i \in 1..(j + 1) PROVE L[i] = Map!With(L[i - 1], src[i][1], src[i][2])
  <2>1. CASE i = j + 1
    <3>1. i - 1 = j
      BY <2>1
    <3> QED BY <1>2, <1>4, <2>1, <3>1
  <2>2. CASE i # j + 1
    <3>1. i \in 1..j /\ i \in 0..(j + 1) /\ i - 1 \in 0..(j + 1) /\ i - 1 # j + 1
      BY <2>2
    <3>2. L[i] = M[i] /\ L[i - 1] = M[i - 1]
      BY <1>3, <2>2, <3>1
    <3> QED BY <1>1, <3>1, <3>2
  <2> QED BY <2>1, <2>2
<1> QED BY <1>2, <1>4, <1>5 DEF Becoming

Tables == UNION {Structs(n) : n \in Nat \ {0}}

(* A good table is one of those.                                           *)
LEMMA GoodTable ==
  ASSUME NEW h, Good(h)
  PROVE  h \in Tables /\ h.status \in {0, -1}
<1>1. PICK n \in Nat \ {0} : n = h.size /\ Kept(n, h)
  BY RoomAssumption, ConfigAssumption DEF Good, RoomAssumption, ConfigAssumption
<1>2. h \in Structs(n)
  BY <1>1 DEF Kept, Sound
<1> QED BY <1>2 DEF Tables, Structs

\* where merge is after i rounds
Merging(src, m0, i, s) ==
  /\ s.i = i + 1 /\ Good(s.h)
  /\ \E j \in 0..i : Becoming(src, m0, j, AsMap(Held(s.h))) /\ (s.h.status = 0 => j = i)

(* A round of merge.                                                       *)
LEMMA MergeStepOk ==
  ASSUME SizesExist, NEW src \in Seq(Keys \X Vals), NEW m0, NEW newhashes \in [1..Len(src) -> [Keys -> Hashes]],
         NEW i \in Nat, i + 1 \in 1..Len(src), NEW s, Merging(src, m0, i, s)
  PROVE  Merging(src, m0, i + 1, MergeStep(src, newhashes, s))
<1>1. PICK t, u : t = MergeStep(src, newhashes, s) /\ u = s.h
  OBVIOUS
<1>2. PICK j \in 0..i : Becoming(src, m0, j, AsMap(Held(u))) /\ (u.status = 0 => j = i)
  BY <1>1 DEF Merging
<1>3. s.i = i + 1 /\ Good(u)
  BY <1>1 DEF Merging
<1>4. t.i = (i + 1) + 1
  BY <1>1, <1>3 DEF MergeStep
<1>5. CASE u.status # 0
  <2>1. t.h = u
    BY <1>1, <1>5 DEF MergeStep
  <2>2. j \in 0..(i + 1)
    BY <1>2
  <2> QED BY <1>1, <1>2, <1>3, <1>4, <1>5, <2>1, <2>2 DEF Merging
<1>6. CASE u.status = 0
  <2>1. PICK k \in Keys, v \in Vals : k = src[i + 1][1] /\ v = src[i + 1][2]
    <3>1. src[i + 1] \in Keys \X Vals
      OBVIOUS
    <3> QED BY <3>1
  <2>0. PICK newhash \in [Keys -> Hashes] : newhash = newhashes[i + 1]
    OBVIOUS
  <2>2. t.h = put(u, k, v, newhash)
    BY <1>1, <1>3, <1>6, <2>0, <2>1 DEF MergeStep
  <2>3. PICK r : r = put(u, k, v, newhash)
    OBVIOUS
  <2>4. /\ Good(r)
        /\ \/ r.status = 0 /\ Held(r) = Set(Held(u), k, v)
           \/ r.status = -1 /\ Held(r) = Held(u)
    BY <1>3, <1>6, <2>3, PutOk
  <2>5. CASE r.status = 0 /\ Held(r) = Set(Held(u), k, v)
    <3>1. Rel(Held(u))
      BY <1>3, HeldRel
    <3>2. AsMap(Held(r)) = Map!With(AsMap(Held(u)), src[i + 1][1], src[i + 1][2])
      BY <2>1, <2>5, <3>1, AsMapSet
    <3>3. Becoming(src, m0, i, AsMap(Held(u)))
      BY <1>2, <1>6
    <3>4. Becoming(src, m0, i + 1, AsMap(Held(r)))
      BY <3>2, <3>3, BecomingNext
    <3>5. i + 1 \in 0..(i + 1)
      OBVIOUS
    <3> QED BY <1>1, <1>4, <2>2, <2>3, <2>4, <3>4, <3>5 DEF Merging
  <2>6. CASE r.status = -1 /\ Held(r) = Held(u)
    <3>1. j \in 0..(i + 1) /\ r.status # 0
      BY <1>2, <2>6
    <3> QED BY <1>1, <1>2, <1>4, <2>2, <2>3, <2>4, <2>6, <3>1 DEF Merging
  <2> QED BY <2>4, <2>5, <2>6
<1> QED BY <1>5, <1>6

(* merge puts a first part of its pairs, in their order.                   *)
LEMMA MergeOk ==
  ASSUME SizesExist, NEW h, Good(h), h.status = 0, NEW src \in Seq(Keys \X Vals),
         NEW newhashes \in [1..Len(src) -> [Keys -> Hashes]], NEW r, r = merge(h, src, newhashes)
  PROVE  Good(r) /\ \E j \in 0..Len(src) : Becoming(src, AsMap(Held(h)), j, AsMap(Held(r)))
<1>1. PICK n \in Nat : n = Len(src)
  OBVIOUS
<1>2. PICK init, m0 : init = [i |-> 1, h |-> h] /\ m0 = AsMap(Held(h))
  OBVIOUS
<1>3. r = MergeLoop(src, newhashes, n, init).h
  BY <1>1, <1>2 DEF merge, MergeLoop, MergeStep
<1>4. PICK W : W = [i \in 0..n |-> {s \in [i : Nat, h : Tables] : Merging(src, m0, i, s)}]
  OBVIOUS
<1>5. init \in W[0]
  <2>1. Becoming(src, m0, 0, m0)
    <3>1. PICK M : M = [i \in 0..0 |-> m0]
      OBVIOUS
    <3>2. M[0] = m0
      BY <3>1
    <3> QED BY <3>2 DEF Becoming
  <2>2. Merging(src, m0, 0, init)
    BY <1>2, <2>1 DEF Merging
  <2>3. init \in [i : Nat, h : Tables]
    BY <1>2, GoodTable
  <2> QED BY <1>4, <2>2, <2>3
<1>6. ASSUME NEW i \in 1..n, NEW s \in W[i - 1] PROVE MergeStep(src, newhashes, s) \in W[i]
  <2>1. PICK j \in Nat : j = i - 1 /\ j + 1 = i
    OBVIOUS
  <2>2. Merging(src, m0, j, s)
    BY <1>4, <2>1
  <2>3. Merging(src, m0, i, MergeStep(src, newhashes, s))
    BY <1>1, <2>1, <2>2, MergeStepOk
  <2>4. PICK t : t = MergeStep(src, newhashes, s)
    OBVIOUS
  <2>5. Good(t.h) /\ t.i = i + 1
    BY <2>3, <2>4 DEF Merging
  <2>6. t \in [i : Nat, h : Tables]
    <3>1. PICK a \in Nat, b \in Tables : a = t.i /\ b = t.h
      BY <2>5, GoodTable
    <3>2. t = [i |-> a, h |-> b]
      BY <2>4, <3>1 DEF MergeStep
    <3>3. [i |-> a, h |-> b] \in [i : Nat, h : Tables]
      OBVIOUS
    <3> QED BY <3>2, <3>3
  <2> QED BY <1>4, <2>3, <2>4, <2>6
<1>9. \A i \in 1..n : \A s \in W[i - 1] : MergeStep(src, newhashes, s) \in W[i]
  BY <1>6
<1>10. PICK end : end = MergeLoop(src, newhashes, n, init)
  OBVIOUS
<1>7. end \in W[n]
  BY <1>5, <1>9, <1>10, MergeRuns
<1>8. Merging(src, m0, n, end)
  BY <1>4, <1>7
<1> QED BY <1>1, <1>2, <1>3, <1>7, <1>8, <1>10 DEF Merging

-----------------------------------------------------------------------------
(* The map between two calls.                                              *)

MapInv == Good(Table)

\* the map that an array of n buckets f holds
Holds(n, f) ==
  [k \in {f[i].key : i \in Full(n, f)} |-> f[CHOOSE i \in Full(n, f) : f[i].key = k].val]

(* It is the map of the pairs in it.                                       *)
LEMMA HoldsPairs ==
  ASSUME NEW n \in Nat \ {0}, NEW w \in Homes(n), NEW f, Placed(n, w, f)
  PROVE  /\ Holds(n, f) = AsMap(Pairs(n, f))
         /\ \A i \in Full(n, f) : f[i].key \in DOMAIN Holds(n, f) /\ Holds(n, f)[f[i].key] = f[i].val
         /\ \A k \in DOMAIN Holds(n, f) : \E i \in Full(n, f) : f[i].key = k
<1> DEFINE at(k) == CHOOSE i \in Full(n, f) : f[i].key = k
           D == {f[i].key : i \in Full(n, f)}
<1>1. Holds(n, f) = [k \in D |-> f[at(k)].val]
  BY DEF Holds
<1>2. ASSUME NEW i \in Full(n, f) PROVE at(f[i].key) = i
  <2>1. PICK k : k = f[i].key
    OBVIOUS
  <2>2. at(k) \in Full(n, f) /\ f[at(k)].key = k
    BY <2>1
  <2> HIDE DEF at
  <2> QED BY <2>1, <2>2 DEF Placed, Unique
<1> HIDE DEF at
<1>3. ASSUME NEW i \in Full(n, f)
      PROVE  f[i].key \in DOMAIN Holds(n, f) /\ Holds(n, f)[f[i].key] = f[i].val
  BY <1>1, <1>2
<1>4. \A k \in DOMAIN Holds(n, f) : \E i \in Full(n, f) : f[i].key = k
  BY <1>1
<1>5. PICK P : P = Pairs(n, f)
  OBVIOUS
<1>6. Rel(P)
  <2>1. \A p, q \in P : p[1] = q[1] => p = q
    BY <1>5, PairsUnique
  <2>2. P \subseteq Keys \X Vals
    BY <1>5 DEF Pairs, Placed, AtPsl, Full
  <2> QED BY <2>1, <2>2 DEF Rel
<1>7. PICK m : m = AsMap(P)
  OBVIOUS
<1>8. ASSUME NEW i \in Full(n, f) PROVE f[i].key \in DOMAIN m /\ m[f[i].key] = f[i].val
  <2>1. <<f[i].key, f[i].val>> \in P
    BY <1>5 DEF Pairs
  <2>2. <<f[i].key, f[i].val>>[1] = f[i].key /\ <<f[i].key, f[i].val>>[2] = f[i].val
    OBVIOUS
  <2>3. PICK p \in P : p[1] = f[i].key /\ p[2] = f[i].val
    BY <2>1, <2>2
  <2> QED BY <1>6, <1>7, <2>3, AsMapAt
<1>9. ASSUME NEW k \in DOMAIN m PROVE k \in D
  <2>1. PICK p \in P : p[1] = k
    BY <1>6, <1>7, AsMapAt
  <2>2. PICK i \in Full(n, f) : p = <<f[i].key, f[i].val>>
    BY <1>5 DEF Pairs
  <2> QED BY <2>1, <2>2
<1>10. DOMAIN m = D
  BY <1>8, <1>9
<1>11. m = [k \in D |-> f[at(k)].val]
  <2>1. m = [k \in DOMAIN m |-> m[k]]
    BY <1>7, AsMapShape
  <2>2. ASSUME NEW k \in D PROVE m[k] = f[at(k)].val
    BY <1>2, <1>8
  <2> HIDE DEF D
  <2> QED BY <1>10, <2>1, <2>2
<1> QED BY <1>1, <1>3, <1>4, <1>5, <1>7, <1>11

(* What MapInv says of the four variables.                                 *)
LEMMA MapParts ==
  ASSUME MapInv
  PROVE  /\ size \in Nat \ {0} /\ hash \in [Keys -> Hashes] /\ Kept(size, Table)
         /\ HomesOf(Table) \in Homes(size) /\ Placed(size, HomesOf(Table), bkts)
         /\ \E z \in Locs(size) : ~bkts[z].full
<1>1. PICK h, n : h = Table /\ n = size
  OBVIOUS
<1>2. h.size = size /\ h.bkts = bkts /\ h.hash = hash
  BY <1>1 DEF Table
<1>3. Good(h)
  BY <1>1 DEF MapInv
<1>4. n \in Nat \ {0} /\ n = h.size /\ Kept(n, h)
  BY <1>1, <1>2, <1>3, RoomAssumption, ConfigAssumption DEF Good, RoomAssumption, ConfigAssumption
<1>5. h \in Structs(n) /\ HomesOf(h) \in Homes(n) /\ Placed(n, HomesOf(h), h.bkts)
      /\ \E z \in Locs(n) : ~h.bkts[z].full
  BY <1>4, KeptParts DEF Kept
<1>6. h.hash \in [Keys -> Hashes]
  BY <1>4, <1>5, StructParts
<1> QED BY <1>1, <1>2, <1>4, <1>5, <1>6

(* A good table holds the map of its pairs.                                *)
LEMMA GoodHolds ==
  ASSUME NEW h, Good(h)
  PROVE  Holds(h.size, h.bkts) = AsMap(Held(h))
<1>1. PICK n \in Nat \ {0} : n = h.size /\ Kept(n, h)
  BY RoomAssumption, ConfigAssumption DEF Good, RoomAssumption, ConfigAssumption
<1>2. HomesOf(h) \in Homes(n) /\ Placed(n, HomesOf(h), h.bkts)
  BY <1>1, KeptParts DEF Kept
<1>3. Holds(n, h.bkts) = AsMap(Pairs(n, h.bkts))
  BY <1>2, HoldsPairs
<1> QED BY <1>1, <1>3 DEF Held

\* the fields of h that the map keeps
Settled(h) ==
  [size |-> h.size, nitems |-> h.nitems, hash |-> h.hash, bkts |-> h.bkts, status |-> 0]

(* What a call leaves behind.                                              *)
LEMMA SettledOk ==
  ASSUME NEW h, Good(h)
  PROVE  Good(Settled(h)) /\ Held(Settled(h)) = Held(h)
<1>1. PICK n \in Nat \ {0} : n = h.size /\ Kept(n, h)
  BY RoomAssumption, ConfigAssumption DEF Good, RoomAssumption, ConfigAssumption
<1>2. h \in Structs(n)
  BY <1>1 DEF Kept, Sound
<1>3. PICK r : r = Settled(h)
  OBVIOUS
<1>4. /\ r \in Structs(n) /\ r.size = h.size /\ r.bkts = h.bkts /\ r.nitems = h.nitems
      /\ r.hash = h.hash
  BY <1>2, <1>3 DEF Structs, Settled
<1>5. HomesOf(r) = HomesOf(h)
  BY <1>4 DEF HomesOf
<1> QED BY <1>1, <1>3, <1>4, <1>5 DEF Good, Held, Kept, Sound

(* The map after a call.                                                   *)
LEMMA BecomesOk ==
  ASSUME NEW h, Good(h), Becomes(h)
  PROVE  MapInv' /\ Contents' = AsMap(Held(h))
<1>1. PICK r : r = Settled(h)
  OBVIOUS
<1>2. Table' = r
  BY <1>1 DEF Becomes, Table, Settled
<1>3. Good(r) /\ Held(r) = Held(h)
  BY <1>1, SettledOk
<1>4. MapInv'
  BY <1>2, <1>3 DEF MapInv
<1>5. Contents' = AsMap(Held(r))
  <2>1. Contents' = Holds(size', bkts')
    BY DEF Contents, Slots, Holds, Full, Locs
  <2>2. size' = r.size /\ bkts' = r.bkts
    BY <1>1 DEF Becomes, Settled
  <2>3. Holds(r.size, r.bkts) = AsMap(Held(r))
    BY <1>3, GoodHolds
  <2> QED BY <2>1, <2>2, <2>3
<1> QED BY <1>3, <1>4, <1>5

(* Contents is the map of the pairs.                                       *)
LEMMA ContentsHeld ==
  ASSUME MapInv
  PROVE  Contents = Holds(size, bkts) /\ Contents = AsMap(Held(Table))
<1>1. Contents = Holds(size, bkts)
  BY DEF Contents, Slots, Holds, Full, Locs
<1>2. PICK h : h = Table
  OBVIOUS
<1>3. h.size = size /\ h.bkts = bkts
  BY <1>2 DEF Table
<1>4. Holds(h.size, h.bkts) = AsMap(Held(h))
  BY <1>2, GoodHolds DEF MapInv
<1> QED BY <1>1, <1>2, <1>3, <1>4

(* Once rs_hmap_instantiate has made the map.                              *)
LEMMA InitOk ==
  ASSUME SizesExist, Init
  PROVE  MapInv /\ Contents = [k \in {} |-> k]
<1>1. /\ size = prime_geq(MinSize) /\ nitems = 0 /\ hash \in [Keys -> Hashes]
      /\ bkts = EmptyBkts(size)
  BY DEF Init
<1>2. PICK n \in Nat \ {0} : n = size /\ n > MinSize
  <2>1. MinSize \in Nat \ {0, 1}
    BY RoomAssumption, ConfigAssumption DEF RoomAssumption, ConfigAssumption
  <2>2. prime_geq(MinSize) \in (MinSize + 1)..(4 * MinSize + 3)
    BY <2>1 DEF SizesExist
  <2> QED BY <1>1, <2>1, <2>2
<1>3. PICK x, y : x = hash /\ y = Table
  OBVIOUS
<1>4. y = [size |-> n, nitems |-> 0, hash |-> x, bkts |-> EmptyBkts(n), status |-> 0]
  BY <1>1, <1>2, <1>3 DEF Table
<1>5. Kept(n, y) /\ Pairs(n, y.bkts) = {}
  BY <1>1, <1>3, <1>4, FreshKept
<1>6. y.size = n
  BY <1>4
<1>7. MapInv
  BY <1>2, <1>3, <1>5, <1>6 DEF MapInv, Good
<1>8. Contents = AsMap({})
  BY <1>3, <1>5, <1>6, <1>7, ContentsHeld DEF Held
<1>9. AsMap({}) = [k \in {} |-> k]
  <2>1. DOMAIN AsMap({}) = {}
    BY DEF AsMap
  <2>2. AsMap({}) = [k \in DOMAIN AsMap({}) |-> AsMap({})[k]]
    BY AsMapShape
  <2>3. PICK m : m = AsMap({})
    OBVIOUS
  <2> QED BY <2>1, <2>2, <2>3
<1> QED BY <1>7, <1>8, <1>9

(* A call keeps the map good, and does to Contents what HMap says.         *)
LEMMA NextOk ==
  ASSUME SizesExist, MapInv, Next
  PROVE  MapInv' /\ (Map!Next \/ UNCHANGED Contents)
<1>1. PICK t : t = Table
  OBVIOUS
<1>2. Good(t) /\ t.status = 0
  BY <1>1 DEF MapInv, Table
<1>3. PICK m : m = AsMap(Held(t))
  OBVIOUS
<1>4. Contents = m
  BY <1>1, <1>3, ContentsHeld
<1>5. hash \in [Keys -> Hashes]
  BY MapParts
<1>6. Rel(Held(t))
  BY <1>2, HeldRel
<1>7. ASSUME NEW k \in Keys, NEW v \in Vals, Put(k, v)
      PROVE  MapInv' /\ (Map!Put(k, v) \/ UNCHANGED Contents)
  <2>1. PICK nh \in mk_hmap_key(Grows(0)) : Becomes(put(t, k, v, nh))
    BY <1>1, <1>7 DEF Put
  <2>2. nh \in [Keys -> Hashes]
    BY <1>5, <2>1 DEF mk_hmap_key
  <2>3. PICK r : r = put(t, k, v, nh)
    OBVIOUS
  <2>4. /\ Good(r)
        /\ \/ Held(r) = Set(Held(t), k, v)
           \/ Held(r) = Held(t)
    BY <1>2, <2>2, <2>3, PutOk
  <2>5. MapInv' /\ Contents' = AsMap(Held(r))
    BY <2>1, <2>3, <2>4, BecomesOk
  <2>6. CASE Held(r) = Set(Held(t), k, v)
    <3>1. Contents' = Map!With(m, k, v)
      BY <1>3, <1>6, <2>5, <2>6, AsMapSet
    <3> QED BY <1>4, <2>5, <3>1 DEF Map!Put
  <2>7. CASE Held(r) = Held(t)
    BY <1>3, <1>4, <2>5, <2>7
  <2> QED BY <2>4, <2>6, <2>7
<1>8. ASSUME NEW k \in Keys, Del(k)
      PROVE  MapInv' /\ Map!Del(k)
  <2>1. PICK nh \in mk_hmap_key(nitems - 1 > MinSize) : Becomes(del(t, k, nh))
    BY <1>1, <1>8 DEF Del
  <2>2. nh \in [Keys -> Hashes]
    BY <1>5, <2>1 DEF mk_hmap_key
  <2>3. PICK r : r = del(t, k, nh)
    OBVIOUS
  <2>4. Good(r) /\ Held(r) = Cut(Held(t), k)
    BY <1>2, <2>2, <2>3, DelOk
  <2>5. MapInv' /\ Contents' = AsMap(Held(r))
    BY <2>1, <2>3, <2>4, BecomesOk
  <2>6. Contents' = Map!Without(m, k)
    BY <1>3, <1>6, <2>4, <2>5, AsMapCut
  <2> QED BY <1>4, <2>5, <2>6 DEF Map!Del
<1>9. ASSUME NEW src \in Sources, Merge(src)
      PROVE  MapInv' /\ Map!Merge(src)
  <2>1. PICK nh \in [1..Len(src) -> mk_hmap_key(Grows(Len(src) - 1))] :
             Becomes(merge(t, src, nh))
    BY <1>1, <1>9 DEF Merge
  <2>2. nh \in [1..Len(src) -> [Keys -> Hashes]]
    BY <1>5, <2>1 DEF mk_hmap_key
  <2>3. PICK r : r = merge(t, src, nh)
    OBVIOUS
  <2>4. src \in Seq(Keys \X Vals)
    BY ConfigAssumption DEF ConfigAssumption
  <2>5. Good(r) /\ \E j \in 0..Len(src) : Becoming(src, m, j, AsMap(Held(r)))
    BY <1>2, <1>3, <2>2, <2>3, <2>4, MergeOk
  <2>6. MapInv' /\ Contents' = AsMap(Held(r))
    BY <2>1, <2>3, <2>5, BecomesOk
  <2>7. PICK j \in 0..Len(src) : Becoming(src, m, j, AsMap(Held(r)))
    BY <2>5
  <2>8. PICK M : /\ M[0] = m /\ M[j] = AsMap(Held(r))
                 /\ \A i \in 1..j : M[i] = Map!With(M[i - 1], src[i][1], src[i][2])
    BY <2>7 DEF Becoming
  <2>9. j \in Nat /\ M[0] = Contents
    BY <1>4, <2>8
  <2>10. Map!Merged(src, j) = M[j]
    BY <2>8, <2>9, MergedIs
  <2> QED BY <2>6, <2>7, <2>8, <2>10 DEF Map!Merge
<1> QED BY <1>7, <1>8, <1>9 DEF Next, Map!Next

(* MapInv holds throughout, and every step is one of HMap.                 *)
LEMMA AlwaysMapInv ==
  ASSUME SizesExist
  PROVE  Spec => []MapInv
<1>1. Init => MapInv
  BY InitOk
<1>2. MapInv /\ [Next]_vars => MapInv'
  <2>1. MapInv /\ Next => MapInv'
    BY NextOk
  <2>2. MapInv /\ UNCHANGED vars => MapInv'
    <3> SUFFICES ASSUME MapInv, UNCHANGED vars PROVE MapInv'
      OBVIOUS
    <3>1. Table' = Table
      BY DEF vars, Table
    <3> QED BY <3>1 DEF MapInv
  <2> QED BY <2>1, <2>2
<1> QED BY <1>1, <1>2, PTL DEF Spec

-----------------------------------------------------------------------------
(* What follows for the map.                                               *)

(* The distance the code computes is the one AtPsl speaks of.              *)
LEMMA DistOk ==
  ASSUME MapInv, NEW i \in Slots
  PROVE  /\ i \in Full(size, bkts) /\ i \in Locs(size) /\ bkts[i].key \in Keys
         /\ bkts[i].psl = Dist(i) /\ bkts[i].psl \in Locs(size)
<1>0. PICK n \in Nat \ {0} : n = size
  BY MapParts
<1>1. PICK w, h : n = size /\ w \in Homes(n) /\ w = HomesOf(Table) /\ h = Table
  BY <1>0, MapParts
<1>2. Placed(n, w, bkts) /\ h \in Structs(n)
  BY <1>1, MapParts DEF Kept, Sound
<1>3. i \in Locs(n) /\ i \in Full(n, bkts)
  BY <1>1 DEF Slots, Full, Locs
<1>4. bkts[i].key \in Keys /\ bkts[i].psl = Off(n, i, w[bkts[i].key])
  BY <1>2, <1>3 DEF Placed, AtPsl, Full
<1>5. PICK b \in Locs(n) : b = w[bkts[i].key] /\ b = probe_loc(Table, bkts[i].key)
  <2>1. probe_loc(h, bkts[i].key) = w[bkts[i].key]
    BY <1>1, <1>2, <1>4, StructParts
  <2> QED BY <1>1, <1>4, <2>1 DEF Homes
<1>6. (i - b) % n = Off(n, i, b) /\ Off(n, i, b) \in Locs(n)
  BY <1>3, Remainders
<1> QED BY <1>1, <1>3, <1>4, <1>5, <1>6 DEF Dist

(* rs_hmap_get.c, "we found the rich bucket": at any size and under any    *)
(* hash, the psl of a key is its distance from home, and it grows by at    *)
(* most one from a bucket to the next.                                     *)
THEOREM RsHmapRobinHood ==
  ASSUME SizesExist
  PROVE  Spec => []RobinHood
<1>1. MapInv => RobinHood
  <2> SUFFICES ASSUME MapInv, NEW i \in Slots
               PROVE  /\ bkts[i].psl = Dist(i)
                      /\ bkts[i].psl > 0 => /\ bkts[(i - 1) % size].full
                                            /\ bkts[(i - 1) % size].psl >= bkts[i].psl - 1
    BY DEF RobinHood
  <2>1. i \in Full(size, bkts) /\ i \in Locs(size) /\ bkts[i].psl = Dist(i)
    BY DistOk
  <2>2. Leads(bkts, Prev(size, i), bkts[i].psl)
    BY <2>1, MapParts DEF Placed, Chained
  <2>3. (i - 1) % size = Prev(size, i)
    <3>1. PICK n \in Nat \ {0} : n = size
      BY MapParts
    <3>2. (i - 1) % n = Prev(n, i)
      BY <2>1, <3>1, Remainders
    <3> QED BY <3>1, <3>2
  <2> QED BY <2>1, <2>2, <2>3 DEF Leads
<1> QED BY <1>1, AlwaysMapInv, PTL

(* rs_hmap_chk.c: the check of the map never fails.  It looks up every     *)
(* key, which get does without asking whether a bucket is full; that an    *)
(* empty bucket is not taken for one with the key of all zeroes is the     *)
(* second assumption.                                                      *)
THEOREM RsHmapChkPasses ==
  ASSUME SizesExist, ZeroKey \notin Keys
  PROVE  Spec => []ChkPasses
<1>1. MapInv => ChkPasses
  <2> SUFFICES ASSUME MapInv PROVE chk
    BY DEF ChkPasses
  <2>0. PICK n \in Nat \ {0} : n = size
    BY MapParts
  <2>1. PICK w, h, f : /\ n = size /\ w \in Homes(n)
                       /\ w = HomesOf(Table) /\ h = Table /\ f = bkts
    BY <2>0, MapParts
  <2>2. PICK z \in Locs(n) : ~f[z].full
    BY <2>1, MapParts
  <2>3. Placed(n, w, f) /\ Kept(n, h) /\ h.bkts = f
    BY <2>1, MapParts DEF Table
  <2>4. Slots = Full(n, f)
    BY <2>1 DEF Slots, Full, Locs
  <2>5. nitems = Cardinality(Slots)
    BY <2>1, <2>3, <2>4 DEF Kept, Table
  <2>6. \A i, j \in Slots : f[i].key = f[j].key => i = j
    BY <2>3, <2>4 DEF Placed, Unique
  <2>7. ASSUME NEW i \in Slots
        PROVE  /\ get(Table, f[i].key).status = 0 /\ get(Table, f[i].key).found
               /\ \A d \in 0..Dist(i) : f[(i - d) % size].full
    <3>1. /\ i \in Full(n, f) /\ i \in Locs(n) /\ f[i].key \in Keys
          /\ f[i].psl = Dist(i) /\ f[i].psl \in Locs(n)
      BY <2>1, DistOk
    <3>2. get(h, f[i].key).status = 0 /\ get(h, f[i].key).found
      <4>1. f[i].key \in Keys \ {ZeroKey} /\ Has(n, h.bkts, f[i].key) /\ Sound(n, h)
        BY <2>3, <3>1 DEF Has, Kept
      <4> QED BY <2>2, <2>3, <4>1, GetFinds
    <3>3. ASSUME NEW d \in 0..f[i].psl PROVE f[(i - d) % n].full
      <4>1. f[i].psl < n /\ f \in Arrays(n) /\ Chained(n, f)
        BY <2>3, <3>1 DEF Placed, Locs
      <4>2. f[Off(n, i, d)].full
        BY <3>1, <4>1, ChainBack
      <4>3. d \in Locs(n)
        BY <3>1 DEF Locs
      <4>4. (i - d) % n = Off(n, i, d)
        BY <3>1, <4>3, Remainders
      <4> QED BY <4>2, <4>4
    <3> QED BY <2>1, <3>1, <3>2, <3>3
  <2> QED BY <2>1, <2>5, <2>6, <2>7 DEF chk
<1> QED BY <1>1, AlwaysMapInv, PTL

(* rs_hmap_get.c and rs_hmap_del.c: of every key, get tells whether it is  *)
(* there and with which value, del finds what get finds, and neither       *)
(* search fails; under the same assumption.                                *)
THEOREM RsHmapGetAgrees ==
  ASSUME SizesExist, ZeroKey \notin Keys
  PROVE  Spec => []GetAgrees
<1>1. MapInv => GetAgrees
  <2> SUFFICES ASSUME MapInv, NEW k \in Keys
               PROVE  /\ get(Table, k).status = 0
                      /\ get(Table, k).found <=> k \in DOMAIN Contents
                      /\ k \in DOMAIN Contents => get(Table, k).val = Contents[k]
                      /\ DelLoc(Table, k).done /\ DelLoc(Table, k).found = get(Table, k).found
    BY DEF GetAgrees
  <2>0. PICK n \in Nat \ {0} : n = size
    BY MapParts
  <2>1. PICK w, h, f : /\ n = size /\ w \in Homes(n)
                       /\ w = HomesOf(Table) /\ h = Table /\ f = bkts
    BY <2>0, MapParts
  <2>2. PICK z \in Locs(n) : ~f[z].full
    BY <2>1, MapParts
  <2>3. Placed(n, w, f) /\ Sound(n, h) /\ h.bkts = f
    BY <2>1, MapParts DEF Table, Kept
  <2>4. PICK m : m = Contents
    OBVIOUS
  <2>5. m = Holds(n, f)
    BY <2>1, <2>4, ContentsHeld
  <2>6. PICK g, d : g = get(h, k) /\ d = DelLoc(h, k)
    OBVIOUS
  <2>7. /\ g.status = 0 /\ (g.found <=> Has(n, f, k))
        /\ \A i \in Full(n, f) : f[i].key = k => g.val = f[i].val
    <3>1. k \in Keys \ {ZeroKey}
      OBVIOUS
    <3> QED BY <2>2, <2>3, <2>6, <3>1, GetFinds
  <2>8. d.done /\ d.found \in BOOLEAN /\ (d.found <=> Has(n, f, k))
    BY <2>2, <2>3, <2>6, DelLocFinds
  <2>12. /\ \A i \in Full(n, f) : f[i].key \in DOMAIN m /\ m[f[i].key] = f[i].val
         /\ \A x \in DOMAIN m : \E i \in Full(n, f) : f[i].key = x
    <3>1. PICK x : x = Holds(n, f)
      OBVIOUS
    <3>2. /\ \A i \in Full(n, f) : f[i].key \in DOMAIN x /\ x[f[i].key] = f[i].val
          /\ \A y \in DOMAIN x : \E i \in Full(n, f) : f[i].key = y
      BY <2>1, <2>3, <3>1, HoldsPairs
    <3> QED BY <2>5, <3>1, <3>2
  <2>9. k \in DOMAIN m <=> Has(n, f, k)
    BY <2>12 DEF Has
  <2>10. k \in DOMAIN m => g.val = m[k]
    BY <2>7, <2>12
  <2>11. g.found \in BOOLEAN
    BY <2>2, <2>3, <2>6, GetFinds
  <2> QED BY <2>1, <2>4, <2>6, <2>7, <2>8, <2>9, <2>10, <2>11
<1> QED BY <1>1, AlwaysMapInv, PTL

(* HMap.tla: put sets its key and no other, del removes its key and no     *)
(* other, merge puts a first part of its pairs, and a put that fails       *)
(* changes nothing, whatever keys and buckets move on the way.             *)
THEOREM RsHmapImplementsMap ==
  ASSUME SizesExist
  PROVE  Spec => ImplementsMap
<1>1. Init => Map!Init
  BY InitOk DEF Map!Init
<1>2. MapInv /\ [Next]_vars => [Map!Next]_Contents
  <2>1. MapInv /\ Next => Map!Next \/ UNCHANGED Contents
    BY NextOk
  <2>2. UNCHANGED vars => UNCHANGED Contents
    BY DEF vars, Contents, Slots
  <2> QED BY <2>1, <2>2
<1> QED BY <1>1, <1>2, AlwaysMapInv, PTL DEF Spec, ImplementsMap, Map!Spec
=============================================================================
