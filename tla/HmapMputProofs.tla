--------------------------- MODULE HmapMputProofs ---------------------------
(***************************************************************************)
(* Proof that the threads of hmap_mput need no lock, for any number of     *)
(* keys, threads and team members, any hash, any length of a batch and any *)
(* calls before: no two of them ever work on the aggregate of one bucket,  *)
(* and the buckets that the lookups found are still those of their keys.   *)
(* It rests on what the loops of get, insert, del and resize do: a key is  *)
(* only found in its own bucket, and no bucket is ever beyond the array.   *)
(***************************************************************************)
EXTENDS HmapMput, LoopProofs

-----------------------------------------------------------------------------
(* The map.                                                                *)

\* what a bucket may hold
Bkt == [key : Keys \cup {NoKey}, hash : Nat, val : Nat, psl : Nat]

\* the hash maps with n buckets
Sized(n) == [size : {n}, nitems : Int, hash : [Keys -> Hashes],
             bkts : [0..(n - 1) -> Bkt], status : {0, -1}]

\* a hash map of any size
TableOk(h) == h.size \in Nat \ {0} /\ h \in Sized(h.size)

\* what a lookup passes on
Dbg == [hash : Nat, loc : Nat]

\* where a search is, in n buckets
Searching(n) == [loc : 0..(n - 1), psl : Nat, done : BOOLEAN, found : BOOLEAN]

(* Going on to another bucket.                                             *)
LEMMA SearchOnward ==
  ASSUME NEW n \in Nat \ {0}, NEW h, h.size = n, NEW s \in Searching(n)
  PROVE  /\ Onward(h, s) \in Searching(n) /\ Onward(h, s).found = s.found
         /\ [s EXCEPT !.done = TRUE] \in Searching(n)
         /\ [s EXCEPT !.done = TRUE, !.found = TRUE] \in Searching(n)
<1>1. PICK l \in 0..(n - 1) : l = NextLoc(h, s.loc)
  BY DEF NextLoc, Searching
<1>2. PICK p \in Nat : p = s.psl + 1
  BY DEF Searching
<1>3. Onward(h, s) = [s EXCEPT !.psl = p, !.loc = l]
  BY <1>1, <1>2 DEF Onward
<1>4. [s EXCEPT !.psl = p, !.loc = l] \in Searching(n)
  BY DEF Searching
<1>5. [s EXCEPT !.psl = p, !.loc = l].found = s.found
  BY DEF Searching
<1>6. /\ [s EXCEPT !.done = TRUE] \in Searching(n)
      /\ [s EXCEPT !.done = TRUE, !.found = TRUE] \in Searching(n)
  BY DEF Searching
<1> QED BY <1>3, <1>4, <1>5, <1>6

(* A key that hmap_get finds is in the bucket it returns.                  *)
LEMMA GetFinds ==
  ASSUME NEW h, TableOk(h), NEW k \in Keys, NEW dbg,
         NEW x, x = set_hash(h, k, dbg), set_probe_loc(h, x, dbg) \in 0..(h.size - 1),
         NEW r, r = hmap_get(h, k, dbg)
  PROVE  /\ r.found \in BOOLEAN
         /\ r.found => /\ r.loc \in 0..(h.size - 1)
                       /\ h.bkts[r.loc].key = k
<1> DEFINE e == [key |-> k, hash |-> x]
           b(s) == h.bkts[s.loc]
           step(s) ==
             IF s.done THEN s
             ELSE IF Holds(b(s), e) THEN [s EXCEPT !.done = TRUE, !.found = TRUE]
             ELSE IF Passed(b(s), s) THEN [s EXCEPT !.done = TRUE]
             ELSE Onward(h, s)
           init == [loc |-> set_probe_loc(h, x, dbg), psl |-> 0, done |-> FALSE, found |-> FALSE]
           S == {s \in Searching(h.size) :
                   s.found => s.done /\ h.bkts[s.loc].key = k}
<1>1. r = Loop(step, h.size, init)
  BY DEF hmap_get, Search
<1>2. init \in S
  BY DEF Searching
<1>3. ASSUME NEW s \in S PROVE step(s) \in S
  <2>1. [s EXCEPT !.done = TRUE] \in S
    BY DEF Searching
  <2>2. Holds(b(s), e) => [s EXCEPT !.done = TRUE, !.found = TRUE] \in S
    BY DEF Holds, Searching
  <2>3. ~s.done => Onward(h, s) \in S
    BY SearchOnward DEF TableOk
  <2> HIDE DEF S, b, e
  <2> QED BY <2>1, <2>2, <2>3
<1> HIDE DEF step, init, S
<1>a. PICK n \in Nat \ {0} : n = h.size
  BY DEF TableOk
<1> DEFINE body(g, i) == IF i = 0 THEN init
                         ELSE CHOOSE y \in {step(p) : p \in {g[i - 1]}} : TRUE
           A == CHOOSE g : g = [i \in 0..n |-> body(g, i)]
<1>4. r = A[n]
  BY <1>1, <1>a DEF Loop
<1>5. ASSUME NEW g, NEW i \in 0..n
      PROVE  body(g, i) = IF i = 0 THEN init ELSE step(g[i - 1])
  OBVIOUS
<1> HIDE DEF body
<1>6. \E g : g = [i \in 0..n |-> body(g, i)]
  <2>1. PICK F : F = [p \in S |-> step(p)]
    OBVIOUS
  <2>2. PICK g : Iterated(g, F, init, n)
    BY Iterates
  <2>3. PICK W : W = [i \in 0..n |-> S]
    OBVIOUS
  <2>4. \A i \in 0..n : g[i] \in S
    <3>1. g[0] \in W[0] /\ \A i \in 1..n : g[i - 1] \in W[i - 1] => g[i] \in W[i]
      BY <1>2, <1>3, <2>1, <2>2, <2>3 DEF Iterated
    <3> QED BY <2>3, <3>1, RoundsStay
  <2>5. \A i \in 0..n : g[i] = body(g, i)
    BY <1>5, <2>1, <2>2, <2>4 DEF Iterated
  <2> QED BY <2>2, <2>5 DEF Iterated
<1>7. A = [i \in 0..n |-> body(A, i)]
  BY <1>6
<1> HIDE DEF A
<1>8. \A i \in 0..n : A[i] = body(A, i)
  BY <1>7
<1>9. A[n] \in S
  <2>1. PICK W : W = [i \in 0..n |-> S]
    OBVIOUS
  <2>2. A[0] \in W[0] /\ \A i \in 1..n : A[i - 1] \in W[i - 1] => A[i] \in W[i]
    BY <1>2, <1>3, <1>5, <1>8, <2>1
  <2>3. \A i \in 0..n : A[i] \in W[i]
    BY <2>2, RoundsStay
  <2> QED BY <2>1, <2>3
<1> QED BY <1>4, <1>9, <1>a DEF S, Searching

(* One bucket, and the number of items, of a table may change.             *)
LEMMA TableParts ==
  ASSUME NEW n \in Nat \ {0}, NEW h \in Sized(n)
  PROVE  /\ h.size = n /\ h.nitems \in Int /\ h.hash \in [Keys -> Hashes]
         /\ h.bkts \in [0..(n - 1) -> Bkt]
         /\ TableOk(h)
         /\ [h EXCEPT !.status = -1] \in Sized(n)
         /\ \A i \in 0..(n - 1), b \in Bkt :
              /\ [h EXCEPT !.bkts[i] = b] \in Sized(n)
              /\ [h EXCEPT !.bkts[i] = b, !.nitems = @ + 1] \in Sized(n)
              /\ [h EXCEPT !.nitems = @ - 1, !.bkts[i] = b] \in Sized(n)
<1>1. /\ h.size = n /\ h.nitems \in Int /\ h.hash \in [Keys -> Hashes]
      /\ h.bkts \in [0..(n - 1) -> Bkt] /\ h.status \in {0, -1}
      /\ h = [size |-> n, nitems |-> h.nitems, hash |-> h.hash, bkts |-> h.bkts,
              status |-> h.status]
  BY DEF Sized
<1> HIDE DEF Sized
<1>2. TableOk(h)
  BY <1>1 DEF TableOk
<1>3. [h EXCEPT !.status = -1] \in Sized(n)
  BY DEF Sized
<1>4. ASSUME NEW i \in 0..(n - 1), NEW b \in Bkt
      PROVE  /\ [h EXCEPT !.bkts[i] = b] \in Sized(n)
             /\ [h EXCEPT !.bkts[i] = b, !.nitems = @ + 1] \in Sized(n)
             /\ [h EXCEPT !.nitems = @ - 1, !.bkts[i] = b] \in Sized(n)
  <2>1. PICK f \in [0..(n - 1) -> Bkt] : f = [h.bkts EXCEPT ![i] = b]
    BY <1>1
  <2>2. PICK up \in Int, down \in Int : up = h.nitems + 1 /\ down = h.nitems - 1
    BY <1>1
  <2>3. /\ [h EXCEPT !.bkts[i] = b] = [h EXCEPT !.bkts = f]
        /\ [h EXCEPT !.bkts[i] = b, !.nitems = @ + 1] = [h EXCEPT !.bkts = f, !.nitems = up]
        /\ [h EXCEPT !.nitems = @ - 1, !.bkts[i] = b] = [h EXCEPT !.nitems = down, !.bkts = f]
    BY <2>1, <2>2, <1>1
  <2>4. [h EXCEPT !.bkts = f] \in Sized(n)
    BY DEF Sized
  <2>5. [h EXCEPT !.bkts = f, !.nitems = up] \in Sized(n)
    BY DEF Sized
  <2>6. [h EXCEPT !.nitems = down, !.bkts = f] \in Sized(n)
    BY DEF Sized
  <2> QED BY <2>3, <2>4, <2>5, <2>6
<1> QED BY <1>1, <1>2, <1>3, <1>4

(* The buckets have keys, hashes, values and probe lengths.                *)
LEMMA BktParts ==
  ASSUME NEW b \in Bkt
  PROVE  /\ b.key \in Keys \cup {NoKey} /\ b.hash \in Nat /\ b.val \in Nat /\ b.psl \in Nat
         /\ [b EXCEPT !.psl = @ + 1] \in Bkt
         /\ b.psl # 0 => [b EXCEPT !.psl = @ - 1] \in Bkt
         /\ [b EXCEPT !.val = @ + 1] \in Bkt
  BY DEF Bkt

(* A round of an insertion.                                                *)
LEMMA InsertStepOk ==
  ASSUME NEW n \in Nat \ {0},
         NEW s \in [h : Sized(n), loc : 0..(n - 1), done : BOOLEAN, entry : Bkt]
  PROVE  InsertStep(s) \in [h : Sized(n), loc : 0..(n - 1), done : BOOLEAN, entry : Bkt]
<1>1. PICK h \in Sized(n), i \in 0..(n - 1), d \in BOOLEAN, e \in Bkt :
        s = [h |-> h, loc |-> i, done |-> d, entry |-> e]
  OBVIOUS
<1> HIDE DEF Sized
<1>a. h.size = n /\ h.bkts \in [0..(n - 1) -> Bkt]
  BY TableParts
<1>2. PICK b \in Bkt : b = h.bkts[i]
  BY <1>a
<1>3. PICK l \in 0..(n - 1) : l = NextLoc(h, i)
  BY <1>a DEF NextLoc
<1>4. PICK p \in Bkt : p = IF e.psl > b.psl THEN b ELSE e
  OBVIOUS
<1>5. PICK p1 \in Bkt : p1 = [p EXCEPT !.psl = @ + 1]
  BY BktParts
<1>6. PICK b1 \in Bkt : b1 = [b EXCEPT !.val = @ + 1]
  BY BktParts
<1>7. PICK h1 \in Sized(n) : h1 = [h EXCEPT !.bkts[i] = e, !.nitems = @ + 1]
  BY TableParts
<1>8. PICK h2 \in Sized(n) : h2 = [h EXCEPT !.bkts[i] = b1]
  BY TableParts
<1>9. PICK h3 \in Sized(n) : h3 = IF e.psl > b.psl THEN [h EXCEPT !.bkts[i] = e] ELSE h
  BY TableParts
<1>10. h2 = [h EXCEPT !.bkts[i].val = @ + 1]
  BY <1>2, <1>6, <1>8
<1>11. InsertStep(s) =
         IF d THEN s
         ELSE IF b.key = NoKey THEN [s EXCEPT !.done = TRUE, !.h = h1]
         ELSE IF Holds(b, e) THEN [s EXCEPT !.done = TRUE, !.h = h2]
         ELSE [s EXCEPT !.entry = p1, !.loc = l, !.h = h3]
  BY <1>1, <1>2, <1>3, <1>4, <1>5, <1>7, <1>9, <1>10 DEF InsertStep
<1> QED BY <1>1, <1>11

\* where an insertion into n buckets is
Inserting(n) == [h : Sized(n), loc : 0..(n - 1), done : BOOLEAN, entry : Bkt]

(* The loop of hmap_insert.                                                *)
LEMMA InsertLoop ==
  ASSUME NEW n \in Nat \ {0}, NEW init \in Inserting(n)
  PROVE  Loop(InsertStep, n, init) \in Inserting(n)
<1> DEFINE step(s) == InsertStep(s)
           S == Inserting(n)
<1>2. init \in S
  OBVIOUS
<1>3. \A s \in S : step(s) \in S
  BY InsertStepOk DEF Inserting
<1> HIDE DEF step, S
<1> DEFINE body(g, i) == IF i = 0 THEN init
                         ELSE CHOOSE y \in {step(p) : p \in {g[i - 1]}} : TRUE
           A == CHOOSE g : g = [i \in 0..n |-> body(g, i)]
<1>4. Loop(InsertStep, n, init) = A[n]
  BY DEF Loop, step
<1>5. ASSUME NEW g, NEW i \in 0..n
      PROVE  body(g, i) = IF i = 0 THEN init ELSE step(g[i - 1])
  OBVIOUS
<1> HIDE DEF body
<1>6. \E g : g = [i \in 0..n |-> body(g, i)]
  <2>1. PICK F : F = [p \in S |-> step(p)]
    OBVIOUS
  <2>2. PICK g : Iterated(g, F, init, n)
    BY Iterates
  <2>3. PICK W : W = [i \in 0..n |-> S]
    OBVIOUS
  <2>4. \A i \in 0..n : g[i] \in S
    <3>1. g[0] \in W[0] /\ \A i \in 1..n : g[i - 1] \in W[i - 1] => g[i] \in W[i]
      BY <1>2, <1>3, <2>1, <2>2, <2>3 DEF Iterated
    <3> QED BY <2>3, <3>1, RoundsStay
  <2>5. \A i \in 0..n : g[i] = body(g, i)
    BY <1>5, <2>1, <2>2, <2>4 DEF Iterated
  <2> QED BY <2>2, <2>5 DEF Iterated
<1>7. A = [i \in 0..n |-> body(A, i)]
  BY <1>6
<1> HIDE DEF A
<1>8. \A i \in 0..n : A[i] = body(A, i)
  BY <1>7
<1>9. A[n] \in S
  <2>1. PICK W : W = [i \in 0..n |-> S]
    OBVIOUS
  <2>2. A[0] \in W[0] /\ \A i \in 1..n : A[i - 1] \in W[i - 1] => A[i] \in W[i]
    BY <1>2, <1>3, <1>5, <1>8, <2>1
  <2>3. \A i \in 0..n : A[i] \in W[i]
    BY <2>2, RoundsStay
  <2> QED BY <2>1, <2>3
<1> QED BY <1>4, <1>9 DEF S

(* Where the hash and the place of a key are taken from.                   *)
LEMMA ProbeTypes ==
  ASSUME NEW h, TableOk(h), NEW k \in Keys, NEW dbg \in Dbg
  PROVE  /\ set_hash(h, k, dbg) \in Nat
         /\ set_probe_loc(h, set_hash(h, k, dbg), dbg) \in Nat
         /\ dbg.loc = 0 => set_probe_loc(h, set_hash(h, k, dbg), dbg) \in 0..(h.size - 1)
<1>1. h.hash[k] \in Nat /\ dbg.hash \in Nat /\ dbg.loc \in Nat
  BY MputAssumption DEF MputAssumption, TableOk, Sized, Dbg
<1>2. PICK x \in Nat : x = set_hash(h, k, dbg)
  BY <1>1 DEF set_hash
<1>3. x % h.size \in 0..(h.size - 1)
  BY DEF TableOk
<1> QED BY <1>1, <1>2, <1>3 DEF set_probe_loc, TableOk

(* hmap_insert leaves a table of the same size.                            *)
LEMMA InsertOk ==
  ASSUME NEW h, TableOk(h), NEW k \in Keys, NEW val \in Nat, NEW dbg \in Dbg
  PROVE  hmap_insert(h, k, val, dbg) \in Sized(h.size)
<1> DEFINE x == set_hash(h, k, dbg)
           loc == set_probe_loc(h, x, dbg)
           entry == [key |-> k, hash |-> x, val |-> val, psl |-> 0]
           init == [h |-> h, loc |-> loc, done |-> FALSE, entry |-> entry]
<1>1. PICK n \in Nat \ {0} : n = h.size /\ h \in Sized(n)
  BY DEF TableOk
<1>2. PICK end : end = Loop(InsertStep, n, init)
  OBVIOUS
<1>3. hmap_insert(h, k, val, dbg) = IF loc >= n THEN [h EXCEPT !.status = -1]
                                    ELSE IF end.done THEN end.h
                                    ELSE [end.h EXCEPT !.status = -1]
  BY <1>1, <1>2 DEF hmap_insert
<1>4. x \in Nat /\ loc \in Nat
  BY ProbeTypes
<1>5. entry \in Bkt
  BY <1>4 DEF Bkt
<1> HIDE DEF x, loc, entry
<1>6. CASE loc >= n
  <2>1. [h EXCEPT !.status = -1] \in Sized(n)
    BY <1>1, TableParts
  <2> QED BY <1>1, <1>3, <1>6, <2>1
<1>7. CASE ~(loc >= n)
  <2>1. loc \in 0..(n - 1)
    BY <1>4, <1>7
  <2>2. init \in Inserting(n)
    BY <1>1, <1>5, <2>1 DEF Inserting
  <2> HIDE DEF init
  <2>3. end \in Inserting(n)
    BY <1>2, <2>2, InsertLoop
  <2>4. end.h \in Sized(n)
    BY <2>3 DEF Inserting
  <2>5. [end.h EXCEPT !.status = -1] \in Sized(n)
    BY <2>4, TableParts
  <2> QED BY <1>1, <1>3, <1>7, <2>4, <2>5
<1> QED BY <1>6, <1>7

(* hmap_resize leaves a table, of the new size unless it fails.            *)
LEMMA ResizeOk ==
  ASSUME NEW h, TableOk(h), NEW q \in Nat \ {0}, NEW newhash \in [Keys -> Hashes]
  PROVE  TableOk(hmap_resize(h, q, newhash))
<1> DEFINE fresh == [size |-> q, nitems |-> 0, hash |-> newhash,
                     bkts |-> EmptyBkts(q), status |-> 0]
           init == [i |-> 0, h |-> fresh]
           step(s) ==
             LET b == h.bkts[s.i]
             IN  [i |-> s.i + 1,
                  h |-> IF b.key = NoKey \/ s.h.status # 0 THEN s.h
                        ELSE hmap_insert(s.h, b.key, b.val, NoDbg)]
           once(s) == IF s.h.nitems # h.nitems THEN [s.h EXCEPT !.status = -1] ELSE s.h
           r == Loop(step, h.size, init)
           P(i) == [i : {i}, h : Sized(q)]
<1>1. hmap_resize(h, q, newhash) =
        IF q < Percent(HIGH_WATER_MARK, h.nitems) THEN [h EXCEPT !.status = -1]
        ELSE Loop(once, 1, r)
  BY DEF hmap_resize
<1>2. PICK n \in Nat \ {0} : n = h.size /\ h \in Sized(n) /\ h.bkts \in [0..(n - 1) -> Bkt]
  BY TableParts DEF TableOk
<1>3. fresh \in Sized(q)
  BY DEF Sized, EmptyBkts, EmptyBkt, Bkt
<1>4. ASSUME NEW i \in 0..(n - 1), NEW s \in P(i)
      PROVE  step(s) \in P(i + 1)
  <2>1. PICK b \in Bkt : b = h.bkts[i]
    BY <1>2
  <2>2. b.key \in Keys \cup {NoKey} /\ b.val \in Nat
    BY BktParts
  <2>3. s.i = i /\ s.h \in Sized(q)
    OBVIOUS
  <2>4. TableOk(s.h) /\ s.h.size = q
    BY <2>3, TableParts
  <2>5. NoDbg \in Dbg
    BY DEF NoDbg, Dbg
  <2>6. b.key # NoKey => hmap_insert(s.h, b.key, b.val, NoDbg) \in Sized(q)
    BY <2>2, <2>4, <2>5, InsertOk
  <2>7. PICK t \in Sized(q) : t = IF b.key = NoKey \/ s.h.status # 0 THEN s.h
                                  ELSE hmap_insert(s.h, b.key, b.val, NoDbg)
    BY <2>3, <2>6
  <2>8. step(s) = [i |-> i + 1, h |-> t]
    BY <2>1, <2>3, <2>7
  <2> HIDE DEF step
  <2> QED BY <2>8
<1>5. init \in P(0)
  BY <1>3
<1> HIDE DEF step, init, P
<1> DEFINE body(g, i) == IF i = 0 THEN init
                         ELSE CHOOSE y \in {step(p) : p \in {g[i - 1]}} : TRUE
           A == CHOOSE g : g = [i \in 0..n |-> body(g, i)]
<1>6. r = A[n]
  BY <1>2 DEF Loop
<1>7. ASSUME NEW g, NEW i \in 0..n
      PROVE  body(g, i) = IF i = 0 THEN init ELSE step(g[i - 1])
  OBVIOUS
<1> HIDE DEF body
<1>8. PICK W : W = [i \in 0..n |-> P(i)]
  OBVIOUS
<1>9. \E g : g = [i \in 0..n |-> body(g, i)]
  <2> DEFINE S == UNION {P(i) : i \in 0..n}
  <2>1. PICK F : F = [p \in S |-> step(p)]
    OBVIOUS
  <2>2. PICK g : Iterated(g, F, init, n)
    BY Iterates
  <2>3. g[0] = init /\ \A i \in 1..n : g[i] = F[g[i - 1]]
    BY <2>2 DEF Iterated
  <2>4. ASSUME NEW i \in 1..n, g[i - 1] \in P(i - 1)
        PROVE  g[i] = step(g[i - 1]) /\ g[i] \in P(i)
    <3>1. PICK j \in 0..(n - 1) : j = i - 1 /\ i = j + 1
      OBVIOUS
    <3>2. g[j] \in S /\ g[i] = F[g[j]] /\ g[j] \in P(j)
      BY <2>3, <2>4, <3>1
    <3>3. g[i] = step(g[j])
      BY <2>1, <3>2
    <3> QED BY <1>4, <3>1, <3>2, <3>3
  <2>5. \A i \in 0..n : g[i] \in P(i)
    <3>1. g[0] \in W[0] /\ \A i \in 1..n : g[i - 1] \in W[i - 1] => g[i] \in W[i]
      BY <1>5, <1>8, <2>3, <2>4
    <3>2. \A i \in 0..n : g[i] \in W[i]
      BY <3>1, RoundsStay
    <3> QED BY <1>8, <3>2
  <2>6. ASSUME NEW i \in 0..n PROVE g[i] = body(g, i)
    <3>1. CASE i = 0
      BY <1>7, <2>3, <3>1
    <3>2. CASE i # 0
      BY <1>7, <2>4, <2>5, <3>2
    <3> QED BY <3>1, <3>2
  <2> QED BY <2>2, <2>6 DEF Iterated
<1>10. A = [i \in 0..n |-> body(A, i)]
  BY <1>9
<1> HIDE DEF A
<1>11. A[n] \in P(n)
  <2>1. ASSUME NEW i \in 1..n, A[i - 1] \in P(i - 1) PROVE A[i] \in P(i)
    <3>1. PICK j \in 0..(n - 1) : j = i - 1 /\ i = j + 1
      OBVIOUS
    <3>2. A[i] = step(A[j])
      BY <1>7, <1>10, <3>1
    <3> QED BY <1>4, <2>1, <3>1, <3>2
  <2>2. A[0] \in W[0] /\ \A i \in 1..n : A[i - 1] \in W[i - 1] => A[i] \in W[i]
    <3>1. A[0] = init
      BY <1>7, <1>10
    <3> QED BY <1>5, <1>8, <2>1, <3>1
  <2>3. \A i \in 0..n : A[i] \in W[i]
    BY <2>2, RoundsStay
  <2> QED BY <1>8, <2>3
<1>12. PICK e : e = r /\ e.h \in Sized(q)
  BY <1>6, <1>11 DEF P
<1> HIDE DEF r
<1> HIDE DEF once
<1> DEFINE oncebody(g, i) == IF i = 0 THEN e
                             ELSE CHOOSE y \in {once(p) : p \in {g[i - 1]}} : TRUE
           B == CHOOSE g : g = [i \in 0..1 |-> oncebody(g, i)]
<1>13. Loop(once, 1, e) = B[1]
  BY DEF Loop
<1>14. ASSUME NEW g, NEW i \in 0..1
       PROVE  oncebody(g, i) = IF i = 0 THEN e ELSE once(g[i - 1])
  OBVIOUS
<1> HIDE DEF oncebody
<1>15. \E g : g = [i \in 0..1 |-> oncebody(g, i)]
  <2>1. PICK g : g = [i \in 0..1 |-> IF i = 0 THEN e ELSE once(e)]
    OBVIOUS
  <2>2. \A i \in 0..1 : g[i] = oncebody(g, i)
    BY <1>14, <2>1
  <2> QED BY <2>1, <2>2
<1>16. B = [i \in 0..1 |-> oncebody(B, i)]
  BY <1>15
<1> HIDE DEF B
<1>17. B[1] = once(e)
  <2>1. B[0] = e
    BY <1>14, <1>16
  <2>2. B[1] = once(B[0])
    BY <1>14, <1>16
  <2> QED BY <2>1, <2>2
<1>18. TableOk(once(e))
  <2>1. [e.h EXCEPT !.status = -1] \in Sized(q)
    BY <1>12, TableParts
  <2>2. once(e) \in Sized(q)
    BY <1>12, <2>1 DEF once
  <2> QED BY <2>2, TableParts
<1>19. TableOk([h EXCEPT !.status = -1])
  <2>1. [h EXCEPT !.status = -1] \in Sized(n)
    BY <1>2, TableParts
  <2> QED BY <2>1, TableParts
<1> QED BY <1>1, <1>12, <1>13, <1>17, <1>18, <1>19

(* hmap_put, with or without growing first.                                *)
LEMMA PutTableOk ==
  ASSUME SizesExist, NEW h, TableOk(h), NEW k \in Keys, NEW dbg \in Dbg,
         NEW newhash \in [Keys -> Hashes]
  PROVE  TableOk(hmap_put(h, k, dbg, newhash))
<1> DEFINE new == calc_new_size(h)
           roomy == IF ~new.resize THEN h
                    ELSE IF new.fails THEN [h EXCEPT !.status = -1]
                    ELSE hmap_resize(h, new.size, newhash)
           once(r) == IF r.status # 0 THEN r ELSE hmap_insert(r, k, 1, dbg)
<1>1. hmap_put(h, k, dbg, newhash) = Loop(once, 1, roomy)
  BY DEF hmap_put
<1>2. PICK n \in Nat \ {0} : n = h.size /\ h \in Sized(n)
  BY DEF TableOk
<1>3. new.size \in Nat \ {0}
  <2>1. MinOf(2 * n, n + MAX_GROWTH_STEP) \in Nat
    BY MputAssumption DEF MputAssumption, MinOf
  <2>2. PICK q \in Nat : q = MinOf(2 * n, n + MAX_GROWTH_STEP)
    BY <2>1
  <2>3. new.size = prime_geq(q)
    BY <1>2, <2>2 DEF calc_new_size
  <2> QED BY <2>3, SizesPositive
<1>4. TableOk([h EXCEPT !.status = -1])
  <2>1. [h EXCEPT !.status = -1] \in Sized(n)
    BY <1>2, TableParts
  <2> QED BY <2>1, TableParts
<1> HIDE DEF new
<1>5. TableOk(hmap_resize(h, new.size, newhash))
  BY <1>3, ResizeOk
<1>6. TableOk(roomy)
  BY <1>4, <1>5
<1>7. PICK e : e = roomy
  OBVIOUS
<1> HIDE DEF roomy
<1> HIDE DEF once
<1> DEFINE oncebody(g, i) == IF i = 0 THEN e
                             ELSE CHOOSE y \in {once(p) : p \in {g[i - 1]}} : TRUE
           B == CHOOSE g : g = [i \in 0..1 |-> oncebody(g, i)]
<1>8. Loop(once, 1, e) = B[1]
  BY DEF Loop
<1>9. ASSUME NEW g, NEW i \in 0..1
       PROVE  oncebody(g, i) = IF i = 0 THEN e ELSE once(g[i - 1])
  OBVIOUS
<1> HIDE DEF oncebody
<1>10. \E g : g = [i \in 0..1 |-> oncebody(g, i)]
  <2>1. PICK g : g = [i \in 0..1 |-> IF i = 0 THEN e ELSE once(e)]
    OBVIOUS
  <2>2. \A i \in 0..1 : g[i] = oncebody(g, i)
    BY <1>9, <2>1
  <2> QED BY <2>1, <2>2
<1>11. B = [i \in 0..1 |-> oncebody(B, i)]
  BY <1>10
<1> HIDE DEF B
<1>12. B[1] = once(e)
  <2>1. B[0] = e
    BY <1>9, <1>11
  <2>2. B[1] = once(B[0])
    BY <1>9, <1>11
  <2> QED BY <2>1, <2>2
<1>13. TableOk(once(e))
  <2>1. 1 \in Nat /\ TableOk(e)
    BY <1>6, <1>7
  <2>2. hmap_insert(e, k, 1, dbg) \in Sized(e.size)
    BY <2>1, InsertOk
  <2>3. TableOk(hmap_insert(e, k, 1, dbg))
    BY <2>1, <2>2, TableParts DEF TableOk
  <2> QED BY <2>1, <2>3 DEF once
<1> QED BY <1>1, <1>7, <1>8, <1>12, <1>13

(* The search for the key to delete ends at a bucket.                      *)
LEMMA DelLocOk ==
  ASSUME NEW h, TableOk(h), NEW k \in Keys
  PROVE  DelLoc(h, k).loc \in 0..(h.size - 1)
<1> DEFINE x == set_hash(h, k, NoDbg)
           e == [key |-> k, hash |-> x]
           b(s) == h.bkts[s.loc]
           step(s) ==
             IF s.done THEN s
             ELSE IF Passed(b(s), s) THEN [s EXCEPT !.done = TRUE]
             ELSE IF Holds(b(s), e) THEN [s EXCEPT !.done = TRUE, !.found = TRUE]
             ELSE Onward(h, s)
           init == [loc |-> set_probe_loc(h, x, NoDbg), psl |-> 0, done |-> FALSE,
                    found |-> FALSE]
<1>a. PICK n \in Nat \ {0} : n = h.size
  BY DEF TableOk
<1> DEFINE S == Searching(n)
<1>1. DelLoc(h, k) = Loop(step, h.size, init)
  BY DEF DelLoc, Search
<1>2. init \in S
  <2>1. NoDbg \in Dbg /\ NoDbg.loc = 0
    BY DEF NoDbg, Dbg
  <2>2. set_probe_loc(h, x, NoDbg) \in 0..(n - 1)
    BY <1>a, <2>1, ProbeTypes
  <2> HIDE DEF x
  <2> QED BY <2>2 DEF Searching
<1>3. \A s \in S : step(s) \in S
  BY <1>a, SearchOnward
<1> HIDE DEF step, init, S
<1> DEFINE body(g, i) == IF i = 0 THEN init
                         ELSE CHOOSE y \in {step(p) : p \in {g[i - 1]}} : TRUE
           A == CHOOSE g : g = [i \in 0..n |-> body(g, i)]
<1>4. DelLoc(h, k) = A[n]
  BY <1>1, <1>a DEF Loop
<1>5. ASSUME NEW g, NEW i \in 0..n
      PROVE  body(g, i) = IF i = 0 THEN init ELSE step(g[i - 1])
  OBVIOUS
<1> HIDE DEF body
<1>6. \E g : g = [i \in 0..n |-> body(g, i)]
  <2>1. PICK F : F = [p \in S |-> step(p)]
    OBVIOUS
  <2>2. PICK g : Iterated(g, F, init, n)
    BY Iterates
  <2>3. PICK W : W = [i \in 0..n |-> S]
    OBVIOUS
  <2>4. \A i \in 0..n : g[i] \in S
    <3>1. g[0] \in W[0] /\ \A i \in 1..n : g[i - 1] \in W[i - 1] => g[i] \in W[i]
      BY <1>2, <1>3, <2>1, <2>2, <2>3 DEF Iterated
    <3> QED BY <2>3, <3>1, RoundsStay
  <2>5. \A i \in 0..n : g[i] = body(g, i)
    BY <1>5, <2>1, <2>2, <2>4 DEF Iterated
  <2> QED BY <2>2, <2>5 DEF Iterated
<1>7. A = [i \in 0..n |-> body(A, i)]
  BY <1>6
<1> HIDE DEF A
<1>8. \A i \in 0..n : A[i] = body(A, i)
  BY <1>7
<1>9. A[n] \in S
  <2>1. PICK W : W = [i \in 0..n |-> S]
    OBVIOUS
  <2>2. A[0] \in W[0] /\ \A i \in 1..n : A[i - 1] \in W[i - 1] => A[i] \in W[i]
    BY <1>2, <1>3, <1>5, <1>8, <2>1
  <2>3. \A i \in 0..n : A[i] \in W[i]
    BY <2>2, RoundsStay
  <2> QED BY <2>1, <2>3
<1> QED BY <1>4, <1>9, <1>a DEF S, Searching

\* where the deletion from n buckets is, which moves later keys back
Shifting(n) == [h : Sized(n), hole : 0..(n - 1), done : BOOLEAN]

(* A round of it.                                                          *)
LEMMA ShiftStepOk ==
  ASSUME NEW n \in Nat \ {0}, NEW s \in Shifting(n)
  PROVE  ShiftStep(s) \in Shifting(n)
<1>1. s.h \in Sized(n) /\ s.hole \in 0..(n - 1) /\ s.done \in BOOLEAN
  BY DEF Shifting
<1>2. PICK h \in Sized(n), i \in 0..(n - 1) : h = s.h /\ i = s.hole
  BY <1>1
<1>3. h.size = n /\ h.bkts \in [0..(n - 1) -> Bkt]
  BY TableParts
<1>4. PICK j \in 0..(n - 1) : j = NextLoc(h, i)
  BY <1>3 DEF NextLoc
<1>5. PICK b \in Bkt : b = h.bkts[j]
  BY <1>3
<1>6. EmptyBkt \in Bkt
  BY DEF EmptyBkt, Bkt
<1>7. CASE s.done \/ b.key = NoKey \/ b.psl = 0
  <2>1. ShiftStep(s) = s \/ ShiftStep(s) = [s EXCEPT !.done = TRUE]
    BY <1>2, <1>4, <1>5, <1>7 DEF ShiftStep
  <2>2. [s EXCEPT !.done = TRUE] \in Shifting(n)
    BY DEF Shifting
  <2> QED BY <2>1, <2>2
<1>8. CASE ~(s.done \/ b.key = NoKey \/ b.psl = 0)
  <2>1. PICK b1 \in Bkt : b1 = [b EXCEPT !.psl = @ - 1]
    BY <1>8, BktParts
  <2>2. PICK f \in [0..(n - 1) -> Bkt] :
          f = [h.bkts EXCEPT ![i] = b1, ![j] = EmptyBkt]
    BY <1>3, <1>6
  <2>3. PICK h1 \in Sized(n) : h1 = [h EXCEPT !.bkts = f]
    BY DEF Sized
  <2>4. [s.h EXCEPT !.bkts = f] = h1
    BY <1>2, <2>3
  <2>5. ShiftStep(s) = [s EXCEPT !.hole = j, !.h = h1]
    BY <1>2, <1>4, <1>5, <1>8, <2>1, <2>2, <2>3 DEF ShiftStep
  <2>6. [s EXCEPT !.hole = j, !.h = h1] \in Shifting(n)
    BY DEF Shifting
  <2> QED BY <2>5, <2>6
<1> QED BY <1>7, <1>8

(* The loop of hmap_del.                                                   *)
LEMMA ShiftLoop ==
  ASSUME NEW n \in Nat \ {0}, NEW init \in Shifting(n)
  PROVE  Loop(ShiftStep, n, init) \in Shifting(n)
<1> DEFINE step(s) == ShiftStep(s)
           S == Shifting(n)
<1>2. init \in S
  OBVIOUS
<1>3. \A s \in S : step(s) \in S
  BY ShiftStepOk
<1> HIDE DEF step, S
<1> DEFINE body(g, i) == IF i = 0 THEN init
                         ELSE CHOOSE y \in {step(p) : p \in {g[i - 1]}} : TRUE
           A == CHOOSE g : g = [i \in 0..n |-> body(g, i)]
<1>4. Loop(ShiftStep, n, init) = A[n]
  BY DEF Loop, step
<1>5. ASSUME NEW g, NEW i \in 0..n
      PROVE  body(g, i) = IF i = 0 THEN init ELSE step(g[i - 1])
  OBVIOUS
<1> HIDE DEF body
<1>6. \E g : g = [i \in 0..n |-> body(g, i)]
  <2>1. PICK F : F = [p \in S |-> step(p)]
    OBVIOUS
  <2>2. PICK g : Iterated(g, F, init, n)
    BY Iterates
  <2>3. PICK W : W = [i \in 0..n |-> S]
    OBVIOUS
  <2>4. \A i \in 0..n : g[i] \in S
    <3>1. g[0] \in W[0] /\ \A i \in 1..n : g[i - 1] \in W[i - 1] => g[i] \in W[i]
      BY <1>2, <1>3, <2>1, <2>2, <2>3 DEF Iterated
    <3> QED BY <2>3, <3>1, RoundsStay
  <2>5. \A i \in 0..n : g[i] = body(g, i)
    BY <1>5, <2>1, <2>2, <2>4 DEF Iterated
  <2> QED BY <2>2, <2>5 DEF Iterated
<1>7. A = [i \in 0..n |-> body(A, i)]
  BY <1>6
<1> HIDE DEF A
<1>8. \A i \in 0..n : A[i] = body(A, i)
  BY <1>7
<1>9. A[n] \in S
  <2>1. PICK W : W = [i \in 0..n |-> S]
    OBVIOUS
  <2>2. A[0] \in W[0] /\ \A i \in 1..n : A[i - 1] \in W[i - 1] => A[i] \in W[i]
    BY <1>2, <1>3, <1>5, <1>8, <2>1
  <2>3. \A i \in 0..n : A[i] \in W[i]
    BY <2>2, RoundsStay
  <2> QED BY <2>1, <2>3
<1> QED BY <1>4, <1>9 DEF S

(* hmap_del, with or without shrinking.                                    *)
LEMMA DelTableOk ==
  ASSUME NEW h, TableOk(h), NEW k \in Keys, NEW newhash \in [Keys -> Hashes]
  PROVE  TableOk(hmap_del(h, k, newhash))
<1> DEFINE s == DelLoc(h, k)
           cleared == [h EXCEPT !.nitems = @ - 1, !.bkts[s.loc] = EmptyBkt]
           init == [h |-> cleared, hole |-> s.loc, done |-> FALSE]
           r == Loop(ShiftStep, h.size, init).h
           half == r.size \div 2
           least == IF half < MinSize THEN MinSize ELSE half
<1>1. hmap_del(h, k, newhash) = IF ~s.done THEN [h EXCEPT !.status = -1]
                                ELSE IF ~s.found THEN h
                                ELSE IF ~Shrinks(r) THEN r
                                ELSE hmap_resize(r, least, newhash)
  BY DEF hmap_del
<1>2. PICK n \in Nat \ {0} : n = h.size /\ h \in Sized(n)
  BY DEF TableOk
<1>3. PICK i \in 0..(n - 1) : i = s.loc
  BY <1>2, DelLocOk
<1>4. PICK c \in Sized(n) : c = cleared
  <2>1. EmptyBkt \in Bkt
    BY DEF EmptyBkt, Bkt
  <2>2. [h EXCEPT !.nitems = @ - 1, !.bkts[i] = EmptyBkt] \in Sized(n)
    BY <1>2, <2>1, TableParts
  <2> QED BY <1>3, <2>2
<1>5. init \in Shifting(n)
  BY <1>3, <1>4 DEF Shifting
<1> HIDE DEF init
<1>6. Loop(ShiftStep, n, init) \in Shifting(n)
  BY <1>5, ShiftLoop
<1>7. r \in Sized(n)
  BY <1>2, <1>6 DEF Shifting
<1> HIDE DEF r
<1>8. TableOk(r) /\ r.size = n
  BY <1>7, TableParts
<1>9. least \in Nat \ {0}
  <2>1. n \div 2 \in Nat
    OBVIOUS
  <2> QED BY <1>8, <2>1, MputAssumption DEF MputAssumption
<1> HIDE DEF least
<1>10. TableOk(hmap_resize(r, least, newhash))
  BY <1>8, <1>9, ResizeOk
<1>11. TableOk([h EXCEPT !.status = -1])
  <2>1. [h EXCEPT !.status = -1] \in Sized(n)
    BY <1>2, TableParts
  <2> QED BY <2>1, TableParts
<1> QED BY <1>1, <1>8, <1>10, <1>11

-----------------------------------------------------------------------------
(* The calls.                                                              *)

Lookup == [set : BOOLEAN, exists : BOOLEAN, idx : Int, hash : Nat, loc : Nat, tid : Int]

\* the variables have types; during hmap_mput a batch is not empty
MputTyped ==
  /\ TableOk(Table)
  /\ keys \in Seq(Keys) /\ lb \in Nat /\ hashkey \in [Keys -> Hashes]
  /\ pc \in {"look", "update", "insert"} => lb < Len(keys)
  /\ m \in [0..(NumAtOnce - 1) -> Lookup]
  /\ at \in [Threads -> Nat] /\ reg \in [Threads -> Nat]

\* a key that was looked up is where the lookup found it, and the number of
\* the thread that will update it follows from the key
Found(j) ==
  IF m[j].exists THEN /\ m[j].idx \in 0..(size - 1) /\ bkts[m[j].idx].key = Key(j)
                      /\ m[j].tid = hashkey[Key(j)] % NumProcs
  ELSE m[j].tid = -1

LookedUp == pc \in {"look", "update"} => \A j \in Batch : Found(j)

\* a thread holds an aggregate only while it has a key to update
Holding == \A t \in Threads : reg[t] # 0 => pc = "update" /\ Mine(t) # {}

MputInv == MputTyped /\ LookedUp /\ Holding

(* The keys of a batch.                                                    *)
LEMMA BatchKeys ==
  ASSUME MputTyped
  PROVE  /\ Batch \subseteq 0..(NumAtOnce - 1) /\ niters \in Int
         /\ \A j \in Batch : Key(j) \in Keys
         /\ \A t \in Threads : Mine(t) \subseteq Batch
<1>0. keys \in Seq(Keys) /\ lb \in Nat
  BY DEF MputTyped
<1>1. PICK n \in Nat, len \in Nat : n = NumAtOnce /\ len = Len(keys)
  <2>1. NumAtOnce \in Nat
    BY MputAssumption DEF MputAssumption
  <2>2. Len(keys) \in Nat
    BY <1>0
  <2> QED BY <2>1, <2>2
<1>2. PICK d \in Int : d = len - lb
  BY <1>0
<1>3. PICK k \in Int : k = niters /\ k <= n /\ k <= d
  <2>1. niters = MinOf(n, d)
    BY <1>1, <1>2 DEF niters
  <2> QED BY <2>1 DEF MinOf
<1>4. \A j \in Batch : j \in 0..(n - 1) /\ lb + j + 1 \in 1..len
  BY <1>0, <1>2, <1>3 DEF Batch
<1>5. \A j \in Batch : Key(j) \in Keys
  BY <1>0, <1>1, <1>4 DEF Key
<1> QED BY <1>1, <1>3, <1>4, <1>5 DEF Mine

(* The next key that a thread has to update.                               *)
LEMMA FirstMine ==
  ASSUME MputTyped, NEW t \in Threads, Mine(t) # {}
  PROVE  First(Mine(t)) \in Mine(t)
<1>1. PICK T \in SUBSET Nat : T = Mine(t)
  BY BatchKeys
<1>2. \E j \in T : \A i \in T : j <= i
  BY <1>1, LeastNat
<1> QED BY <1>1, <1>2 DEF First

(* What a thread that holds an aggregate is about to update.               *)
LEMMA Updating ==
  ASSUME MputInv, pc = "update", NEW t \in Threads, Mine(t) # {},
         NEW j, j = First(Mine(t))
  PROVE  /\ j \in Batch /\ j \in Nat /\ Key(j) \in Keys
         /\ m[j].idx \in 0..(size - 1) /\ bkts[m[j].idx].key = Key(j)
         /\ t = hashkey[Key(j)] % NumProcs
<1>1. j \in Mine(t)
  BY FirstMine DEF MputInv
<1>2. j \in Batch /\ j \in Nat /\ Key(j) \in Keys /\ m[j].tid = t
  BY <1>1, BatchKeys DEF Mine, MputInv
<1>3. t # -1
  BY DEF Threads
<1>4. Found(j)
  BY <1>2 DEF MputInv, LookedUp
<1> QED BY <1>2, <1>3, <1>4 DEF Found

(* The fields of the map are those of a table.                             *)
LEMMA MapParts ==
  ASSUME MputTyped
  PROVE  /\ size \in Nat \ {0} /\ nitems \in Int /\ hash \in [Keys -> Hashes]
         /\ bkts \in [0..(size - 1) -> Bkt]
<1>1. PICK T : T = Table
  OBVIOUS
<1>2. TableOk(T) /\ T.size = size /\ T.nitems = nitems /\ T.hash = hash /\ T.bkts = bkts
  BY <1>1 DEF MputTyped, Table
<1>3. T.size \in Nat \ {0} /\ T \in Sized(T.size)
  BY <1>2 DEF TableOk
<1> QED BY <1>2, <1>3, TableParts

(* Two threads that both hold an aggregate hold different ones.            *)
LEMMA MputBuckets ==
  ASSUME MputInv
  PROVE  OneThreadPerBucket /\ IdxsCurrent
<1>1. OneThreadPerBucket
  <2> SUFFICES ASSUME NEW t \in Threads, NEW u \in Threads, t # u, reg[t] # 0, reg[u] # 0
               PROVE  m[First(Mine(t))].idx # m[First(Mine(u))].idx
    BY DEF OneThreadPerBucket
  <2>1. pc = "update" /\ Mine(t) # {} /\ Mine(u) # {}
    BY DEF MputInv, Holding
  <2>2. PICK i : i = First(Mine(t))
    OBVIOUS
  <2>3. PICK j : j = First(Mine(u))
    OBVIOUS
  <2>4. bkts[m[i].idx].key = Key(i) /\ t = hashkey[Key(i)] % NumProcs
    BY <2>1, <2>2, Updating
  <2>5. bkts[m[j].idx].key = Key(j) /\ u = hashkey[Key(j)] % NumProcs
    BY <2>1, <2>3, Updating
  <2>6. m[i].idx # m[j].idx
    BY <2>4, <2>5
  <2> QED BY <2>2, <2>3, <2>6
<1>2. IdxsCurrent
  BY DEF MputInv, LookedUp, Found, IdxsCurrent
<1> QED BY <1>1, <1>2

(* The table after a call for one key.                                     *)
LEMMA BecomesOk ==
  ASSUME NEW h, TableOk(h), Becomes(h)
  PROVE  TableOk(Table)'
<1>1. PICK n \in Nat \ {0} : n = h.size /\ h \in Sized(n)
  BY DEF TableOk
<1>2. /\ size' = n /\ nitems' \in Int /\ hash' \in [Keys -> Hashes]
      /\ bkts' \in [0..(n - 1) -> Bkt]
  BY <1>1, TableParts DEF Becomes
<1>3. Table' = [size |-> size', nitems |-> nitems', hash |-> hash', bkts |-> bkts', status |-> 0]
  BY DEF Table
<1>4. [size |-> n, nitems |-> nitems', hash |-> hash', bkts |-> bkts', status |-> 0] \in Sized(n)
  BY <1>2 DEF Sized
<1>5. PICK T : T = Table'
  OBVIOUS
<1>6. T \in Sized(n)
  BY <1>2, <1>3, <1>4, <1>5
<1>7. TableOk(T)
  BY <1>6, TableParts
<1> QED BY <1>5, <1>7 DEF TableOk, Sized, Bkt

(* Within a batch its keys are the same, and every batch has its place.    *)
LEMMA SameBatch ==
  /\ UNCHANGED <<keys, lb>> => Batch' = Batch /\ \A j \in Batch : Key(j)' = Key(j)
  /\ keys' \in Seq(Keys) /\ lb' \in Nat => Batch' \subseteq 0..(NumAtOnce - 1)
<1>1. ASSUME UNCHANGED <<keys, lb>>
      PROVE  Batch' = Batch /\ \A j \in Batch : Key(j)' = Key(j)
  BY <1>1 DEF Batch, niters, Key
<1>2. ASSUME keys' \in Seq(Keys), lb' \in Nat PROVE Batch' \subseteq 0..(NumAtOnce - 1)
  <2>1. PICK n \in Nat, len \in Nat : n = NumAtOnce /\ len = Len(keys')
    <3>1. Len(keys') \in Nat
      BY <1>2
    <3> QED BY <3>1, MputAssumption DEF MputAssumption
  <2>2. PICK d \in Int : d = len - lb'
    <3>1. PICK l \in Nat : l = lb'
      BY <1>2
    <3>2. len - l \in Int
      OBVIOUS
    <3> QED BY <3>1, <3>2
  <2>3. PICK k : k = niters'
    OBVIOUS
  <2>4. k = MinOf(n, d)
    BY <2>1, <2>2, <2>3 DEF niters
  <2>5. k \in Int /\ k <= n
    BY <2>4 DEF MinOf
  <2>6. Batch' = 0..(k - 1)
    BY <2>3 DEF Batch
  <2> QED BY <2>1, <2>5, <2>6
<1> QED BY <1>1, <1>2

(* A batch begins with nothing looked up.                                  *)
LEMMA BlankOk ==
  ASSUME keys' \in Seq(Keys), lb' \in Nat, m' = Blank, at' = Start
  PROVE  /\ m' \in [0..(NumAtOnce - 1) -> Lookup] /\ at' \in [Threads -> Nat]
         /\ \A j \in Batch' : Found(j)'
<1>1. Unset \in Lookup /\ Unset.exists = FALSE /\ Unset.tid = -1
  BY DEF Unset, Lookup
<1>2. \A j \in 0..(NumAtOnce - 1) : m'[j] = Unset
  BY DEF Blank
<1>3. m' \in [0..(NumAtOnce - 1) -> Lookup]
  BY <1>1 DEF Blank
<1>4. \A j \in Batch' : Found(j)'
  BY <1>1, <1>2, SameBatch DEF Found
<1> QED BY <1>3, <1>4 DEF Start

(* The call begins.                                                        *)
LEMMA MputBegins ==
  ASSUME MputInv, NEW ks \in Inputs, Mput(ks)
  PROVE  MputInv'
<1>1. /\ pc = "idle" /\ pc' = "look" /\ keys' = ks /\ lb' = 0 /\ hashkey' = hash
      /\ m' = Blank /\ at' = Start
      /\ UNCHANGED <<size, nitems, hash, bkts, reg>>
  BY DEF Mput, table
<1>2. ks \in Seq(Keys) /\ Len(ks) > 0
  <2>1. ks \in Seq(Keys) /\ ks # <<>>
    BY MputAssumption DEF MputAssumption
  <2> QED BY <2>1
<1>3. /\ m' \in [0..(NumAtOnce - 1) -> Lookup] /\ at' \in [Threads -> Nat]
      /\ \A j \in Batch' : Found(j)'
  BY <1>1, <1>2, BlankOk
<1>4. TableOk(Table)' /\ hash \in [Keys -> Hashes] /\ reg \in [Threads -> Nat]
  BY <1>1 DEF MputInv, MputTyped, TableOk, Table, Sized, Bkt
<1>5. MputTyped'
  BY <1>1, <1>2, <1>3, <1>4 DEF MputTyped
<1>6. \A t \in Threads : reg'[t] = 0
  BY <1>1 DEF MputInv, Holding
<1> QED BY <1>3, <1>5, <1>6 DEF MputInv, LookedUp, Holding

(* A key is looked up.                                                     *)
LEMMA LookKeeps ==
  ASSUME MputInv, NEW j \in Batch, Look(j)
  PROVE  MputInv'
<1> DEFINE dbg == LookDbg(j)
           r == hmap_get(Table, Key(j), dbg)
           rec == [set |-> TRUE, exists |-> r.found, idx |-> IF r.found THEN r.loc ELSE -1,
                   hash |-> dbg.hash, loc |-> dbg.loc,
                   tid |-> IF r.found THEN dbg.hash % NumProcs ELSE -1]
<1>1. /\ pc = "look" /\ ProbesInside(j) /\ m' = [m EXCEPT ![j] = rec]
      /\ UNCHANGED <<size, nitems, hash, bkts, keys, lb, hashkey, pc, at, reg>>
  BY DEF Look, table, call
<1>2. j \in 0..(NumAtOnce - 1) /\ Key(j) \in Keys
  BY BatchKeys DEF MputInv
<1>3. TableOk(Table) /\ Table.size = size /\ Table.bkts = bkts
  BY DEF MputInv, MputTyped, Table
<1>4. PICK x : x = set_hash(Table, Key(j), dbg)
  OBVIOUS
<1>5. PICK a : a = set_probe_loc(Table, x, dbg)
  OBVIOUS
<1>6. a \in 0..(size - 1)
  BY <1>1, <1>4, <1>5 DEF ProbesInside
<1>7. PICK q : q = r
  OBVIOUS
<1>8. q.found \in BOOLEAN /\ (q.found => q.loc \in 0..(size - 1) /\ bkts[q.loc].key = Key(j))
  BY <1>2, <1>3, <1>4, <1>5, <1>6, <1>7, GetFinds
<1>9. dbg.hash = hashkey[Key(j)] /\ dbg.hash \in Nat
  <2>1. hashkey[Key(j)] \in Hashes /\ Hashes \subseteq Nat
    BY <1>2, MputAssumption DEF MputInv, MputTyped, MputAssumption
  <2> QED BY <2>1 DEF LookDbg
<1>10. dbg.loc \in Nat
  <2>1. dbg.loc = 0 \/ dbg.loc = a
    BY <1>5 DEF set_probe_loc
  <2>2. size \in Nat
    BY <1>3 DEF TableOk
  <2> QED BY <1>6, <2>1, <2>2
<1>11. NumProcs \in Nat \ {0} /\ size \in Nat
  BY <1>3, MputAssumption DEF TableOk, MputAssumption
<1>12. PICK p \in Int : p = IF q.found THEN dbg.hash % NumProcs ELSE -1
  BY <1>9, <1>11
<1>13. PICK i \in Int : i = IF q.found THEN q.loc ELSE -1
  BY <1>8, <1>11
<1>14. rec = [set |-> TRUE, exists |-> q.found, idx |-> i, hash |-> dbg.hash,
              loc |-> dbg.loc, tid |-> p]
  BY <1>7, <1>12, <1>13
<1>15. PICK c \in Lookup : c = rec
  BY <1>8, <1>9, <1>10, <1>14 DEF Lookup
<1>16. c.exists = q.found /\ c.idx = i /\ c.tid = p
  BY <1>14, <1>15
<1> HIDE DEF dbg, r, rec
<1>17. m' = [m EXCEPT ![j] = c] /\ m \in [0..(NumAtOnce - 1) -> Lookup]
  BY <1>1, <1>15 DEF MputInv, MputTyped
<1>18. m' \in [0..(NumAtOnce - 1) -> Lookup]
  BY <1>2, <1>17
<1>19. MputTyped'
  BY <1>1, <1>18 DEF MputInv, MputTyped, TableOk, Table, Sized, Bkt
<1>20. ASSUME NEW l \in Batch PROVE Found(l)'
  <2>1. Key(l)' = Key(l)
    BY <1>1, SameBatch
  <2>2. l \in 0..(NumAtOnce - 1) /\ Found(l)
    BY <1>1, BatchKeys DEF MputInv, LookedUp
  <2>3. CASE l = j
    <3>1. m'[l] = c
      BY <1>2, <1>17, <2>3
    <3> QED BY <1>1, <1>8, <1>9, <1>12, <1>13, <1>16, <2>1, <2>3, <3>1 DEF Found
  <2>4. CASE l # j
    <3>1. m'[l] = m[l]
      BY <1>17, <2>2, <2>4
    <3> QED BY <1>1, <2>1, <2>2, <3>1 DEF Found
  <2> QED BY <2>3, <2>4
<1>21. LookedUp' /\ Holding'
  BY <1>1, <1>20, SameBatch DEF MputInv, LookedUp, Holding
<1> QED BY <1>19, <1>21 DEF MputInv

(* A lookup that reads beyond the buckets ends what can be said.           *)
LEMMA LookOutsideKeeps ==
  ASSUME MputInv, NEW j \in Batch, LookOutside(j)
  PROVE  MputInv'
<1>1. /\ pc = "look" /\ pc' = "undefined"
      /\ UNCHANGED <<size, nitems, hash, bkts, keys, lb, hashkey, m, at, reg>>
  BY DEF LookOutside, table, call
<1>2. MputTyped'
  BY <1>1 DEF MputInv, MputTyped, TableOk, Table, Sized, Bkt
<1> QED BY <1>1, <1>2 DEF MputInv, LookedUp, Holding

(* The barrier after the lookups.                                          *)
LEMMA LookDoneKeeps ==
  ASSUME MputInv, LookDone
  PROVE  MputInv'
<1>1. /\ pc = "look" /\ pc' \in {"failed", "update"}
      /\ UNCHANGED <<size, nitems, hash, bkts, keys, lb, hashkey, m, at, reg>>
  BY DEF LookDone, table, call
<1>2. MputTyped'
  BY <1>1 DEF MputInv, MputTyped, TableOk, Table, Sized, Bkt
<1>3. \A t \in Threads : reg[t] = 0
  BY <1>1 DEF MputInv, Holding
<1>4. ASSUME NEW j \in Batch' PROVE Found(j)'
  <2>1. Batch' = Batch /\ Key(j)' = Key(j)
    BY <1>1, SameBatch
  <2> QED BY <1>1, <2>1 DEF MputInv, LookedUp, Found
<1> QED BY <1>1, <1>2, <1>3, <1>4 DEF MputInv, LookedUp, Holding

(* A thread reads an aggregate.                                            *)
LEMMA UpdateReadKeeps ==
  ASSUME MputInv, NEW t \in Threads, UpdateRead(t)
  PROVE  MputInv'
<1>1. /\ pc = "update" /\ Mine(t) # {}
      /\ reg' = [reg EXCEPT ![t] = bkts[m[First(Mine(t))].idx].val]
      /\ UNCHANGED <<size, nitems, hash, bkts, keys, lb, hashkey, m, at, pc>>
  BY DEF UpdateRead, table, call
<1>2. PICK j : j = First(Mine(t))
  OBVIOUS
<1>3. m[j].idx \in 0..(size - 1)
  BY <1>1, <1>2, Updating
<1>4. PICK v \in Nat : v = bkts[m[j].idx].val
  <2>1. bkts \in [0..(size - 1) -> Bkt]
    BY MapParts DEF MputInv
  <2>2. bkts[m[j].idx] \in Bkt
    BY <1>3, <2>1
  <2> QED BY <2>2, BktParts
<1>5. reg' = [reg EXCEPT ![t] = v] /\ reg \in [Threads -> Nat]
  BY <1>1, <1>2, <1>4 DEF MputInv, MputTyped
<1>6. MputTyped'
  BY <1>1, <1>5 DEF MputInv, MputTyped, TableOk, Table, Sized, Bkt
<1>7. ASSUME NEW j1 \in Batch' PROVE Found(j1)'
  <2>1. Batch' = Batch /\ Key(j1)' = Key(j1)
    BY <1>1, SameBatch
  <2> QED BY <1>1, <2>1 DEF MputInv, LookedUp, Found
<1>8. ASSUME NEW u \in Threads, reg'[u] # 0 PROVE Mine(u)' # {}
  <2>1. Mine(u)' = Mine(u)
    BY <1>1, SameBatch DEF Mine
  <2> QED BY <1>1, <1>5, <1>8, <2>1 DEF MputInv, Holding
<1> QED BY <1>1, <1>6, <1>7, <1>8 DEF MputInv, LookedUp, Holding

(* A thread writes the aggregate back.                                     *)
LEMMA UpdateWriteKeeps ==
  ASSUME MputInv, NEW t \in Threads, UpdateWrite(t)
  PROVE  MputInv'
<1>1. PICK j : j = First(Mine(t))
  OBVIOUS
<1>2. /\ pc = "update" /\ reg[t] # 0
      /\ bkts' = [bkts EXCEPT ![m[j].idx].val = reg[t] + 1]
      /\ at' = [at EXCEPT ![t] = j + 1] /\ reg' = [reg EXCEPT ![t] = 0]
      /\ UNCHANGED <<size, nitems, hash, keys, lb, hashkey, m, pc>>
  BY <1>1 DEF UpdateWrite, call
<1>3. Mine(t) # {}
  BY <1>2 DEF MputInv, Holding
<1>4. PICK a \in 0..(size - 1) : a = m[j].idx
  BY <1>1, <1>2, <1>3, Updating
<1>5. j \in Nat
  BY <1>1, <1>2, <1>3, Updating
<1>6. at \in [Threads -> Nat] /\ reg \in [Threads -> Nat]
  BY DEF MputInv, MputTyped
<1>7. PICK v \in Nat : v = reg[t] + 1
  <2>1. reg[t] \in Nat
    BY <1>6
  <2> QED BY <2>1
<1>8. size \in Nat \ {0} /\ nitems \in Int /\ hash \in [Keys -> Hashes]
      /\ bkts \in [0..(size - 1) -> Bkt]
  BY MapParts DEF MputInv
<1>9. PICK b \in Bkt : b = [bkts[a] EXCEPT !.val = v] /\ b.key = bkts[a].key
  <2>1. PICK c \in Bkt : c = bkts[a]
    BY <1>8
  <2>2. [c EXCEPT !.val = v] \in Bkt /\ [c EXCEPT !.val = v].key = c.key
    BY DEF Bkt
  <2> QED BY <2>1, <2>2
<1>10. bkts' = [bkts EXCEPT ![a] = b]
  BY <1>2, <1>4, <1>7, <1>9
<1>11. bkts' \in [0..(size - 1) -> Bkt] /\ \A i \in 0..(size - 1) : bkts'[i].key = bkts[i].key
  BY <1>8, <1>9, <1>10
<1>12. TableOk(Table)'
  <2>1. Table' \in Sized(size)
    BY <1>2, <1>8, <1>11 DEF Table, Sized
  <2>2. PICK T : T = Table'
    OBVIOUS
  <2>3. TableOk(T)
    BY <1>8, <2>1, <2>2, TableParts
  <2> QED BY <2>2, <2>3 DEF TableOk, Sized, Bkt
<1>13. MputTyped'
  BY <1>2, <1>5, <1>6, <1>12 DEF MputInv, MputTyped
<1>14. ASSUME NEW i \in Batch' PROVE Found(i)'
  <2>1. Batch' = Batch /\ Key(i)' = Key(i)
    BY <1>2, SameBatch
  <2>2. Found(i)
    BY <1>2, <2>1 DEF MputInv, LookedUp
  <2> QED BY <1>2, <1>11, <2>1, <2>2 DEF Found
<1>15. ASSUME NEW u \in Threads, reg'[u] # 0 PROVE Mine(u)' # {}
  <2>1. u # t /\ reg'[u] = reg[u] /\ at'[u] = at[u]
    BY <1>2, <1>6, <1>15
  <2>2. Mine(u)' = Mine(u)
    BY <1>2, <2>1, SameBatch DEF Mine
  <2> QED BY <1>15, <2>1, <2>2 DEF MputInv, Holding
<1> QED BY <1>2, <1>13, <1>14, <1>15 DEF MputInv, LookedUp, Holding

(* The end of the parallel region.                                         *)
LEMMA UpdateDoneKeeps ==
  ASSUME MputInv, UpdateDone
  PROVE  MputInv'
<1>1. /\ pc = "update" /\ pc' = "insert" /\ at' = Start /\ \A t \in Threads : Mine(t) = {}
      /\ UNCHANGED <<size, nitems, hash, bkts, keys, lb, hashkey, m, reg>>
  BY DEF UpdateDone, table, call
<1>2. at' \in [Threads -> Nat]
  BY <1>1 DEF Start
<1>3. MputTyped'
  BY <1>1, <1>2 DEF MputInv, MputTyped, TableOk, Table, Sized, Bkt
<1>4. \A t \in Threads : reg[t] = 0
  BY <1>1 DEF MputInv, Holding
<1> QED BY <1>1, <1>3, <1>4 DEF MputInv, LookedUp, Holding

(* A key that was not found is put, with the dbg of its lookup.            *)
LEMMA InsertNewKeeps ==
  ASSUME SizesExist, MputInv, InsertNew
  PROVE  MputInv'
<1>1. /\ pc = "insert" /\ New # {} /\ pc' \in {"failed", "insert"}
      /\ UNCHANGED <<keys, lb, hashkey, m, reg>>
  BY DEF InsertNew, call
<1>2. PICK j : j = First(New)
  OBVIOUS
<1>3. j \in New
  <2>1. PICK T \in SUBSET Nat : T = New
    <3>1. New \subseteq Batch
      BY DEF New
    <3>2. Batch \subseteq Nat
      BY DEF Batch
    <3> QED BY <3>1, <3>2
  <2>2. \E i \in T : \A l \in T : i <= l
    BY <1>1, <2>1, LeastNat
  <2> QED BY <1>2, <2>1, <2>2 DEF First
<1>4. j \in Nat /\ j \in 0..(NumAtOnce - 1) /\ Key(j) \in Keys
  BY <1>3, BatchKeys DEF New, MputInv
<1>5. PICK dbg \in Dbg : dbg = [hash |-> m[j].hash, loc |-> m[j].loc]
  <2>1. m[j] \in Lookup
    BY <1>4 DEF MputInv, MputTyped
  <2> QED BY <2>1 DEF Lookup, Dbg
<1>6. PICK nh \in mk_hmap_key(Grows) : Becomes(hmap_put(Table, Key(j), dbg, nh))
  BY <1>2, <1>5 DEF InsertNew
<1>7. nh \in [Keys -> Hashes]
  BY <1>6, MapParts DEF mk_hmap_key, MputInv
<1>8. TableOk(Table)'
  <2>1. PICK T : T = Table
    OBVIOUS
  <2>2. PICK k \in Keys : k = Key(j)
    BY <1>4
  <2>3. TableOk(hmap_put(T, k, dbg, nh))
    BY <1>7, <2>1, PutTableOk DEF MputInv, MputTyped
  <2> QED BY <1>6, <2>1, <2>2, <2>3, BecomesOk
<1>9. at' \in [Threads -> Nat]
  <2>1. at' = [at EXCEPT ![0] = j + 1]
    BY <1>2 DEF InsertNew
  <2>2. PICK d \in Nat : d = j + 1
    BY <1>4
  <2>3. at \in [Threads -> Nat]
    BY DEF MputInv, MputTyped
  <2> QED BY <2>1, <2>2, <2>3
<1>10. MputTyped'
  BY <1>1, <1>8, <1>9 DEF MputInv, MputTyped
<1>11. \A t \in Threads : reg[t] = 0
  BY <1>1 DEF MputInv, Holding
<1> QED BY <1>1, <1>10, <1>11 DEF MputInv, LookedUp, Holding

(* The end of a batch, and of the call when it was the last.               *)
LEMMA BatchDoneKeeps ==
  ASSUME MputInv, BatchDone
  PROVE  MputInv'
<1>1. /\ pc = "insert" /\ m' = Blank /\ at' = Start
      /\ pc' = IF lb + niters >= Len(keys) THEN "idle" ELSE "look"
      /\ lb' = IF lb + niters >= Len(keys) THEN lb ELSE lb + NumAtOnce
      /\ UNCHANGED <<size, nitems, hash, bkts, keys, hashkey, reg>>
  BY DEF BatchDone, table
<1>2. keys \in Seq(Keys) /\ lb \in Nat /\ NumAtOnce \in Nat
  BY MputAssumption DEF MputInv, MputTyped, MputAssumption
<1>3. lb' \in Nat /\ (pc' = "look" => lb' < Len(keys))
  <2>1. PICK n \in Nat, len \in Nat, l \in Nat : n = NumAtOnce /\ len = Len(keys) /\ l = lb
    BY <1>2
  <2>2. PICK k : k = niters
    OBVIOUS
  <2>3. k = MinOf(n, len - l)
    BY <2>1, <2>2 DEF niters
  <2>4. k = n \/ l + k >= len
    BY <2>1, <2>3 DEF MinOf
  <2>5. l + n \in Nat /\ (k = n /\ ~(l + k >= len) => l + n < len)
    BY <2>1
  <2>6. CASE l + k >= len
    BY <1>1, <2>1, <2>2, <2>6
  <2>7. CASE ~(l + k >= len)
    BY <1>1, <2>1, <2>2, <2>4, <2>5, <2>7
  <2> QED BY <2>6, <2>7
<1>4. /\ m' \in [0..(NumAtOnce - 1) -> Lookup] /\ at' \in [Threads -> Nat]
      /\ \A j \in Batch' : Found(j)'
  BY <1>1, <1>2, <1>3, BlankOk
<1>5. TableOk(Table)'
  BY <1>1 DEF MputInv, MputTyped, TableOk, Table, Sized, Bkt
<1>6. MputTyped'
  BY <1>1, <1>3, <1>4, <1>5 DEF MputInv, MputTyped
<1>7. \A t \in Threads : reg'[t] = 0
  BY <1>1 DEF MputInv, Holding
<1> QED BY <1>4, <1>6, <1>7 DEF MputInv, LookedUp, Holding

(* The calls for one key.                                                  *)
LEMMA KeyCallKeeps ==
  ASSUME SizesExist, MputInv, NEW k \in Keys, Put(k) \/ Del(k)
  PROVE  MputInv'
<1>1. pc = "idle" /\ pc' \in {"idle", "failed"} /\ UNCHANGED <<keys, lb, hashkey, m, at, reg>>
  BY DEF Put, Del, call
<1>2. PICK T : T = Table
  OBVIOUS
<1>3. TableOk(T)
  BY <1>2 DEF MputInv, MputTyped
<1>4. TableOk(Table)'
  <2>1. CASE Put(k)
    <3>1. PICK nh \in mk_hmap_key(Grows) : Becomes(hmap_put(T, k, NoDbg, nh))
      BY <1>2, <2>1 DEF Put
    <3>2. nh \in [Keys -> Hashes]
      BY <3>1, MapParts DEF mk_hmap_key, MputInv
    <3>3. NoDbg \in Dbg
      BY DEF NoDbg, Dbg
    <3>4. TableOk(hmap_put(T, k, NoDbg, nh))
      BY <1>3, <3>2, <3>3, PutTableOk
    <3> QED BY <3>1, <3>4, BecomesOk
  <2>2. CASE Del(k)
    <3>1. PICK nh \in mk_hmap_key(nitems - 1 > MinSize) : Becomes(hmap_del(T, k, nh))
      BY <1>2, <2>2 DEF Del
    <3>2. nh \in [Keys -> Hashes]
      BY <3>1, MapParts DEF mk_hmap_key, MputInv
    <3>3. TableOk(hmap_del(T, k, nh))
      BY <1>3, <3>2, DelTableOk
    <3> QED BY <3>1, <3>3, BecomesOk
  <2> QED BY <2>1, <2>2
<1>5. MputTyped'
  BY <1>1, <1>4 DEF MputInv, MputTyped
<1>6. \A t \in Threads : reg[t] = 0
  BY <1>1 DEF MputInv, Holding
<1> QED BY <1>1, <1>5, <1>6 DEF MputInv, LookedUp, Holding

(* The empty map.                                                          *)
LEMMA InitOk ==
  ASSUME SizesExist, Init
  PROVE  MputInv
<1>1. /\ size = prime_geq(MinSize) /\ nitems = 0 /\ hash \in [Keys -> Hashes]
      /\ bkts = EmptyBkts(size) /\ pc = "idle" /\ keys = <<>> /\ lb = 0 /\ hashkey = hash
      /\ m = Blank /\ at = Start /\ reg = Start
  BY DEF Init
<1>2. PICK n \in Nat \ {0} : n = size
  BY <1>1, SizesPositive, MputAssumption DEF MputAssumption
<1>3. bkts \in [0..(n - 1) -> Bkt]
  BY <1>1, <1>2 DEF EmptyBkts, EmptyBkt, Bkt
<1>4. TableOk(Table)
  <2>1. Table \in Sized(n)
    BY <1>1, <1>2, <1>3 DEF Table, Sized
  <2> QED BY <2>1, TableParts
<1>5. Unset \in Lookup
  BY DEF Unset, Lookup
<1>6. MputTyped
  BY <1>1, <1>4, <1>5 DEF MputTyped, Blank, Start
<1>7. \A t \in Threads : reg[t] = 0
  BY <1>1 DEF Start
<1> QED BY <1>1, <1>6, <1>7 DEF MputInv, LookedUp, Holding

(* Nothing happens.                                                        *)
LEMMA StutterKeeps ==
  ASSUME MputInv, UNCHANGED vars
  PROVE  MputInv'
<1>1. UNCHANGED <<size, nitems, hash, bkts, keys, lb, hashkey, pc, m, at, reg>>
  BY DEF vars, table, call
<1>2. Batch' = Batch /\ (\A j \in Batch : Key(j)' = Key(j)) /\ \A t \in Threads : Mine(t)' = Mine(t)
  BY <1>1, SameBatch DEF Mine
<1>3. MputTyped'
  BY <1>1 DEF MputInv, MputTyped, TableOk, Table, Sized, Bkt
<1>4. LookedUp'
  BY <1>1, <1>2 DEF MputInv, LookedUp, Found
<1>5. Holding'
  BY <1>1, <1>2 DEF MputInv, Holding
<1> QED BY <1>3, <1>4, <1>5 DEF MputInv

(* MputInv holds throughout.                                               *)
LEMMA AlwaysMputInv ==
  ASSUME SizesExist
  PROVE  Spec => []MputInv
<1>1. Init => MputInv
  BY InitOk
<1>2. MputInv /\ [Next]_vars => MputInv'
  <2> SUFFICES ASSUME MputInv, [Next]_vars PROVE MputInv'
    OBVIOUS
  <2>1. CASE \E ks \in Inputs : Mput(ks)
    BY <2>1, MputBegins
  <2>2. CASE \E k \in Keys : Put(k) \/ Del(k)
    BY <2>2, KeyCallKeeps
  <2>3. CASE MputSteps
    BY <2>3, LookKeeps, LookOutsideKeeps, LookDoneKeeps, UpdateReadKeeps, UpdateWriteKeeps,
       UpdateDoneKeeps, InsertNewKeeps, BatchDoneKeeps DEF MputSteps, Update
  <2>4. CASE UNCHANGED vars
    BY <2>4, StutterKeeps
  <2> QED BY <2>1, <2>2, <2>3, <2>4 DEF Next
<1> QED BY <1>1, <1>2, PTL DEF Spec

(* hmap_mput.c, tids[]: however many threads and keys there are, and       *)
(* however often a batch has one key, no two threads are ever both between *)
(* reading and writing the aggregate of one bucket.                        *)
THEOREM MputOneThreadPerBucket ==
  ASSUME SizesExist
  PROVE  Spec => []OneThreadPerBucket
<1>1. MputInv => OneThreadPerBucket
  BY MputBuckets
<1> QED BY <1>1, AlwaysMputInv, PTL

(* hmap_mput.c, idxs[]: what the lookups of a batch found is still there   *)
(* when the threads update it.                                             *)
THEOREM MputIdxsCurrent ==
  ASSUME SizesExist
  PROVE  Spec => []IdxsCurrent
<1>1. MputInv => IdxsCurrent
  BY MputBuckets
<1> QED BY <1>1, AlwaysMputInv, PTL
=============================================================================
