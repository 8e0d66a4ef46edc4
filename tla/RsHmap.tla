------------------------------- MODULE RsHmap -------------------------------
(***************************************************************************)
(* The Robin-Hood hash map of TMPL_FIX_HASHMAP, which holds Q's table of   *)
(* vectors and table of chunks.  Buckets are probed linearly from the one  *)
(* a key hashes to; a bucket remembers how far its key is from there (its  *)
(* psl).  An insertion takes the bucket of a key that is closer to home    *)
(* than itself, and goes on with that key; a deletion shifts the following *)
(* keys back.  The map grows and shrinks by inserting every key into a new *)
(* array under a new hash.                                                 *)
(*                                                                         *)
(* A loop of the code is Loop of the step that one round of it takes.  The *)
(* hash of a key is any number of Hashes, chosen again whenever mk_hmap_key*)
(* makes a new hashkey.  The values of the vector and chunk tables are     *)
(* replaced by rsx_val_update, so that is what happens to a key put twice. *)
(***************************************************************************)
EXTENDS HashUtil, FiniteSets, Sequences

CONSTANTS
  Keys,              \* keys a caller uses
  ZeroKey,           \* the key whose bytes are all 0; a caller may use it
  Vals,              \* values a caller puts
  Sources,           \* what it merges: pairs in the order of their buckets
  Hashes,            \* bound: the values set_hash gives
  MinSize,           \* config.min_size
  MaxSize,           \* config.max_size; 0 is no maximum
  LOW_WATER_MARK,    \* in percent, as are the next two
  IDEAL_WATER_MARK,
  HIGH_WATER_MARK,
  MAX_GROWTH_STEP

ASSUME ConfigAssumption ==
  /\ MinSize \in Nat \ {0} /\ MaxSize \in Nat /\ MAX_GROWTH_STEP \in Nat \ {0}
  /\ LOW_WATER_MARK \in 1..99 /\ HIGH_WATER_MARK \in LOW_WATER_MARK..99
  /\ IDEAL_WATER_MARK \in 1..99
  /\ Hashes \subseteq Nat
  /\ \A src \in Sources : src \in Seq(Keys \X Vals)

(* No table is small enough for the marks to let it fill up: more than     *)
(* MinSize buckets below the high mark have room for two keys, and those a *)
(* shrink to the ideal mark makes for one.  The marks of rs_hmap_common.h, *)
(* 0.85 and 0.6, leave that much from a min_size of 6 on; the one it sets  *)
(* is 1024, that of the configurations 32.                                 *)
ASSUME RoomAssumption ==
  /\ MinSize > 1
  /\ (100 - HIGH_WATER_MARK) * (MinSize + 1) > 100
  /\ (100 - IDEAL_WATER_MARK) * (MinSize + 1) >= IDEAL_WATER_MARK

VARIABLES
  size,      \* number of buckets
  nitems,    \* number of keys the map believes it has
  hash,      \* what set_hash gives for each key under the current hashkey
  bkts       \* the buckets: 0..size-1 -> [full, key, val, psl]

vars == <<size, nitems, hash, bkts>>

NoVal == "no value"   \* what memset leaves in the value of an empty bucket

EmptyBkt == [full |-> FALSE, key |-> ZeroKey, val |-> NoVal, psl |-> 0]

EmptyBkts(n) == [i \in 0..(n - 1) |-> EmptyBkt]

Entry(k, v, psl) == [full |-> TRUE, key |-> k, val |-> v, psl |-> psl]

(* A table under construction: the four fields of the struct, and status. *)
Table == [size |-> size, nitems |-> nitems, hash |-> hash, bkts |-> bkts,
          status |-> 0]

probe_loc(h, k) == h.hash[k] % h.size

NextLoc(h, loc) == IF loc + 1 = h.size THEN 0 ELSE loc + 1

-----------------------------------------------------------------------------
(* Sizes. *)

(* The loop of calc_new_size computes the same newsize every time around;   *)
(* it ends because doubling once is always enough.                          *)
calc_new_size(h) ==
  LET new == MinOf(2 * h.size, h.size + MAX_GROWTH_STEP)
  IN  [resize |-> h.nitems > Percent(HIGH_WATER_MARK, h.size),
       fails  |-> MaxSize > 0 /\ new > MaxSize,
       size   |-> prime_geq(new)]

-----------------------------------------------------------------------------
(* The three searches. *)

(* Mutant: the key that gives up its bucket is not carried on. *)
InsertStep_Drops(s) ==
  LET h == s.h
      b == h.bkts[s.loc]
  IN  IF s.done THEN s
      ELSE IF ~b.full \/ s.entry.psl > b.psl
      THEN [s EXCEPT !.done = TRUE,
                     !.h = [h EXCEPT !.bkts[s.loc] = s.entry,
                                     !.nitems = IF b.full THEN @ ELSE @ + 1]]
      ELSE IF b.key = s.entry.key
      THEN [s EXCEPT !.done = TRUE,
                     !.h = [h EXCEPT !.bkts[s.loc].val = s.entry.val]]
      ELSE [s EXCEPT !.entry.psl = @ + 1, !.loc = NextLoc(h, s.loc)]

InsertStep(s) ==
  LET h == s.h
      b == h.bkts[s.loc]
      rich == s.entry.psl > b.psl
      poor == IF rich THEN b ELSE s.entry
  IN  IF s.done THEN s
      ELSE IF ~b.full
      THEN [s EXCEPT !.done = TRUE,
                     !.h = [h EXCEPT !.bkts[s.loc] = s.entry,
                                     !.nitems = @ + 1]]
      ELSE IF b.key = s.entry.key
      THEN [s EXCEPT !.done = TRUE,
                     !.h = [h EXCEPT !.bkts[s.loc].val = s.entry.val]]
      ELSE [s EXCEPT !.entry = [poor EXCEPT !.psl = @ + 1],
                     !.loc = NextLoc(h, s.loc),
                     !.h = IF rich THEN [h EXCEPT !.bkts[s.loc] = s.entry] ELSE h]

insert(h, k, v) ==
  LET end == Loop(InsertStep, h.size,
                  [h |-> h, loc |-> probe_loc(h, k), entry |-> Entry(k, v, 0),
                   done |-> FALSE])
  IN  IF end.done THEN end.h ELSE [end.h EXCEPT !.status = -1]

(* get compares keys before it asks whether the bucket is full. *)
get(h, k) ==
  LET Step(s) ==
        LET b == h.bkts[s.loc]
        IN  IF s.done THEN s
            ELSE IF b.key = k
            THEN [s EXCEPT !.done = TRUE, !.found = TRUE, !.val = b.val]
            ELSE IF ~b.full \/ s.psl > b.psl THEN [s EXCEPT !.done = TRUE]
            ELSE [s EXCEPT !.psl = @ + 1, !.loc = NextLoc(h, s.loc)]
      end == Loop(Step, h.size, [loc |-> probe_loc(h, k), psl |-> 0,
                                 done |-> FALSE, found |-> FALSE, val |-> NoVal])
  IN  [status |-> IF end.done THEN 0 ELSE -1, found |-> end.found, val |-> end.val]

(* The search of del, which asks whether the bucket is full first. *)
DelLoc(h, k) ==
  LET Step(s) ==
        LET b == h.bkts[s.loc]
        IN  IF s.done THEN s
            ELSE IF ~b.full \/ s.psl > b.psl THEN [s EXCEPT !.done = TRUE]
            ELSE IF b.key = k THEN [s EXCEPT !.done = TRUE, !.found = TRUE]
            ELSE [s EXCEPT !.psl = @ + 1, !.loc = NextLoc(h, s.loc)]
  IN  Loop(Step, h.size, [loc |-> probe_loc(h, k), psl |-> 0,
                          done |-> FALSE, found |-> FALSE])

-----------------------------------------------------------------------------
(* resize: every key, in the order of the old buckets, into new buckets. *)

resize(h, newsize, newhash) ==
  LET Fresh == [size |-> newsize, nitems |-> 0, hash |-> newhash,
                bkts |-> EmptyBkts(newsize), status |-> 0]
      Reinsert(s) ==
        LET b == h.bkts[s.i]
        IN  [i |-> s.i + 1,
             h |-> IF ~b.full \/ s.h.status # 0 THEN s.h
                   ELSE insert(s.h, b.key, b.val)]
      end == Loop(Reinsert, h.size, [i |-> 0, h |-> Fresh]).h
  IN  IF newsize <= 0 \/ newsize < Percent(HIGH_WATER_MARK, h.nitems)
      THEN [h EXCEPT !.status = -1]
      ELSE IF end.nitems # h.nitems THEN [end EXCEPT !.status = -1] ELSE end

put(h, k, v, newhash) ==
  LET new == calc_new_size(h)
      r == resize(h, new.size, newhash)
  IN  IF ~new.resize THEN insert(h, k, v)
      ELSE IF new.fails THEN [h EXCEPT !.status = -1]
      ELSE IF r.status # 0 THEN r ELSE insert(r, k, v)

(* merge puts one pair after the other and stops at the first that fails.  *)
(* The i-th put, if it resizes, draws the hashkey newhashes[i].            *)
merge(h, src, newhashes) ==
  LET Step(s) ==
        [i |-> s.i + 1,
         h |-> IF s.h.status # 0 THEN s.h
               ELSE put(s.h, src[s.i][1], src[s.i][2], newhashes[s.i])]
  IN  Loop(Step, Len(src), [i |-> 1, h |-> h]).h

-----------------------------------------------------------------------------
(* del: the keys after the hole move back, up to an empty bucket or a key   *)
(* that is at home.                                                         *)

(* Mutant: the psl of a key that moves back is not renewed. *)
ShiftStep_SamePsl(s) ==
  LET next == NextLoc(s.h, s.hole)
      b == s.h.bkts[next]
  IN  IF s.done THEN s
      ELSE IF ~b.full \/ b.psl = 0 THEN [s EXCEPT !.done = TRUE]
      ELSE [s EXCEPT !.hole = next,
                     !.h.bkts = [@ EXCEPT ![s.hole] = b, ![next] = EmptyBkt]]

(* Mutant: the bucket a key moves out of is marked empty and not cleared. *)
ShiftStep_NoMemset(s) ==
  LET next == NextLoc(s.h, s.hole)
      b == s.h.bkts[next]
  IN  IF s.done THEN s
      ELSE IF ~b.full \/ b.psl = 0 THEN [s EXCEPT !.done = TRUE]
      ELSE [s EXCEPT !.hole = next,
                     !.h.bkts = [@ EXCEPT ![s.hole] = [b EXCEPT !.psl = @ - 1],
                                          ![next] = [b EXCEPT !.full = FALSE]]]

ShiftStep(s) ==
  LET next == NextLoc(s.h, s.hole)
      b == s.h.bkts[next]
  IN  IF s.done THEN s
      ELSE IF ~b.full \/ b.psl = 0 THEN [s EXCEPT !.done = TRUE]
      ELSE [s EXCEPT !.hole = next,
                     !.h.bkts = [@ EXCEPT ![s.hole] = [b EXCEPT !.psl = @ - 1],
                                          ![next] = EmptyBkt]]

BackwardShift(h, loc) ==
  Loop(ShiftStep, h.size,
       [h |-> [h EXCEPT !.bkts[loc] = EmptyBkt], hole |-> loc, done |-> FALSE]).h

Shrunk(h, newhash) ==
  LET n == (100 * h.nitems) \div IDEAL_WATER_MARK
  IN  IF h.nitems > MinSize /\ h.nitems < Percent(LOW_WATER_MARK, h.size)
      THEN resize(h, IF n < MinSize THEN MinSize ELSE n, newhash)
      ELSE h

(* Mutant: nitems is not decremented. *)
del_Uncounted(h, k, newhash) ==
  LET at == DelLoc(h, k)
  IN  IF ~at.done THEN [h EXCEPT !.status = -1]
      ELSE IF ~at.found THEN h
      ELSE Shrunk(BackwardShift(h, at.loc), newhash)

del(h, k, newhash) ==
  LET at == DelLoc(h, k)
  IN  IF ~at.done THEN [h EXCEPT !.status = -1]
      ELSE IF ~at.found THEN h
      ELSE Shrunk(BackwardShift([h EXCEPT !.nitems = @ - 1], at.loc), newhash)

-----------------------------------------------------------------------------

Becomes(h) ==
  size' = h.size /\ nitems' = h.nitems /\ hash' = h.hash /\ bkts' = h.bkts

Init ==
  /\ size = prime_geq(MinSize)
  /\ nitems = 0
  /\ hash \in [Keys -> Hashes]
  /\ bkts = EmptyBkts(size)

(* A resize draws a new hashkey; a call that may not resize draws none. *)
mk_hmap_key(may_resize) == IF may_resize THEN [Keys -> Hashes] ELSE {hash}

Grows(n) == nitems + n > Percent(HIGH_WATER_MARK, size)

Put(k, v) ==
  \E nh \in mk_hmap_key(Grows(0)) : Becomes(put(Table, k, v, nh))

Del(k) ==
  \E nh \in mk_hmap_key(nitems - 1 > MinSize) : Becomes(del(Table, k, nh))

Merge(src) ==
  \E nhs \in [1..Len(src) -> mk_hmap_key(Grows(Len(src) - 1))] :
    /\ \A i \in 1..Len(src) : nhs[i] \in mk_hmap_key(Grows(i - 1))
    /\ Becomes(merge(Table, src, nhs))

Next ==
  \/ \E k \in Keys, v \in Vals : Put(k, v)
  \/ \E k \in Keys : Del(k)
  \/ \E src \in Sources : Merge(src)

Spec == Init /\ [][Next]_vars

-----------------------------------------------------------------------------
(* rs_hmap_chk, the repository's own check of a map: the number of items,  *)
(* no key twice, every key found, no empty bucket between a key and home.  *)

Slots == {i \in 0..(size - 1) : bkts[i].full}

Dist(i) == (i - probe_loc(Table, bkts[i].key)) % size

chk ==
  /\ nitems = Cardinality(Slots)
  /\ \A i, j \in Slots : bkts[i].key = bkts[j].key => i = j
  /\ \A i \in Slots :
       /\ get(Table, bkts[i].key).status = 0
       /\ get(Table, bkts[i].key).found
       /\ \A d \in 0..Dist(i) : bkts[(i - d) % size].full

-----------------------------------------------------------------------------
(* Properties. *)

Contents ==
  [k \in {bkts[i].key : i \in Slots} |->
     bkts[CHOOSE i \in Slots : bkts[i].key = k].val]

(* The check rs_hmap_chk makes never fails, after any sequence of put, del,  *)
(* merge and the resizes they cause.                                        *)
ChkPasses == chk

(* What lookups rely on to stop early: psl is the distance of a key from    *)
(* home, and along a run of buckets it grows by at most one, so that a key  *)
(* is never behind one that is closer to home than it would be there        *)
(* (rs_hmap_get.c, "we found the rich bucket").                             *)
RobinHood ==
  \A i \in Slots :
    /\ bkts[i].psl = Dist(i)
    /\ bkts[i].psl > 0 =>
         LET prev == bkts[(i - 1) % size]
         IN  prev.full /\ prev.psl >= bkts[i].psl - 1

(* rs_hmap_get gives the value of a key that is there, says of any other    *)
(* that it is not, and never fails; rs_hmap_del finds what get finds.  As   *)
(* get looks at the key first, this needs empty buckets to be cleared.      *)
GetAgrees ==
  \A k \in Keys :
    /\ get(Table, k).status = 0
    /\ get(Table, k).found <=> k \in DOMAIN Contents
    /\ k \in DOMAIN Contents => get(Table, k).val = Contents[k]
    /\ DelLoc(Table, k).done /\ DelLoc(Table, k).found = get(Table, k).found

Map == INSTANCE HMap WITH map <- Contents

(* The buckets implement the map a caller has in mind: put sets its key and *)
(* no other, del removes its key and no other, also when either moves other *)
(* keys or the whole array, and a put that fails changes nothing.           *)
ImplementsMap == Map!Spec
=============================================================================
