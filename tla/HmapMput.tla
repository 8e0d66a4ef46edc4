------------------------------ MODULE HmapMput ------------------------------
(***************************************************************************)
(* The hash map of HASHMAP, which aggregates the values put for a key, and *)
(* hmap_mput, which puts many of them with several threads: a batch at a   *)
(* time it looks all keys up in parallel, lets each thread update the keys *)
(* that are there and hash to it, and inserts the other keys one by one.   *)
(* The hash of a key, and where probing starts, are computed once, before  *)
(* the lookup, and passed on in a dbg_t; 0 in it stands for not computed.  *)
(*                                                                         *)
(* Probing and Robin-Hood placement are those of RsHmap, but a bucket also *)
(* keeps the hash of its key.  The aggregate of a key is the number of the *)
(* values that went into it (val_update_4.c; sum, minimum and maximum are  *)
(* changed by the same reads and writes).                                  *)
(***************************************************************************)
EXTENDS HashUtil, FiniteSets, Sequences

CONSTANTS
  Keys,              \* keys a caller uses
  Inputs,            \* the sequences of keys it gives to hmap_mput
  Hashes,            \* bound: the values fasthash32 gives
  MinSize,           \* config.min_size
  MaxSize,           \* config.max_size; 0 is no maximum
  LOW_WATER_MARK,    \* in percent
  HIGH_WATER_MARK,   \* in percent
  MAX_GROWTH_STEP,
  NumAtOnce,         \* M->num_at_once, the length of a batch
  NumProcs,          \* nP, the number of threads that keys are divided among
  TeamSize,          \* the number of threads OpenMP gives a parallel region
  MaxCalls           \* bound: calls a client makes

ASSUME MputAssumption ==
  /\ MinSize \in Nat \ {0} /\ MaxSize \in Nat /\ MAX_GROWTH_STEP \in Nat \ {0}
  /\ LOW_WATER_MARK \in 1..99 /\ HIGH_WATER_MARK \in LOW_WATER_MARK..99
  /\ Hashes \subseteq Nat /\ \A ks \in Inputs : ks \in Seq(Keys) /\ ks # <<>>
  /\ NumAtOnce \in Nat \ {0} /\ NumProcs \in Nat \ {0} /\ TeamSize \in Nat \ {0}
  /\ MaxCalls \in Nat

VARIABLES
  size, nitems,  \* the fields of hmap_t; divinfo stands for size
  hash,          \* the hash of each key under the current hashkey
  bkts,          \* the buckets: 0..size-1 -> [key, hash, val, psl]
  pc,            \* where hmap_mput is, between its barriers
  keys,          \* its keys
  lb,            \* where the batch begins
  hashkey,       \* hash, as hmap_mput copied it when it began
  divinfo,       \* size, as hmap_mput copied it when it began
  m,             \* the arrays of M, one record for each key of the batch
  at,            \* the loop counter of each thread
  reg,           \* the aggregate a thread has read and will write back
  status,
  calls,         \* calls made
  want,          \* values put for each key since it was last deleted
  grown          \* has the map ever been resized in the middle of hmap_mput?

table == <<size, nitems, hash, bkts>>
call == <<keys, lb, hashkey, divinfo>>
vars == <<table, call, pc, m, at, reg, status, calls, want, grown>>

NoKey == "NULL"
Threads == 0..(TeamSize - 1)

EmptyBkt == [key |-> NoKey, hash |-> 0, val |-> 0, psl |-> 0]
EmptyBkts(n) == [i \in 0..(n - 1) |-> EmptyBkt]
Table == [size |-> size, nitems |-> nitems, hash |-> hash, bkts |-> bkts,
          status |-> 0]

(* What is in M for one key of a batch; tid is -1 for a key that is new.   *)
(* The arrays keep what an earlier batch left in them, which nothing reads. *)
Unset == [set |-> FALSE, exists |-> FALSE, idx |-> -1, hash |-> 0, loc |-> 0, tid |-> -1]

NextLoc(h, loc) == IF loc + 1 = h.size THEN 0 ELSE loc + 1

(* The remainder when dividing by d with what fast_div32_init made of n.   *)
(* Below 0 it wraps to near 2^32, far beyond the buckets; a hash that is so *)
(* large that d * (v \div n) wraps as well is beyond the bound Hashes.      *)
fast_rem32(v, d, n) == v - d * (v \div n)

set_hash(h, k, dbg) == IF dbg.hash = 0 THEN h.hash[k] ELSE dbg.hash

set_probe_loc(h, x, dbg) == IF dbg.loc = 0 THEN x % h.size ELSE dbg.loc

NoDbg == [hash |-> 0, loc |-> 0]

-----------------------------------------------------------------------------
(* The map.                                                                *)

Search(h, k, dbg, Step(_, _)) ==
  LET x == set_hash(h, k, dbg)
      one(s) == IF s.done THEN s ELSE Step(s, [key |-> k, hash |-> x])
  IN  Loop(one, h.size, [loc |-> set_probe_loc(h, x, dbg), psl |-> 0,
                         done |-> FALSE, found |-> FALSE])

Holds(b, e) == b.hash = e.hash /\ b.key = e.key

Passed(b, s) == b.key = NoKey \/ s.psl > b.psl

Onward(h, s) == [s EXCEPT !.psl = @ + 1, !.loc = NextLoc(h, s.loc)]

hmap_get(h, k, dbg) ==
  LET Step(s, e) ==
        LET b == h.bkts[s.loc]
        IN  IF Holds(b, e) THEN [s EXCEPT !.done = TRUE, !.found = TRUE]
            ELSE IF Passed(b, s) THEN [s EXCEPT !.done = TRUE]
            ELSE Onward(h, s)
  IN  Search(h, k, dbg, Step)

DelLoc(h, k) ==
  LET Step(s, e) ==
        LET b == h.bkts[s.loc]
        IN  IF Passed(b, s) THEN [s EXCEPT !.done = TRUE]
            ELSE IF Holds(b, e) THEN [s EXCEPT !.done = TRUE, !.found = TRUE]
            ELSE Onward(h, s)
  IN  Search(h, k, NoDbg, Step)

(* Mutant: a key that is there already gets the new value for its aggregate. *)
InsertStep_Replaces(s) ==
  LET h == s.h
      b == h.bkts[s.loc]
      rich == s.entry.psl > b.psl
      poor == IF rich THEN b ELSE s.entry
  IN  IF s.done THEN s
      ELSE IF b.key = NoKey
      THEN [s EXCEPT !.done = TRUE,
                     !.h = [h EXCEPT !.bkts[s.loc] = s.entry, !.nitems = @ + 1]]
      ELSE IF Holds(b, s.entry)
      THEN [s EXCEPT !.done = TRUE, !.h = [h EXCEPT !.bkts[s.loc].val = s.entry.val]]
      ELSE [s EXCEPT !.entry = [poor EXCEPT !.psl = @ + 1],
                     !.loc = NextLoc(h, s.loc),
                     !.h = IF rich THEN [h EXCEPT !.bkts[s.loc] = s.entry] ELSE h]

(* A key that is there already has its aggregate updated.                  *)
InsertStep(s) ==
  LET h == s.h
      b == h.bkts[s.loc]
      rich == s.entry.psl > b.psl
      poor == IF rich THEN b ELSE s.entry
  IN  IF s.done THEN s
      ELSE IF b.key = NoKey
      THEN [s EXCEPT !.done = TRUE,
                     !.h = [h EXCEPT !.bkts[s.loc] = s.entry, !.nitems = @ + 1]]
      ELSE IF Holds(b, s.entry)
      THEN [s EXCEPT !.done = TRUE, !.h = [h EXCEPT !.bkts[s.loc].val = @ + 1]]
      ELSE [s EXCEPT !.entry = [poor EXCEPT !.psl = @ + 1],
                     !.loc = NextLoc(h, s.loc),
                     !.h = IF rich THEN [h EXCEPT !.bkts[s.loc] = s.entry] ELSE h]

hmap_insert(h, k, val, dbg) ==
  LET x == set_hash(h, k, dbg)
      loc == set_probe_loc(h, x, dbg)
      end == Loop(InsertStep, h.size,
                  [h |-> h, loc |-> loc, done |-> FALSE,
                   entry |-> [key |-> k, hash |-> x, val |-> val, psl |-> 0]])
  IN  IF loc >= h.size THEN [h EXCEPT !.status = -1]
      ELSE IF end.done THEN end.h ELSE [end.h EXCEPT !.status = -1]

(* Every key goes into new buckets under a new hash.  A key that is there  *)
(* twice is counted once, and the resize fails.                            *)
hmap_resize(h, newsize, newhash) ==
  LET Fresh == [size |-> newsize, nitems |-> 0, hash |-> newhash,
                bkts |-> EmptyBkts(newsize), status |-> 0]
      Reinsert(s) ==
        LET b == h.bkts[s.i]
        IN  [i |-> s.i + 1,
             h |-> IF b.key = NoKey \/ s.h.status # 0 THEN s.h
                   ELSE hmap_insert(s.h, b.key, b.val, NoDbg)]
      Counted(s) == IF s.h.nitems # h.nitems THEN [s.h EXCEPT !.status = -1] ELSE s.h
  IN  IF newsize < Percent(HIGH_WATER_MARK, h.nitems) THEN [h EXCEPT !.status = -1]
      ELSE Loop(Counted, 1, Loop(Reinsert, h.size, [i |-> 0, h |-> Fresh]))

Grows == nitems > Percent(HIGH_WATER_MARK, size)

calc_new_size(h) ==
  LET new == MinOf(2 * h.size, h.size + MAX_GROWTH_STEP)
  IN  [resize |-> h.nitems > Percent(HIGH_WATER_MARK, h.size),
       fails  |-> MaxSize > 0 /\ new > MaxSize,
       size   |-> prime_geq(new)]

hmap_put(h, k, dbg, newhash) ==
  LET new == calc_new_size(h)
      roomy == IF ~new.resize THEN h
               ELSE IF new.fails THEN [h EXCEPT !.status = -1]
               ELSE hmap_resize(h, new.size, newhash)
      Insert(r) == IF r.status # 0 THEN r ELSE hmap_insert(r, k, 1, dbg)
  IN  Loop(Insert, 1, roomy)

(* Mutant: the bucket a key moves out of loses its key and keeps the rest. *)
ShiftStep_NoMemset(s) ==
  LET next == NextLoc(s.h, s.hole)
      b == s.h.bkts[next]
  IN  IF s.done THEN s
      ELSE IF b.key = NoKey \/ b.psl = 0 THEN [s EXCEPT !.done = TRUE]
      ELSE [s EXCEPT !.hole = next,
                     !.h.bkts = [@ EXCEPT ![s.hole] = [b EXCEPT !.psl = @ - 1],
                                          ![next] = [b EXCEPT !.key = NoKey]]]

ShiftStep(s) ==
  LET next == NextLoc(s.h, s.hole)
      b == s.h.bkts[next]
  IN  IF s.done THEN s
      ELSE IF b.key = NoKey \/ b.psl = 0 THEN [s EXCEPT !.done = TRUE]
      ELSE [s EXCEPT !.hole = next,
                     !.h.bkts = [@ EXCEPT ![s.hole] = [b EXCEPT !.psl = @ - 1],
                                          ![next] = EmptyBkt]]

Shrinks(h) == h.nitems > MinSize /\ h.nitems < Percent(LOW_WATER_MARK, h.size)

(* Mutant: nitems is not decremented. *)
hmap_del_Uncounted(h, k, newhash) ==
  LET s == DelLoc(h, k)
      cleared == [h EXCEPT !.bkts[s.loc] = EmptyBkt]
  IN  IF ~s.done THEN [h EXCEPT !.status = -1]
      ELSE IF ~s.found THEN h
      ELSE Loop(ShiftStep, h.size, [h |-> cleared, hole |-> s.loc, done |-> FALSE]).h

hmap_del(h, k, newhash) ==
  LET s == DelLoc(h, k)
      cleared == [h EXCEPT !.nitems = @ - 1, !.bkts[s.loc] = EmptyBkt]
      r == Loop(ShiftStep, h.size, [h |-> cleared, hole |-> s.loc, done |-> FALSE]).h
      half == r.size \div 2
  IN  IF ~s.done THEN [h EXCEPT !.status = -1]
      ELSE IF ~s.found THEN h
      ELSE IF ~Shrinks(r) THEN r
      ELSE hmap_resize(r, IF half < MinSize THEN MinSize ELSE half, newhash)
-----------------------------------------------------------------------------
(* hmap_mput.                                                              *)

niters == MinOf(NumAtOnce, Len(keys) - lb)
Batch == 0..(niters - 1)
Key(j) == keys[lb + j + 1]

Becomes(h) ==
  /\ size' = h.size /\ nitems' = h.nitems /\ hash' = h.hash /\ bkts' = h.bkts
  /\ status' = h.status

mk_hmap_key(may_resize) == IF may_resize THEN [Keys -> Hashes] ELSE {hash}

Blank == [j \in 0..(NumAtOnce - 1) |-> Unset]
Start == [t \in Threads |-> 0]

Occurs(k, ks) == Cardinality({i \in DOMAIN ks : ks[i] = k})

Mput(ks) ==
  /\ pc = "idle" /\ calls < MaxCalls
  /\ pc' = "look"
  /\ keys' = ks /\ lb' = 0 /\ hashkey' = hash /\ divinfo' = size
  /\ m' = Blank /\ at' = Start
  /\ calls' = calls + 1
  /\ want' = [k \in Keys |-> want[k] + Occurs(k, ks)]
  /\ UNCHANGED <<table, reg, status, grown>>

(* The first parallel loop; each j is given to some thread, in any order.  *)
(* dbg has the hash under the copied hashkey, and its remainder by the     *)
(* current size with the copied divinfo.                                   *)
LookDbg(j) ==
  LET x == hashkey[Key(j)]
  IN  [hash |-> x, loc |-> fast_rem32(x, size, divinfo)]

ProbesInside(j) ==
  set_probe_loc(Table, set_hash(Table, Key(j), LookDbg(j)), LookDbg(j)) \in 0..(size - 1)

(* Mutant: keys are divided among the threads by position. *)
Look_ByPosition(j) ==
  LET dbg == LookDbg(j)
      r == hmap_get(Table, Key(j), dbg)
  IN  /\ pc = "look" /\ ~m[j].set /\ ProbesInside(j)
      /\ m' = [m EXCEPT ![j] =
                 [set |-> TRUE, exists |-> r.found,
                  idx |-> IF r.found THEN r.loc ELSE -1,
                  hash |-> dbg.hash, loc |-> dbg.loc,
                  tid |-> IF r.found THEN j % NumProcs ELSE -1]]
      /\ status' = IF r.done THEN status ELSE -1
      /\ UNCHANGED <<table, call, pc, at, reg, calls, want, grown>>

(* Mutant: a key that is new is inserted by the thread that looked it up.  *)
Look_Inserts(j) ==
  LET dbg == LookDbg(j)
      r == hmap_get(Table, Key(j), dbg)
  IN  /\ pc = "look" /\ ~m[j].set /\ ProbesInside(j)
      /\ m' = [m EXCEPT ![j] =
                 [set |-> TRUE, exists |-> r.found,
                  idx |-> IF r.found THEN r.loc ELSE -1,
                  hash |-> dbg.hash, loc |-> dbg.loc,
                  tid |-> IF r.found THEN dbg.hash % NumProcs ELSE -1]]
      /\ Becomes(IF r.found THEN Table ELSE hmap_insert(Table, Key(j), 1, dbg))
      /\ UNCHANGED <<call, pc, at, reg, calls, want, grown>>

Look(j) ==
  LET dbg == LookDbg(j)
      r == hmap_get(Table, Key(j), dbg)
  IN  /\ pc = "look" /\ ~m[j].set /\ ProbesInside(j)
      /\ m' = [m EXCEPT ![j] =
                 [set |-> TRUE, exists |-> r.found,
                  idx |-> IF r.found THEN r.loc ELSE -1,
                  hash |-> dbg.hash, loc |-> dbg.loc,
                  tid |-> IF r.found THEN dbg.hash % NumProcs ELSE -1]]
      /\ status' = IF r.done THEN status ELSE -1
      /\ UNCHANGED <<table, call, pc, at, reg, calls, want, grown>>

(* hmap_get reads a bucket beyond the array: anything may follow.          *)
LookOutside(j) ==
  /\ pc = "look" /\ ~m[j].set /\ ~ProbesInside(j)
  /\ pc' = "undefined"
  /\ UNCHANGED <<table, call, m, at, reg, status, calls, want, grown>>

LookDone ==
  /\ pc = "look" /\ \A j \in Batch : m[j].set
  /\ pc' = IF status < 0 THEN "failed" ELSE "update"
  /\ UNCHANGED <<table, call, m, at, reg, status, calls, want, grown>>

(* The parallel region: each thread goes over the batch and takes what has *)
(* its number.  val_update reads the aggregate and writes it back.         *)
Mine(t) == {j \in Batch : j >= at[t] /\ m[j].tid = t}

First(js) == CHOOSE j \in js : \A i \in js : j <= i

UpdateRead(t) ==
  /\ pc = "update" /\ reg[t] = 0 /\ Mine(t) # {}
  /\ reg' = [reg EXCEPT ![t] = bkts[m[First(Mine(t))].idx].val]
  /\ UNCHANGED <<table, call, pc, m, at, status, calls, want, grown>>

UpdateWrite(t) ==
  LET j == First(Mine(t))
  IN  /\ pc = "update" /\ reg[t] # 0
      /\ bkts' = [bkts EXCEPT ![m[j].idx].val = reg[t] + 1]
      /\ at' = [at EXCEPT ![t] = j + 1]
      /\ reg' = [reg EXCEPT ![t] = 0]
      /\ UNCHANGED <<size, nitems, hash, call, pc, m, status, calls, want, grown>>

UpdateDone ==
  /\ pc = "update" /\ \A t \in Threads : Mine(t) = {}
  /\ pc' = "insert"
  /\ at' = Start
  /\ UNCHANGED <<table, call, m, reg, status, calls, want, grown>>

(* The sequential loop, which thread 0 runs: the keys that were not found, *)
(* with the dbg of their lookup, also when an earlier one made the map     *)
(* grow.                                                                   *)
New == {j \in Batch : j >= at[0] /\ ~m[j].exists}

InsertNew ==
  /\ pc = "insert" /\ New # {}
  /\ LET j == First(New)
         dbg == [hash |-> m[j].hash, loc |-> m[j].loc]
     IN  /\ \E h \in {hmap_put(Table, Key(j), dbg, nh) : nh \in mk_hmap_key(Grows)} :
              Becomes(h)
         /\ at' = [at EXCEPT ![0] = j + 1]
  /\ pc' = IF status' < 0 THEN "failed" ELSE pc
  /\ grown' = (grown \/ Grows)
  /\ UNCHANGED <<call, m, reg, calls, want>>

(* Mutant: > for >=, so that the last batch is followed by an empty one.   *)
BatchDone_NoBreak ==
  /\ pc = "insert" /\ New = {}
  /\ pc' = IF lb + niters > Len(keys) THEN "idle" ELSE "look"
  /\ lb' = lb + niters
  /\ m' = Blank /\ at' = Start
  /\ UNCHANGED <<table, keys, hashkey, divinfo, reg, status, calls, want, grown>>

BatchDone ==
  /\ pc = "insert" /\ New = {}
  /\ pc' = IF lb + niters >= Len(keys) THEN "idle" ELSE "look"
  /\ lb' = IF lb + niters >= Len(keys) THEN lb ELSE lb + NumAtOnce
  /\ m' = Blank /\ at' = Start
  /\ UNCHANGED <<table, keys, hashkey, divinfo, reg, status, calls, want, grown>>

-----------------------------------------------------------------------------
(* The calls for one key, which nothing runs beside.                       *)

Put(k) ==
  /\ pc = "idle" /\ calls < MaxCalls
  /\ \E h \in {hmap_put(Table, k, NoDbg, nh) : nh \in mk_hmap_key(Grows)} : Becomes(h)
  /\ pc' = IF status' < 0 THEN "failed" ELSE pc
  /\ calls' = calls + 1
  /\ want' = [want EXCEPT ![k] = @ + 1]
  /\ UNCHANGED <<call, m, at, reg, grown>>

Del(k) ==
  /\ pc = "idle" /\ calls < MaxCalls
  /\ \E h \in {hmap_del(Table, k, nh) : nh \in mk_hmap_key(nitems - 1 > MinSize)} : Becomes(h)
  /\ pc' = IF status' < 0 THEN "failed" ELSE pc
  /\ calls' = calls + 1
  /\ want' = [want EXCEPT ![k] = 0]
  /\ UNCHANGED <<call, m, at, reg, grown>>

Init ==
  /\ size = prime_geq(MinSize) /\ nitems = 0
  /\ hash \in [Keys -> Hashes]
  /\ bkts = EmptyBkts(size)
  /\ pc = "idle" /\ status = 0
  /\ keys = <<>> /\ lb = 0 /\ hashkey = hash /\ divinfo = size
  /\ m = Blank /\ at = Start /\ reg = Start
  /\ calls = 0 /\ want = [k \in Keys |-> 0] /\ grown = FALSE

Update == \E t \in Threads : UpdateRead(t) \/ UpdateWrite(t)

MputSteps ==
  \/ \E j \in Batch : Look(j) \/ LookOutside(j)
  \/ LookDone \/ Update \/ UpdateDone \/ InsertNew \/ BatchDone

Next ==
  \/ \E ks \in Inputs : Mput(ks)
  \/ \E k \in Keys : Put(k) \/ Del(k)
  \/ MputSteps

(* OpenMP runs every thread of a team to the end of its region.            *)
Spec == Init /\ [][Next]_vars /\ WF_vars(MputSteps)

-----------------------------------------------------------------------------
(* Properties.                                                             *)

Slots == {i \in 0..(size - 1) : bkts[i].key # NoKey}

(* The fields of hmap_t and the arrays of M keep their types, and an empty *)
(* bucket is all zeroes, as hmap_chk() wants it.                           *)
TypeOK ==
  /\ size \in Nat \ {0} /\ nitems \in 0..size
  /\ hash \in [Keys -> Hashes] /\ hashkey \in [Keys -> Hashes]
  /\ bkts \in [0..(size - 1) -> [key : Keys \cup {NoKey}, hash : Hashes \cup {0},
                                 val : Nat, psl : 0..size]]
  /\ \A i \in 0..(size - 1) : bkts[i].key = NoKey => bkts[i] = EmptyBkt
  /\ pc \in {"idle", "look", "update", "insert", "failed", "undefined"}
  /\ \A j \in DOMAIN m : m[j].exists => m[j].idx \in 0..(size - 1)
  /\ at \in [Threads -> 0..NumAtOnce] /\ reg \in [Threads -> Nat]

(* The threads need no lock: two of them are never both between reading    *)
(* and writing the aggregate of one bucket, although a batch may have a    *)
(* key many times (hmap_mput.c, tids[]).                                   *)
OneThreadPerBucket ==
  \A t, u \in Threads :
    t # u /\ reg[t] # 0 /\ reg[u] # 0 =>
      m[First(Mine(t))].idx # m[First(Mine(u))].idx

(* Until the last update of a batch, the buckets found by its lookups are  *)
(* still the buckets of those keys: no key moves in between.               *)
IdxsCurrent ==
  pc = "update" =>
    \A j \in Batch : m[j].exists => bkts[m[j].idx].key = Key(j)

(* "now confirm that every item has the aggregated value that it should"   *)
(* (test4b.c:87): after hmap_mput every key is found, exactly if it was    *)
(* put, and its aggregate has each of its values once.                     *)
AggregatesExact ==
  pc = "idle" =>
    \A k \in Keys :
      LET r == hmap_get(Table, k, NoDbg)
      IN  /\ r.done /\ (r.found <=> want[k] > 0)
          /\ r.found => bkts[r.loc].val = want[k]

(* The same, of a map that never had to grow in the middle of hmap_mput:   *)
(* put and del may have resized it between the calls.                      *)
AggregatesExactUnlessGrown == ~grown => AggregatesExact

(* What hmap_chk() checks between calls, for such a map: the number of     *)
(* items, no key twice, no empty bucket between a key and its home.        *)
ChkPasses ==
  pc = "idle" /\ ~grown =>
    /\ nitems = Cardinality(Slots)
    /\ \A i, j \in Slots : bkts[i].key = bkts[j].key => i = j
    /\ \A i \in Slots :
         /\ bkts[i].hash = hash[bkts[i].key] /\ bkts[i].val > 0
         /\ \A d \in 0..((i - (bkts[i].hash % size)) % size) : (i - d) % size \in Slots

(* Every call of hmap_mput comes to an end, whatever became of the map:    *)
(* all batches are done, a status is returned, or it read out of bounds.   *)
MputReturns == pc = "look" ~> pc \in {"idle", "failed", "undefined"}
=============================================================================
