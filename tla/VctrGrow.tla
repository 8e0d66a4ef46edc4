------------------------------ MODULE VctrGrow ------------------------------
(***************************************************************************)
(* How a vector comes to be and grows: vctr_add, vctr_put1, vctr_putn,     *)
(* vctr_put_chunk, vctr_eov, and the two ways it sheds old chunks while it *)
(* grows: memo (vctr_memo, run by every put) and vctr_early_free.          *)
(***************************************************************************)
EXTENDS VctrBase

(* vctr_add(): a new row.  kills (frees) is how many kills (early frees)   *)
(* to ignore, or Never for a vector that is not killable (freeable).  The  *)
(* uqid is taken before the arguments are looked at.                       *)
Never == -1

NewVctr(q, memo, kills, frees) ==
  [ZeroVctr EXCEPT !.qtype = q, !.memo_len = memo,
     !.is_killable = (kills # Never),
     !.num_kill_ignore = IF kills = Never THEN 0 ELSE kills,
     !.is_early_freeable = (frees # Never),
     !.num_free_ignore = IF frees = Never THEN 0 ELSE frees]

vctr_add(q, memo, kills, frees) ==
  LET uqid == g_vctr_uqid + 1
  IN  /\ uqid \in Uqids
      /\ g_vctr_uqid' = uqid
      /\ IF memo > 0 /\ frees # Never THEN UNCHANGED <<vctrs, vctr>>
         ELSE /\ vctrs' = vctrs \cup {uqid}
              /\ vctr' = [vctr EXCEPT ![uqid] = NewVctr(q, memo, kills, frees)]
      /\ UNCHANGED <<chnkTable, l2, lma, usage, client>>

-----------------------------------------------------------------------------
(* vctr_memo(): keep the memo_len most recent chunks.  The loop goes on    *)
(* when chnk_del() fails (the chunk has readers, or is not there), the     *)
(* status that counts is that of the last chunk, and min_chnk_idx moves up *)
(* whatever happened.  x is the vector's row, keys and c the chunk table.  *)

\* mutant: one chunk more than memo_len is kept
MemoMin_OneMore(x) ==
  IF x.memo_len > 0 /\ ~x.is_eov /\ x.max_chnk_idx - x.min_chnk_idx > x.memo_len
  THEN x.max_chnk_idx - x.memo_len
  ELSE x.min_chnk_idx
MemoMin(x) ==
  IF x.memo_len > 0 /\ ~x.is_eov /\ x.max_chnk_idx + 1 - x.min_chnk_idx > x.memo_len
  THEN x.max_chnk_idx + 1 - x.memo_len
  ELSE x.min_chnk_idx

\* mutant: chunks that age out are forgotten, not deleted
MemoDel_Forget(keys, c, v, x) == {}
MemoDel(keys, c, v, x) ==
  {i \in x.min_chnk_idx .. (MemoMin(x) - 1) :
     <<v, i>> \in keys /\ c[<<v, i>>].num_readers = 0}

MemoFails(keys, c, v, x) ==
  /\ MemoMin(x) > x.min_chnk_idx
  /\ MemoMin(x) - 1 \notin MemoDel(keys, c, v, x)

\* the step that stores row x, with min_chnk_idx moved by memo and is_eov as
\* given, and the chunk table (keys, c) without the chunks memo deletes; m is
\* mem_used before the deletes
StoreWithMemo(v, x, is_eov, keys, c, m) ==
  LET D == MemoDel(keys, c, v, x)
  IN  /\ vctr' = [vctr EXCEPT ![v] =
                    [x EXCEPT !.min_chnk_idx = MemoMin(x), !.is_eov = is_eov]]
      /\ chnks' = keys \ KeysOf(v, D)
      /\ chnk' = ChnkAfterDel(c, v, D)
      /\ mem_used' = MemAfterDel(m, c, v, D)
      /\ l2' = L2AfterDel(c, v, D, x.is_persist)
      /\ dsk_used' = DskAfterDel(dsk_used, c, v, D, x.is_persist)

-----------------------------------------------------------------------------
\* mutant: only the first chunk is given the lives
FreshChnk_FirstOnly(x) ==
  [ZeroChnk EXCEPT !.l1_mem = TRUE,
     !.num_free_ignore = IF x.num_elements = 0 THEN x.num_free_ignore ELSE 0]
\* a chunk as chnk_first(), vctr_put1() and vctr_putn() make one
FreshChnk(x) ==
  [ZeroChnk EXCEPT !.l1_mem = TRUE,
     !.num_free_ignore = IF x.is_early_freeable THEN x.num_free_ignore ELSE 0]

\* mutant: one element too many is copied
SlotsFor_OneMore(i, n, m) == {s \in Slots : i * MaxNumInChnk + s \in n..(n + m)}
\* the slots of chunk i that elements n .. n + m - 1 of the vector go to
SlotsFor(i, n, m) == {s \in Slots : i * MaxNumInChnk + s \in n..(n + m - 1)}

(* vctr_put1() (n = 1) and vctr_putn(): fill the last chunk, go on in new  *)
(* ones.  An empty vector gets its first chunk from chnk_first(); else the *)
(* last chunk must be there and in RAM.  A failing memo is reported after  *)
(* the elements are in.                                                    *)
vctr_putn(v, n) ==
  LET x == vctr[v]
      last == (x.num_elements + n - 1) \div MaxNumInChnk
      Gets == {i \in ChnkIdxs : SlotsFor(i, x.num_elements, n) # {}}
      New  == {i \in Gets : ~chnk_is(v, i)}
      c == [k \in Keys |->
              IF k \in KeysOf(v, Gets)
              THEN LET S == SlotsFor(k[2], x.num_elements, n)
                       old == IF k[2] \in New THEN FreshChnk(x) ELSE chnk[k]
                   IN  [old EXCEPT !.num_elements = @ + Cardinality(S),
                                   !.l1_data = @ \cup S]
              ELSE chnk[k]]
  IN  /\ v \in vctrs /\ ~x.is_eov
      /\ x.num_elements + n <= MaxElems
      /\ x.num_elements > 0 => /\ chnk_is(v, x.max_chnk_idx)
                               /\ chnk[<<v, x.max_chnk_idx>>].l1_mem
      /\ StoreWithMemo(v, [x EXCEPT !.num_elements = @ + n, !.max_chnk_idx = last],
                       FALSE, chnks \cup KeysOf(v, New), c,
                       incr_mem_used(mem_used, Cardinality(New)))
      /\ UNCHANGED <<g_vctr_uqid, vctrs, lma, client>>

(* vctr_put_chunk(): one whole chunk, the last of the vector when it is    *)
(* short.  The memory of a stealable buffer becomes the chunk's, without   *)
(* being counted.  For a short chunk memo runs before, and its failure     *)
(* leaves the chunk out; after the put, its failure only costs is_eov.     *)
vctr_put_chunk(v, n, is_stealable) ==
  LET x == vctr[v]
      i == IF x.num_elements = 0 THEN 0 ELSE x.max_chnk_idx + 1
      y == [x EXCEPT !.num_elements = @ + n, !.max_chnk_idx = i]
      keys == chnks \cup {<<v, i>>}
      c == [chnk EXCEPT ![<<v, i>>] =
              [FreshChnk(x) EXCEPT !.num_elements = n, !.l1_data = 0..(n - 1)]]
      m == IF is_stealable THEN mem_used ELSE incr_mem_used(mem_used, 1)
  IN  /\ v \in vctrs /\ ~x.is_eov
      /\ x.num_elements % MaxNumInChnk = 0
      /\ x.num_elements + n <= MaxElems /\ i \in ChnkIdxs
      /\ IF n < MaxNumInChnk /\ MemoFails(chnks, chnk, v, x)
         THEN StoreWithMemo(v, x, FALSE, chnks, chnk, mem_used)
         ELSE StoreWithMemo(v, y, n < MaxNumInChnk /\ ~MemoFails(keys, c, v, y),
                            keys, c, m)
      /\ UNCHANGED <<g_vctr_uqid, vctrs, lma, client>>

(* vctr_eov(): no more puts.  Idempotent; an empty vector cannot end.      *)
vctr_eov(v) ==
  LET x == vctr[v]
  IN  /\ v \in vctrs /\ ~x.is_eov /\ x.num_elements > 0
      /\ StoreWithMemo(v, x, ~MemoFails(chnks, chnk, v, x), chnks, chnk, mem_used)
      /\ UNCHANGED <<g_vctr_uqid, vctrs, lma, client>>

-----------------------------------------------------------------------------
(* vctr_early_free(): drop the chunks up to and including ub that have no  *)
(* lives left; a chunk with lives loses one.  The loop ends, with an error,*)
(* at a chunk that should go but has readers.  min_chnk_idx follows the    *)
(* last chunk deleted.                                                     *)
EarlyFreeRun(v, ub) ==
  Run(vctr[v].min_chnk_idx, ub,
      {i \in ChnkIdxs : chnk_is(v, i) /\ chnk[<<v, i>>].num_free_ignore = 0
                          => chnk[<<v, i>>].num_readers = 0})

EarlyFreeSpared(v, ub) ==
  {i \in EarlyFreeRun(v, ub) : chnk_is(v, i) /\ chnk[<<v, i>>].num_free_ignore > 0}

vctr_early_free(v, ub) ==
  LET x == vctr[v]
      Spared == EarlyFreeSpared(v, ub)
      D == {i \in EarlyFreeRun(v, ub) \ Spared :
              chnk_is(v, i) /\ (chnk[<<v, i>>].l1_mem \/ chnk[<<v, i>>].l2_exists)}
      c == [k \in Keys |-> IF k \in KeysOf(v, Spared)
                           THEN [chnk[k] EXCEPT !.num_free_ignore = @ - 1]
                           ELSE chnk[k]]
  IN  /\ v \in vctrs
      /\ ~x.is_persist /\ ~x.is_eov /\ x.num_elements > 0 /\ x.is_early_freeable
      /\ \E top \in 0..MaxChnks :
           /\ IF D = {} THEN top = x.min_chnk_idx
              ELSE top - 1 \in D /\ \A i \in D : i <= top - 1
           /\ vctr' = [vctr EXCEPT ![v].min_chnk_idx = top]
      /\ chnks' = chnks \ KeysOf(v, D)
      /\ chnk' = ChnkAfterDel(c, v, D)
      /\ mem_used' = MemAfterDel(mem_used, c, v, D)
      /\ l2' = L2AfterDel(c, v, D, FALSE)
      /\ dsk_used' = DskAfterDel(dsk_used, c, v, D, FALSE)
      /\ UNCHANGED <<g_vctr_uqid, vctrs, lma, client>>

\* the chunks early_free is asked for: the client passes the chunk it is done
\* with, which may be the most recent one
EarlyFreeArgs(v) == 0..vctr[v].max_chnk_idx

-----------------------------------------------------------------------------
VctrAdd == \E q \in Qtypes, memo \in MemoLens,
              kills \in {Never} \cup KillIgnores, frees \in {Never} \cup FreeIgnores :
             vctr_add(q, memo, kills, frees)
VctrPutn == \E v \in Uqids, n \in 1..(MaxNumInChnk + 1) : vctr_putn(v, n)
VctrPutChunk == \E v \in Uqids, n \in 1..MaxNumInChnk, s \in Steals :
                  vctr_put_chunk(v, n, s)
VctrEov == \E v \in Uqids : vctr_eov(v)
VctrEarlyFree == \E v \in Uqids : \E ub \in EarlyFreeArgs(v) : vctr_early_free(v, ub)
=============================================================================
