----------------------------- MODULE VctrProofs -----------------------------
(***************************************************************************)
(* Proofs about the vectors of a session: the type invariant, and that the *)
(* linear file of a vector has readers or a writer, never both, and is     *)
(* mapped exactly while somebody has it, for any number of vectors, chunks,*)
(* elements and readers; and that a vector and its nn vector always name   *)
(* each other.                                                             *)
(***************************************************************************)
EXTENDS Vctr, TLAPS, FiniteSetTheorems

-----------------------------------------------------------------------------
(* Lemmas about the operators the actions are built from.                  *)

(* The accounts stay natural numbers: nothing is taken off an account that *)
(* is not on it.                                                           *)
LEMMA Accounts ==
  ASSUME NEW a \in Nat, NEW n \in Nat
  PROVE  /\ incr_mem_used(a, n) \in Nat /\ decr_mem_used(a, n) \in Nat
         /\ incr_dsk_used(a, n) \in Nat /\ decr_dsk_used(a, n) \in Nat
         /\ incr_dsk_chnks(a, n) \in Nat /\ decr_dsk_chnks(a, n) \in Nat
<1>1. incr_mem_used(a, n) \in Nat /\ decr_mem_used(a, n) \in Nat
  BY BoundsAssumption DEF BoundsAssumption, incr_mem_used, decr_mem_used
<1>2. incr_dsk_used(a, n) \in Nat /\ decr_dsk_used(a, n) \in Nat
  BY BoundsAssumption DEF BoundsAssumption, incr_dsk_used, decr_dsk_used
<1>3. incr_dsk_chnks(a, n) \in Nat
  BY BoundsAssumption DEF BoundsAssumption, incr_dsk_chnks
<1>4. decr_dsk_chnks(a, n) \in Nat
  BY BoundsAssumption DEF BoundsAssumption, decr_dsk_chnks
<1> QED BY <1>1, <1>2, <1>3, <1>4

(* A loop over lo..hi that leaves at the first index not in ok gets        *)
(* through indices in ok only.                                             *)
LEMMA RunInOk ==
  ASSUME NEW lo \in Int, NEW hi \in Int, NEW ok
  PROVE  Run(lo, hi, ok) \subseteq ok
  BY DEF Run

(* Sets of chunk indices and of slots are finite, and so have a size.      *)
LEMMA SmallSets ==
  ASSUME NEW S, S \subseteq ChnkIdxs \/ S \subseteq Slots
  PROVE  IsFiniteSet(S) /\ Cardinality(S) \in Nat
<1>1. IsFiniteSet(ChnkIdxs) /\ IsFiniteSet(Slots)
  BY BoundsAssumption, FS_Interval DEF BoundsAssumption, ChnkIdxs, Slots
<1>2. IsFiniteSet(S)
  BY <1>1, FS_Subset
<1> QED BY <1>2, FS_CardinalityType

(* Quotients by the size of a chunk, as chunk indices are computed.        *)
LEMMA Quotients ==
  ASSUME NEW n \in Nat
  PROVE  /\ n \div MaxNumInChnk \in Nat
         /\ MaxNumInChnk * (n \div MaxNumInChnk) <= n
         /\ n >= MaxNumInChnk => n \div MaxNumInChnk >= 1
  BY BoundsAssumption DEF BoundsAssumption

(* The empty rows and files are well typed.                                *)
LEMMA ZeroTypes ==
  ZeroVctr \in VctrVal /\ ZeroChnk \in ChnkVal /\ NoFile \in L2File /\ NoLma \in LmaFile
<1>1. ZeroVctr \in VctrVal BY DEF ZeroVctr, VctrVal
<1>2. ZeroChnk \in ChnkVal BY DEF ZeroChnk, ChnkVal
<1>3. NoFile \in L2File BY DEF NoFile, L2File
<1>4. NoLma \in LmaFile BY DEF NoLma, LmaFile
<1> QED BY <1>1, <1>2, <1>3, <1>4

(* The arguments the client may pass are what vctr_add() expects.          *)
LEMMA InputTypes ==
  /\ \A q \in Qtypes : q \in {"BL", "SC", "I4"}
  /\ \A memo \in MemoLens : memo \in Nat
  /\ \A n \in {Never} \cup KillIgnores : n \in Nat \cup {Never}
  /\ \A n \in {Never} \cup FreeIgnores : n \in Nat \cup {Never}
<1>1. 0..16 \subseteq Nat
  OBVIOUS
<1>2. /\ Qtypes \subseteq {"BL", "SC", "I4"} /\ MemoLens \subseteq Nat
      /\ KillIgnores \subseteq 0..16 /\ FreeIgnores \subseteq 0..16
  BY InputsAssumption DEF InputsAssumption
<1>3. KillIgnores \subseteq Nat /\ FreeIgnores \subseteq Nat
  BY <1>1, <1>2
<1> QED BY <1>2, <1>3, Zenon

(* The row vctr_add() makes is well typed.                                 *)
LEMMA NewVctrType ==
  ASSUME NEW q \in {"BL", "SC", "I4"}, NEW memo \in Nat,
         NEW kills \in Nat \cup {Never}, NEW frees \in Nat \cup {Never}
  PROVE  NewVctr(q, memo, kills, frees) \in VctrVal
<1> DEFINE a == kills # Never
           b == frees # Never
           g == IF kills = Never THEN 0 ELSE kills
           h == IF frees = Never THEN 0 ELSE frees
<1>1. a \in BOOLEAN /\ b \in BOOLEAN
  OBVIOUS
<1>2. g \in Nat /\ h \in Nat
  BY DEF Never
<1> HIDE DEF a, b, g, h
<1>3. [ZeroVctr EXCEPT !.qtype = q, !.memo_len = memo, !.is_killable = a,
         !.num_kill_ignore = g, !.is_early_freeable = b, !.num_free_ignore = h] \in VctrVal
  BY <1>1, <1>2 DEF VctrVal, ZeroVctr
<1> QED BY <1>3 DEF NewVctr, a, b, g, h

(* Counting a reader of the linear file in or out keeps the row typed.     *)
LEMMA LmaCountTypes ==
  ASSUME NEW x \in VctrVal
  PROVE  /\ get_lma_X_nX(x) \in VctrVal
         /\ x.num_readers > 0 => unget_lma_X_nX(x) \in VctrVal
<1>1. get_lma_X_nX(x) \in VctrVal
  <2> DEFINE b == TRUE
  <2>1. b \in BOOLEAN
    OBVIOUS
  <2>2. x.num_readers + 1 \in Nat
    BY DEF VctrVal
  <2> HIDE DEF b
  <2>3. [x EXCEPT !.X = b, !.num_readers = x.num_readers + 1] \in VctrVal
    BY <2>1, <2>2 DEF VctrVal
  <2> QED BY <2>3 DEF get_lma_X_nX, b
<1>2. ASSUME x.num_readers > 0 PROVE unget_lma_X_nX(x) \in VctrVal
  <2> DEFINE b == x.num_readers > 1
  <2>1. b \in BOOLEAN
    OBVIOUS
  <2>2. x.num_readers - 1 \in Nat
    BY <1>2 DEF VctrVal
  <2> HIDE DEF b
  <2>3. [x EXCEPT !.num_readers = x.num_readers - 1, !.X = b] \in VctrVal
    BY <2>1, <2>2 DEF VctrVal
  <2> QED BY <2>3 DEF unget_lma_X_nX, b
<1> QED BY <1>1, <1>2

(* A row of the vector table changed in the fields its operations change.  *)
LEMMA VctrFieldTypes ==
  ASSUME NEW x \in VctrVal, NEW n \in Nat, NEW m \in Nat, NEW b \in BOOLEAN,
         NEW k \in Uqids \cup {0}
  PROVE  /\ [x EXCEPT !.min_chnk_idx = n, !.is_eov = b] \in VctrVal
         /\ [x EXCEPT !.min_chnk_idx = n] \in VctrVal
         /\ [x EXCEPT !.num_elements = n, !.max_chnk_idx = m] \in VctrVal
         /\ [x EXCEPT !.num_elements = n] \in VctrVal
         /\ [x EXCEPT !.is_lma = b] \in VctrVal
         /\ [x EXCEPT !.is_persist = b] \in VctrVal
         /\ [x EXCEPT !.is_error = b] \in VctrVal
         /\ [x EXCEPT !.memo_len = n] \in VctrVal
         /\ [x EXCEPT !.is_killable = b, !.num_kill_ignore = n] \in VctrVal
         /\ [x EXCEPT !.num_kill_ignore = n] \in VctrVal
         /\ [x EXCEPT !.is_early_freeable = b, !.num_free_ignore = n] \in VctrVal
         /\ [x EXCEPT !.num_writers = n, !.X = b] \in VctrVal
         /\ [x EXCEPT !.X = b, !.num_writers = n] \in VctrVal
         /\ [x EXCEPT !.nn_key = k] \in VctrVal
         /\ [x EXCEPT !.parent_key = k] \in VctrVal
  BY DEF VctrVal

(* A row of the chunk table changed in the fields its operations change.   *)
LEMMA ChnkFieldTypes ==
  ASSUME NEW c \in ChnkVal, NEW n \in Nat, NEW b \in BOOLEAN, NEW e \in BOOLEAN,
         NEW S \in SUBSET Slots
  PROVE  /\ [c EXCEPT !.num_readers = n] \in ChnkVal
         /\ [c EXCEPT !.num_free_ignore = n] \in ChnkVal
         /\ [c EXCEPT !.num_elements = n, !.l1_data = S] \in ChnkVal
         /\ [c EXCEPT !.l1_data = S] \in ChnkVal
         /\ [c EXCEPT !.l1_mem = b, !.l1_data = S] \in ChnkVal
         /\ [c EXCEPT !.l2_exists = b] \in ChnkVal
         /\ [c EXCEPT !.l1_mem = b, !.l1_data = S, !.l2_exists = e] \in ChnkVal
  BY DEF ChnkVal

(* What chnk_del() of chunks D of v leaves is well typed.                  *)
LEMMA DelTypes ==
  ASSUME TypeOK, NEW c \in [Keys -> ChnkVal], NEW m \in Nat, NEW d \in Nat,
         NEW v \in Uqids, NEW D, D \subseteq ChnkIdxs, NEW p
  PROVE  /\ ChnkAfterDel(c, v, D) \in [Keys -> ChnkVal]
         /\ MemAfterDel(m, c, v, D) \in Nat
         /\ L2AfterDel(c, v, D, p) \in [Keys -> L2File]
         /\ DskAfterDel(d, c, v, D, p) \in Nat
<1>1. ChnkAfterDel(c, v, D) \in [Keys -> ChnkVal]
  BY ZeroTypes DEF ChnkAfterDel
<1>2. MemAfterDel(m, c, v, D) \in Nat
  <2> DEFINE S == {i \in D : c[<<v, i>>].l1_mem}
  <2>1. Cardinality(S) \in Nat
    BY SmallSets
  <2> QED BY <2>1, Accounts DEF MemAfterDel
<1>3. L2AfterDel(c, v, D, p) \in [Keys -> L2File]
  BY ZeroTypes DEF L2AfterDel, TypeOK
<1>4. DskAfterDel(d, c, v, D, p) \in Nat
  <2>1. WithL2(c, v, D) \subseteq ChnkIdxs
    BY DEF WithL2
  <2>2. Cardinality(WithL2(c, v, D)) \in Nat
    BY <2>1, SmallSets
  <2> QED BY <2>2, Accounts DEF DskAfterDel
<1> QED BY <1>1, <1>2, <1>3, <1>4

(* What a put stores after memo is well typed.                             *)
LEMMA StoreTypes ==
  ASSUME TypeOK, NEW v \in Uqids, NEW x \in VctrVal, NEW e \in BOOLEAN,
         NEW keys, keys \subseteq Keys, NEW c \in [Keys -> ChnkVal], NEW m \in Nat,
         StoreWithMemo(v, x, e, keys, c, m)
  PROVE  /\ vctr' \in [Uqids -> VctrVal] /\ chnks' \subseteq Keys
         /\ chnk' \in [Keys -> ChnkVal] /\ mem_used' \in Nat
         /\ l2' \in [Keys -> L2File] /\ dsk_used' \in Nat
<1> DEFINE D == MemoDel(keys, c, v, x)
<1>1. D \subseteq ChnkIdxs
  BY DEF MemoDel, Keys
<1>2. MemoMin(x) \in Nat
  BY DEF MemoMin, VctrVal
<1>3. [x EXCEPT !.min_chnk_idx = MemoMin(x), !.is_eov = e] \in VctrVal
  BY <1>2, VctrFieldTypes
<1>4. vctr' \in [Uqids -> VctrVal]
  BY <1>3 DEF StoreWithMemo, TypeOK
<1>5. chnks' \subseteq Keys
  BY DEF StoreWithMemo
<1> HIDE DEF D
<1>6. /\ ChnkAfterDel(c, v, D) \in [Keys -> ChnkVal]
      /\ MemAfterDel(m, c, v, D) \in Nat
      /\ L2AfterDel(c, v, D, x.is_persist) \in [Keys -> L2File]
      /\ DskAfterDel(dsk_used, c, v, D, x.is_persist) \in Nat
  BY <1>1, DelTypes DEF TypeOK
<1> QED BY <1>4, <1>5, <1>6 DEF StoreWithMemo, D

(* The row chnk_first() makes is well typed.                               *)
LEMMA FreshChnkType ==
  ASSUME NEW x \in VctrVal
  PROVE  FreshChnk(x) \in ChnkVal
<1> DEFINE n == IF x.is_early_freeable THEN x.num_free_ignore ELSE 0
<1>1. n \in Nat
  BY DEF VctrVal
<1> HIDE DEF n
<1>2. [ZeroChnk EXCEPT !.l1_mem = TRUE, !.num_free_ignore = n] \in ChnkVal
  BY <1>1 DEF ZeroChnk, ChnkVal
<1> QED BY <1>2 DEF FreshChnk, n

-----------------------------------------------------------------------------
(* Each operation keeps the types.                                         *)

(* vctr_add() keeps the types.                                             *)
LEMMA AddType == ASSUME TypeOK, VctrAdd PROVE TypeOK'
<1>1. PICK q \in Qtypes, memo \in MemoLens, kills \in {Never} \cup KillIgnores,
           frees \in {Never} \cup FreeIgnores : vctr_add(q, memo, kills, frees)
  BY DEF VctrAdd
<1>2. NewVctr(q, memo, kills, frees) \in VctrVal
  <2>1. /\ q \in {"BL", "SC", "I4"} /\ memo \in Nat
        /\ kills \in Nat \cup {Never} /\ frees \in Nat \cup {Never}
    BY InputTypes
  <2> QED BY <2>1, NewVctrType
<1>3. g_vctr_uqid + 1 \in Uqids /\ g_vctr_uqid' = g_vctr_uqid + 1
      /\ \/ UNCHANGED <<vctrs, vctr>>
         \/ /\ vctrs' = vctrs \cup {g_vctr_uqid + 1}
            /\ vctr' = [vctr EXCEPT ![g_vctr_uqid + 1] = NewVctr(q, memo, kills, frees)]
  BY <1>1 DEF vctr_add
<1>4. UNCHANGED <<chnkTable, l2, lma, usage, client>>
  BY <1>1 DEF vctr_add
<1> QED BY <1>2, <1>3, <1>4 DEF TypeOK, chnkTable, usage, client

(* vctr_put1() and vctr_putn() keep the types.                             *)
LEMMA PutnType == ASSUME TypeOK, VctrPutn PROVE TypeOK'
<1>1. PICK v \in Uqids, n \in 1..(MaxNumInChnk + 1) : vctr_putn(v, n)
  BY DEF VctrPutn
<1> DEFINE x == vctr[v]
           last == (x.num_elements + n - 1) \div MaxNumInChnk
           S(i) == SlotsFor(i, x.num_elements, n)
           Gets == {i \in ChnkIdxs : S(i) # {}}
           New  == {i \in Gets : ~chnk_is(v, i)}
           old(k) == IF k[2] \in New THEN FreshChnk(x) ELSE chnk[k]
           c == [k \in Keys |->
                   IF k \in KeysOf(v, Gets)
                   THEN [old(k) EXCEPT !.num_elements = @ + Cardinality(S(k[2])),
                                       !.l1_data = @ \cup S(k[2])]
                   ELSE chnk[k]]
           y == [x EXCEPT !.num_elements = @ + n, !.max_chnk_idx = last]
<1>2. x \in VctrVal /\ n \in Nat /\ n >= 1
  BY BoundsAssumption DEF TypeOK, BoundsAssumption
<1>3. y \in VctrVal
  <2>1. x.num_elements + n \in Nat /\ x.num_elements + n - 1 \in Nat
    BY <1>2 DEF VctrVal
  <2>2. last \in Nat
    BY <2>1, Quotients
  <2> QED BY <2>1, <2>2, <1>2, VctrFieldTypes
<1>4. c \in [Keys -> ChnkVal]
  <2> SUFFICES ASSUME NEW k \in Keys
               PROVE  [old(k) EXCEPT !.num_elements = @ + Cardinality(S(k[2])),
                                     !.l1_data = @ \cup S(k[2])] \in ChnkVal
                      /\ chnk[k] \in ChnkVal
    OBVIOUS
  <2>1. chnk[k] \in ChnkVal
    BY DEF TypeOK
  <2>2. old(k) \in ChnkVal
    BY <1>2, <2>1, FreshChnkType
  <2>3. S(k[2]) \subseteq Slots
    BY DEF SlotsFor
  <2>4. Cardinality(S(k[2])) \in Nat
    BY <2>3, SmallSets
  <2> HIDE DEF old, S
  <2>5. old(k).num_elements + Cardinality(S(k[2])) \in Nat
        /\ old(k).l1_data \cup S(k[2]) \in SUBSET Slots
    BY <2>2, <2>3, <2>4 DEF ChnkVal
  <2> QED BY <2>1, <2>2, <2>5, ChnkFieldTypes
<1>5. chnks \cup KeysOf(v, New) \subseteq Keys
  BY DEF TypeOK, KeysOf, Keys
<1>6. incr_mem_used(mem_used, Cardinality(New)) \in Nat
  <2>1. New \subseteq ChnkIdxs
    OBVIOUS
  <2> HIDE DEF New
  <2>2. Cardinality(New) \in Nat
    BY <2>1, SmallSets
  <2> QED BY <2>2, Accounts DEF TypeOK
<1>7. StoreWithMemo(v, y, FALSE, chnks \cup KeysOf(v, New), c,
                    incr_mem_used(mem_used, Cardinality(New)))
      /\ UNCHANGED <<g_vctr_uqid, vctrs, lma, client>>
  BY <1>1, Zenon DEF vctr_putn
<1> HIDE DEF x, y, c, New
<1>8. /\ vctr' \in [Uqids -> VctrVal] /\ chnks' \subseteq Keys
      /\ chnk' \in [Keys -> ChnkVal] /\ mem_used' \in Nat
      /\ l2' \in [Keys -> L2File] /\ dsk_used' \in Nat
  BY <1>3, <1>4, <1>5, <1>6, <1>7, StoreTypes
<1> QED BY <1>7, <1>8 DEF TypeOK, client

(* vctr_put_chunk() keeps the types.                                       *)
LEMMA PutChunkType == ASSUME TypeOK, VctrPutChunk PROVE TypeOK'
<1>1. PICK v \in Uqids, n \in 1..MaxNumInChnk, is_stealable \in Steals :
             vctr_put_chunk(v, n, is_stealable)
  BY DEF VctrPutChunk
<1> DEFINE x == vctr[v]
           i == IF x.num_elements = 0 THEN 0 ELSE x.max_chnk_idx + 1
           y == [x EXCEPT !.num_elements = @ + n, !.max_chnk_idx = i]
           keys == chnks \cup {<<v, i>>}
           c == [chnk EXCEPT ![<<v, i>>] =
                   [FreshChnk(x) EXCEPT !.num_elements = n, !.l1_data = 0..(n - 1)]]
           m == IF is_stealable THEN mem_used ELSE incr_mem_used(mem_used, 1)
           e == n < MaxNumInChnk /\ ~MemoFails(keys, c, v, y)
<1>2. x \in VctrVal /\ n \in Nat /\ 0..(n - 1) \in SUBSET Slots
  BY BoundsAssumption DEF TypeOK, BoundsAssumption, Slots
<1>3. y \in VctrVal
  <2>1. x.num_elements + n \in Nat /\ i \in Nat
    BY <1>2 DEF VctrVal
  <2> QED BY <2>1, <1>2, VctrFieldTypes
<1>4. i \in ChnkIdxs
  BY <1>1 DEF vctr_put_chunk
<1>5. c \in [Keys -> ChnkVal] /\ chnk \in [Keys -> ChnkVal]
  <2>1. [FreshChnk(x) EXCEPT !.num_elements = n, !.l1_data = 0..(n - 1)] \in ChnkVal
    BY <1>2, FreshChnkType, ChnkFieldTypes
  <2> QED BY <2>1 DEF TypeOK
<1>6. keys \subseteq Keys /\ chnks \subseteq Keys
  BY <1>4 DEF TypeOK, Keys
<1>7. m \in Nat /\ mem_used \in Nat
  BY Accounts DEF TypeOK
<1>8. e \in BOOLEAN /\ FALSE \in BOOLEAN
  OBVIOUS
<1>9. /\ \/ StoreWithMemo(v, x, FALSE, chnks, chnk, mem_used)
         \/ StoreWithMemo(v, y, e, keys, c, m)
      /\ UNCHANGED <<g_vctr_uqid, vctrs, lma, client>>
  BY <1>1, Zenon DEF vctr_put_chunk
<1> HIDE DEF x, y, c, keys, m, e
<1>10. /\ vctr' \in [Uqids -> VctrVal] /\ chnks' \subseteq Keys
       /\ chnk' \in [Keys -> ChnkVal] /\ mem_used' \in Nat
       /\ l2' \in [Keys -> L2File] /\ dsk_used' \in Nat
  BY <1>2, <1>3, <1>5, <1>6, <1>7, <1>8, <1>9, StoreTypes
<1> QED BY <1>9, <1>10 DEF TypeOK, client

(* vctr_eov() keeps the types.                                             *)
LEMMA EovType == ASSUME TypeOK, VctrEov PROVE TypeOK'
<1>1. PICK v \in Uqids : vctr_eov(v)
  BY DEF VctrEov
<1> DEFINE e == ~MemoFails(chnks, chnk, v, vctr[v])
<1>2. e \in BOOLEAN /\ vctr[v] \in VctrVal /\ chnks \subseteq Keys
      /\ chnk \in [Keys -> ChnkVal] /\ mem_used \in Nat
  BY DEF TypeOK
<1>3. /\ StoreWithMemo(v, vctr[v], e, chnks, chnk, mem_used)
      /\ UNCHANGED <<g_vctr_uqid, vctrs, lma, client>>
  BY <1>1, Zenon DEF vctr_eov
<1> HIDE DEF e
<1>4. /\ vctr' \in [Uqids -> VctrVal] /\ chnks' \subseteq Keys
      /\ chnk' \in [Keys -> ChnkVal] /\ mem_used' \in Nat
      /\ l2' \in [Keys -> L2File] /\ dsk_used' \in Nat
  BY <1>2, <1>3, StoreTypes
<1> QED BY <1>3, <1>4 DEF TypeOK, client

(* vctr_early_free() keeps the types: no chunk loses a life it lacks.      *)
LEMMA EarlyFreeType == ASSUME TypeOK, VctrEarlyFree PROVE TypeOK'
<1>0. PICK v \in Uqids : \E ub \in EarlyFreeArgs(v) : vctr_early_free(v, ub)
  BY DEF VctrEarlyFree
<1>1. PICK ub \in EarlyFreeArgs(v) : vctr_early_free(v, ub)
  BY <1>0
<1> DEFINE x == vctr[v]
           Spared == EarlyFreeSpared(v, ub)
           D == {i \in EarlyFreeRun(v, ub) \ Spared :
                   chnk_is(v, i) /\ (chnk[<<v, i>>].l1_mem \/ chnk[<<v, i>>].l2_exists)}
           c == [k \in Keys |-> IF k \in KeysOf(v, Spared)
                                THEN [chnk[k] EXCEPT !.num_free_ignore = @ - 1]
                                ELSE chnk[k]]
<1>2. D \subseteq ChnkIdxs
  BY DEF chnk_is, TypeOK, Keys
<1>3. c \in [Keys -> ChnkVal]
  <2> SUFFICES ASSUME NEW k \in Keys
               PROVE  /\ chnk[k] \in ChnkVal
                      /\ k \in KeysOf(v, Spared) =>
                           [chnk[k] EXCEPT !.num_free_ignore = @ - 1] \in ChnkVal
    OBVIOUS
  <2>1. chnk[k] \in ChnkVal
    BY DEF TypeOK
  <2>2. ASSUME k \in KeysOf(v, Spared)
        PROVE  [chnk[k] EXCEPT !.num_free_ignore = @ - 1] \in ChnkVal
    <3>1. chnk[k].num_free_ignore > 0
      BY <2>2 DEF KeysOf, EarlyFreeSpared
    <3>2. chnk[k].num_free_ignore - 1 \in Nat
      BY <3>1, <2>1 DEF ChnkVal
    <3> QED BY <2>1, <3>2, ChnkFieldTypes
  <2> QED BY <2>1, <2>2
<1>4. /\ \E top \in 0..MaxChnks : vctr' = [vctr EXCEPT ![v].min_chnk_idx = top]
      /\ chnks' = chnks \ KeysOf(v, D)
      /\ chnk' = ChnkAfterDel(c, v, D)
      /\ mem_used' = MemAfterDel(mem_used, c, v, D)
      /\ l2' = L2AfterDel(c, v, D, FALSE)
      /\ dsk_used' = DskAfterDel(dsk_used, c, v, D, FALSE)
      /\ UNCHANGED <<g_vctr_uqid, vctrs, lma, client>>
  BY <1>1, Zenon DEF vctr_early_free
<1>5. vctr' \in [Uqids -> VctrVal]
  <2>1. PICK top \in 0..MaxChnks : vctr' = [vctr EXCEPT ![v].min_chnk_idx = top]
    BY <1>4
  <2>2. top \in Nat /\ vctr[v] \in VctrVal
    BY BoundsAssumption DEF TypeOK, BoundsAssumption
  <2>3. [vctr[v] EXCEPT !.min_chnk_idx = top] \in VctrVal
    BY <2>2, VctrFieldTypes
  <2> QED BY <2>1, <2>3 DEF TypeOK
<1> HIDE DEF D, c
<1>6. /\ chnk' \in [Keys -> ChnkVal] /\ mem_used' \in Nat
      /\ l2' \in [Keys -> L2File] /\ dsk_used' \in Nat
  BY <1>2, <1>3, <1>4, DelTypes DEF TypeOK
<1> QED BY <1>4, <1>5, <1>6 DEF TypeOK, client

(* A chunk brought into RAM from its file, with or without a new reader.   *)
LEMMA LoadTypes ==
  ASSUME TypeOK, NEW k \in Keys
  PROVE  /\ LoadL1(chnk[k], k) \in ChnkVal
         /\ chnk_get_data(k) \in ChnkVal
         /\ chnk_get_data(k).num_readers - 1 \in Nat
<1>1. chnk[k] \in ChnkVal /\ l2[k].data \in SUBSET Slots
  BY DEF TypeOK, L2File
<1> DEFINE c == [chnk[k] EXCEPT !.num_readers = @ + 1]
<1>2. chnk[k].num_readers + 1 \in Nat
  BY <1>1 DEF ChnkVal
<1>3. c \in ChnkVal /\ c.num_readers = chnk[k].num_readers + 1
  <2>1. c \in ChnkVal
    BY <1>1, <1>2, ChnkFieldTypes
  <2>2. c.num_readers = chnk[k].num_readers + 1
    BY <1>1 DEF ChnkVal
  <2> QED BY <2>1, <2>2
<1> HIDE DEF c
<1>4. /\ LoadL1(c, k) \in ChnkVal /\ LoadL1(chnk[k], k) \in ChnkVal
      /\ LoadL1(c, k).num_readers = c.num_readers
  <2>1. LoadL1(c, k) \in ChnkVal /\ LoadL1(chnk[k], k) \in ChnkVal
    BY <1>1, <1>3, ChnkFieldTypes DEF LoadL1
  <2>2. LoadL1(c, k).num_readers = c.num_readers
    BY <1>3 DEF LoadL1, ChnkVal
  <2> QED BY <2>1, <2>2
<1>5. chnk_get_data(k) \in {c, LoadL1(c, k)}
  BY DEF chnk_get_data, c
<1>6. chnk_get_data(k) \in ChnkVal
  BY <1>3, <1>4, <1>5
<1>7. chnk_get_data(k).num_readers = chnk[k].num_readers + 1
  BY <1>3, <1>4, <1>5
<1>8. chnk_get_data(k).num_readers - 1 \in Nat
  BY <1>1, <1>7 DEF ChnkVal
<1> QED BY <1>4, <1>6, <1>8

(* vctr_get_chunk() keeps the types.                                       *)
LEMMA GetChunkType == ASSUME TypeOK, VctrGetChunk PROVE TypeOK'
<1>1. PICK v \in Uqids, i \in ChnkIdxs : vctr_get_chunk(v, i)
  BY DEF VctrGetChunk
<1> DEFINE k == <<v, i>>
           up == [held EXCEPT ![k] = @ + 1]
           m == incr_mem_used(mem_used, 1)
<1>2. k \in Keys
  BY DEF Keys
<1>3. /\ chnk' = [chnk EXCEPT ![k] = chnk_get_data(k)]
      /\ mem_used' = IF LoadsL1(k) THEN m ELSE mem_used
      /\ held' = IF chnk_get_data(k).l1_mem THEN up ELSE held
      /\ UNCHANGED <<vctrTable, chnks, l2, lma, dsk_used, lma_held, half_deleted>>
  BY <1>1, Zenon DEF vctr_get_chunk
<1> HIDE DEF k
<1>4. m \in Nat /\ up \in [Keys -> Nat]
  <2>1. m \in Nat
    BY Accounts DEF TypeOK
  <2>2. up \in [Keys -> Nat]
    BY <1>2 DEF TypeOK
  <2> QED BY <2>1, <2>2
<1> HIDE DEF up, m
<1>5. mem_used' \in Nat /\ held' \in [Keys -> Nat]
  BY <1>3, <1>4 DEF TypeOK
<1> QED BY <1>2, <1>3, <1>5, LoadTypes DEF TypeOK, vctrTable

(* chnk_incr_num_readers() keeps the types.                                *)
LEMMA IncrReadersType == ASSUME TypeOK, ChnkIncrReaders PROVE TypeOK'
<1>1. PICK v \in Uqids, i \in ChnkIdxs : chnk_incr_num_readers(v, i)
  BY DEF ChnkIncrReaders
<1> DEFINE k == <<v, i>>
<1>2. k \in Keys
  BY DEF Keys
<1>3. /\ chnk' = [chnk EXCEPT ![k].num_readers = @ + 1]
      /\ held' = [held EXCEPT ![k] = @ + 1]
      /\ UNCHANGED <<vctrTable, chnks, l2, lma, usage, lma_held, half_deleted>>
  BY <1>1, Zenon DEF chnk_incr_num_readers
<1> HIDE DEF k
<1>4. chnk[k] \in ChnkVal /\ chnk[k].num_readers + 1 \in Nat
  BY <1>2 DEF TypeOK, ChnkVal
<1>5. [chnk[k] EXCEPT !.num_readers = @ + 1] \in ChnkVal
  BY <1>4, ChnkFieldTypes
<1> QED BY <1>2, <1>3, <1>5 DEF TypeOK, vctrTable, usage

(* vctr_get_chunk_lma() keeps the types.                                   *)
LEMMA GetChunkLmaType == ASSUME TypeOK, VctrGetChunkLma PROVE TypeOK'
<1>1. PICK v \in Uqids : \E i \in AskedLma(v) : vctr_get_chunk_lma(v, i)
  BY DEF VctrGetChunkLma
<1>2. PICK i \in AskedLma(v) : vctr_get_chunk_lma(v, i)
  BY <1>1
<1>3. /\ vctr' = [vctr EXCEPT ![v] = get_lma_X_nX(vctr[v])]
      /\ held' \in {held, [held EXCEPT ![<<v, i>>] = @ + 1]}
      /\ UNCHANGED <<g_vctr_uqid, vctrs, chnkTable, l2, lma, usage, lma_held, half_deleted>>
  BY <1>2, Zenon DEF vctr_get_chunk_lma
<1>4. get_lma_X_nX(vctr[v]) \in VctrVal
  BY LmaCountTypes DEF TypeOK
<1>5. held' \in [Keys -> Nat]
  BY <1>3 DEF TypeOK
<1> QED BY <1>3, <1>4, <1>5 DEF TypeOK, chnkTable, usage

(* vctr_unget_chunk() keeps the types: no count goes below zero.           *)
LEMMA UngetChunkType == ASSUME TypeOK, VctrUngetChunk PROVE TypeOK'
<1>1. PICK v \in Uqids, i \in ChnkIdxs : vctr_unget_chunk(v, i)
  BY DEF VctrUngetChunk
<1> DEFINE k == <<v, i>>
<1>2. k \in Keys
  BY DEF Keys
<1>3. /\ held[k] > 0 /\ held' = [held EXCEPT ![k] = @ - 1]
      /\ \/ /\ vctr[v].num_readers > 0
            /\ vctr' = [vctr EXCEPT ![v] = unget_lma_X_nX(@)] /\ chnk' = chnk
         \/ /\ chnk[k].num_readers > 0
            /\ chnk' = [chnk EXCEPT ![k].num_readers = @ - 1] /\ vctr' = vctr
      /\ UNCHANGED <<g_vctr_uqid, vctrs, chnks, l2, lma, usage, lma_held, half_deleted>>
  BY <1>1, Zenon DEF vctr_unget_chunk
<1> HIDE DEF k
<1>4. held' \in [Keys -> Nat]
  BY <1>2, <1>3 DEF TypeOK
<1>5. vctr' \in [Uqids -> VctrVal]
  BY <1>3, LmaCountTypes DEF TypeOK
<1>6. chnk' \in [Keys -> ChnkVal]
  <2>1. chnk[k] \in ChnkVal /\ (chnk[k].num_readers > 0 => chnk[k].num_readers - 1 \in Nat)
    BY <1>2 DEF TypeOK, ChnkVal
  <2>2. chnk[k].num_readers > 0 => [chnk[k] EXCEPT !.num_readers = @ - 1] \in ChnkVal
    BY <2>1, ChnkFieldTypes
  <2> QED BY <1>2, <1>3, <2>2 DEF TypeOK
<1> QED BY <1>3, <1>4, <1>5, <1>6 DEF TypeOK, usage

(* vctr_get1() keeps the types.                                            *)
LEMMA Get1Type == ASSUME TypeOK, VctrGet1 PROVE TypeOK'
<1>1. PICK v \in Uqids, i \in ChnkIdxs : vctr_get1(v, i)
  BY DEF VctrGet1
<1> DEFINE k == <<v, i>>
           c == chnk_get_data(k)
<1>2. k \in Keys
  BY DEF Keys
<1>3. /\ vctr' \in {vctr, [vctr EXCEPT ![v] = get_lma_X_nX(vctr[v])]}
      /\ chnk' \in {chnk, [chnk EXCEPT ![k] = c],
                    [chnk EXCEPT ![k] = [c EXCEPT !.num_readers = @ - 1]]}
      /\ mem_used' \in {mem_used, incr_mem_used(mem_used, 1)}
      /\ UNCHANGED <<g_vctr_uqid, vctrs, chnks, l2, lma, dsk_used, client>>
  BY <1>1 DEF vctr_get1
<1> HIDE DEF k
<1>4. c \in ChnkVal /\ c.num_readers - 1 \in Nat
  BY <1>2, LoadTypes
<1> HIDE DEF c
<1>5. [c EXCEPT !.num_readers = @ - 1] \in ChnkVal
  BY <1>4, ChnkFieldTypes
<1>6. chnk' \in [Keys -> ChnkVal]
  BY <1>2, <1>3, <1>4, <1>5 DEF TypeOK
<1>7. vctr' \in [Uqids -> VctrVal]
  BY <1>3, LmaCountTypes DEF TypeOK
<1>8. mem_used' \in Nat
  BY <1>3, Accounts DEF TypeOK
<1> QED BY <1>3, <1>6, <1>7, <1>8 DEF TypeOK, client

(* vctr_get_lma_read() and vctr_unget_lma_read() keep the types.           *)
LEMMA LmaReadType ==
  ASSUME TypeOK, VctrGetLmaRead \/ VctrUngetLmaRead PROVE TypeOK'
<1>1. PICK v \in Uqids : vctr_get_lma_read(v) \/ vctr_unget_lma_read(v)
  BY DEF VctrGetLmaRead, VctrUngetLmaRead
<1>2. vctr[v] \in VctrVal
  BY DEF TypeOK
<1>3. /\ \/ /\ vctr' = [vctr EXCEPT ![v] = get_lma_X_nX(vctr[v])]
            /\ lma_held' = [lma_held EXCEPT ![v] = @ + 1]
         \/ /\ vctr[v].num_readers > 0 /\ lma_held[v] > 0
            /\ vctr' = [vctr EXCEPT ![v] = unget_lma_X_nX(vctr[v])]
            /\ lma_held' = [lma_held EXCEPT ![v] = @ - 1]
      /\ UNCHANGED <<g_vctr_uqid, vctrs, chnkTable, l2, lma, usage, held, half_deleted>>
  BY <1>1, Zenon DEF vctr_get_lma_read, vctr_unget_lma_read
<1>4. vctr' \in [Uqids -> VctrVal]
  BY <1>2, <1>3, LmaCountTypes DEF TypeOK
<1>5. lma_held' \in [Uqids -> Nat]
  BY <1>3 DEF TypeOK
<1> QED BY <1>3, <1>4, <1>5 DEF TypeOK, chnkTable, usage

(* lVector:get_lma_write() keeps the types.                                *)
LEMMA GetLmaWriteType == ASSUME TypeOK, GetLmaWrite PROVE TypeOK'
<1>1. PICK v \in Uqids : get_lma_write(v)
  BY DEF GetLmaWrite
<1> DEFINE S == DropRun(v)
           L1 == {i \in S : chnk[<<v, i>>].l1_mem}
           L2 == {i \in S : chnk[<<v, i>>].l2_exists}
           f(k) == [chnk[k] EXCEPT !.l1_mem = FALSE, !.l1_data = {}, !.l2_exists = FALSE]
           x == [vctr[v] EXCEPT !.X = TRUE, !.num_writers = 1]
<1>2. /\ vctr' \in {vctr, [vctr EXCEPT ![v] = x]}
      /\ chnk' = [k \in Keys |-> IF k \in KeysOf(v, S) THEN f(k) ELSE chnk[k]]
      /\ l2' = [k \in Keys |-> IF k \in KeysOf(v, L2) THEN NoFile ELSE l2[k]]
      /\ mem_used' = decr_mem_used(mem_used, Cardinality(L1))
      /\ dsk_used' = decr_dsk_chnks(dsk_used, Cardinality(L2))
      /\ UNCHANGED <<g_vctr_uqid, vctrs, chnks, lma, client>>
  BY <1>1 DEF get_lma_write
<1>3. S \subseteq ChnkIdxs
  <2>1. vctr[v].min_chnk_idx \in Int /\ vctr[v].max_chnk_idx \in Int
    BY DEF TypeOK, VctrVal
  <2> QED BY <2>1, RunInOk DEF DropRun
<1> HIDE DEF S
<1>4. x \in VctrVal
  BY VctrFieldTypes DEF TypeOK
<1>5. \A k \in Keys : f(k) \in ChnkVal /\ chnk[k] \in ChnkVal
  BY ChnkFieldTypes DEF TypeOK
<1>6. Cardinality(L1) \in Nat /\ Cardinality(L2) \in Nat
  BY <1>3, SmallSets
<1> HIDE DEF x, f, L1, L2
<1>7. mem_used' \in Nat /\ dsk_used' \in Nat
  BY <1>2, <1>6, Accounts DEF TypeOK
<1>8. l2' \in [Keys -> L2File]
  BY <1>2, ZeroTypes DEF TypeOK
<1>9. vctr' \in [Uqids -> VctrVal] /\ chnk' \in [Keys -> ChnkVal]
  BY <1>2, <1>4, <1>5 DEF TypeOK
<1> QED BY <1>2, <1>7, <1>8, <1>9 DEF TypeOK, client

(* vctr_unget_lma_write() keeps the types.                                 *)
LEMMA UngetLmaWriteType == ASSUME TypeOK, UngetLmaWrite PROVE TypeOK'
<1>1. PICK v \in Uqids : vctr_unget_lma_write(v)
  BY DEF UngetLmaWrite
<1> DEFINE x == [vctr[v] EXCEPT !.num_writers = 0, !.X = FALSE]
           f(k) == [chnk[k] EXCEPT !.l1_data = {}]
           g(k) == [l2[k] EXCEPT !.data = {}]
<1>2. /\ vctr' = [vctr EXCEPT ![v] = x]
      /\ chnk' = [k \in Keys |-> IF k[1] = v THEN f(k) ELSE chnk[k]]
      /\ l2' = [k \in Keys |-> IF k[1] = v THEN g(k) ELSE l2[k]]
      /\ UNCHANGED <<g_vctr_uqid, vctrs, chnks, lma, usage, client>>
  BY <1>1 DEF vctr_unget_lma_write
<1>3. x \in VctrVal
  BY VctrFieldTypes DEF TypeOK
<1>4. \A k \in Keys : f(k) \in ChnkVal /\ chnk[k] \in ChnkVal
  BY ChnkFieldTypes DEF TypeOK
<1>5. \A k \in Keys : g(k) \in L2File /\ l2[k] \in L2File
  BY DEF TypeOK, L2File
<1> HIDE DEF x, f, g
<1> QED BY <1>2, <1>3, <1>4, <1>5 DEF TypeOK, usage, client

(* The chunks a call names, and those its loop gets through, exist.        *)
LEMMA NamedIdxs ==
  ASSUME TypeOK, NEW v \in Uqids, NEW ok, ok \subseteq ChnkIdxs
  PROVE  /\ \A S \in Named(v, ok) : S \subseteq ChnkIdxs
         /\ Run(vctr[v].min_chnk_idx, vctr[v].max_chnk_idx, ok) \subseteq ChnkIdxs
         /\ Run(0, vctr[v].max_chnk_idx, ok) \subseteq ChnkIdxs
<1>1. vctr[v].min_chnk_idx \in Int /\ vctr[v].max_chnk_idx \in Int
  BY DEF TypeOK, VctrVal
<1>2. /\ Run(vctr[v].min_chnk_idx, vctr[v].max_chnk_idx, ok) \subseteq ok
      /\ Run(0, vctr[v].max_chnk_idx, ok) \subseteq ok
  BY <1>1, RunInOk
<1> QED BY <1>2 DEF Named

(* chnk_drop_mem() at level 1 keeps the types.                             *)
LEMMA DropL1Type == ASSUME TypeOK, DropL1 PROVE TypeOK'
<1>1. PICK v \in Uqids : \E S \in Named(v, Present(v)) : drop_l1(v, S)
  BY DEF DropL1
<1>2. PICK S \in Named(v, Present(v)) : drop_l1(v, S)
  BY <1>1
<1> DEFINE D == DropsL1(v, S)
           f(k) == [chnk[k] EXCEPT !.l1_mem = FALSE, !.l1_data = {}]
<1>3. /\ chnk' = [k \in Keys |-> IF k \in KeysOf(v, D) THEN f(k) ELSE chnk[k]]
      /\ mem_used' = decr_mem_used(mem_used, Cardinality(D))
      /\ UNCHANGED <<vctrTable, chnks, l2, lma, dsk_used, client>>
  BY <1>2 DEF drop_l1, ChnkWith
<1>4. \A k \in Keys : f(k) \in ChnkVal /\ chnk[k] \in ChnkVal
  BY ChnkFieldTypes DEF TypeOK
<1>5. Cardinality(D) \in Nat
  <2>1. S \subseteq ChnkIdxs
    BY NamedIdxs DEF Present
  <2> QED BY <2>1, SmallSets DEF DropsL1
<1> HIDE DEF D, f
<1>6. mem_used' \in Nat
  BY <1>3, <1>5, Accounts DEF TypeOK
<1> QED BY <1>3, <1>4, <1>6 DEF TypeOK, vctrTable, client

(* chnk_drop_mem() at level 2 keeps the types.                             *)
LEMMA DropL2Type == ASSUME TypeOK, DropL2 PROVE TypeOK'
<1>1. PICK v \in Uqids : \E S \in Named(v, Present(v)) : drop_l2(v, S)
  BY DEF DropL2
<1>2. PICK S \in Named(v, Present(v)) : drop_l2(v, S)
  BY <1>1
<1> DEFINE D == DropsL2(v, S)
           f(k) == [chnk[k] EXCEPT !.l2_exists = FALSE]
<1>3. /\ chnk' = [k \in Keys |-> IF k \in KeysOf(v, D) THEN f(k) ELSE chnk[k]]
      /\ l2' = [k \in Keys |-> IF k \in KeysOf(v, D) THEN NoFile ELSE l2[k]]
      /\ dsk_used' = decr_dsk_chnks(dsk_used, Cardinality(D))
      /\ UNCHANGED <<vctrTable, chnks, lma, mem_used, client>>
  BY <1>2 DEF drop_l2, ChnkWith
<1>4. \A k \in Keys : f(k) \in ChnkVal /\ chnk[k] \in ChnkVal
  BY ChnkFieldTypes DEF TypeOK
<1>5. Cardinality(D) \in Nat
  <2>1. S \subseteq ChnkIdxs
    BY NamedIdxs DEF Present
  <2> QED BY <2>1, SmallSets DEF DropsL2
<1> HIDE DEF D, f
<1>6. dsk_used' \in Nat
  BY <1>3, <1>5, Accounts DEF TypeOK
<1>7. l2' \in [Keys -> L2File]
  BY <1>3, ZeroTypes DEF TypeOK
<1> QED BY <1>3, <1>4, <1>6, <1>7 DEF TypeOK, vctrTable, client

(* vctr_drop_mem() at level 3 keeps the types.                             *)
LEMMA DropLmaType == ASSUME TypeOK, DropLma PROVE TypeOK'
<1>1. PICK v \in Uqids : drop_lma(v)
  BY DEF DropLma
<1>2. /\ vctr' = [vctr EXCEPT ![v].is_lma = FALSE]
      /\ lma' = [lma EXCEPT ![v] = NoLma]
      /\ dsk_used' = decr_dsk_used(dsk_used, lma[v].size)
      /\ UNCHANGED <<g_vctr_uqid, vctrs, chnkTable, l2, mem_used, client>>
  BY <1>1 DEF drop_lma
<1>3. [vctr[v] EXCEPT !.is_lma = FALSE] \in VctrVal
  BY VctrFieldTypes DEF TypeOK
<1>4. dsk_used' \in Nat
  <2>1. lma[v].size \in Nat
    BY DEF TypeOK, LmaFile
  <2> QED BY <1>2, <2>1, Accounts DEF TypeOK
<1> QED BY <1>2, <1>3, <1>4, ZeroTypes DEF TypeOK, chnkTable, client

(* chnk_make_mem() at level 1 keeps the types.                             *)
LEMMA MakeL1Type == ASSUME TypeOK, MakeL1 PROVE TypeOK'
<1>1. PICK v \in Uqids : \E S \in Named(v, CanMakeL1(v)) : make_l1(v, S)
  BY DEF MakeL1
<1>2. PICK S \in Named(v, CanMakeL1(v)) : make_l1(v, S)
  BY <1>1
<1> DEFINE D == {i \in S : ~chnk[<<v, i>>].l1_mem}
<1>3. /\ chnk' = [k \in Keys |-> IF k \in KeysOf(v, D) THEN LoadL1(chnk[k], k) ELSE chnk[k]]
      /\ mem_used' = incr_mem_used(mem_used, Cardinality(D))
      /\ UNCHANGED <<vctrTable, chnks, l2, lma, dsk_used, client>>
  BY <1>2 DEF make_l1, ChnkWith
<1>4. \A k \in Keys : LoadL1(chnk[k], k) \in ChnkVal /\ chnk[k] \in ChnkVal
  BY LoadTypes DEF TypeOK
<1>5. Cardinality(D) \in Nat
  <2>1. CanMakeL1(v) \subseteq ChnkIdxs
    BY DEF CanMakeL1, Present
  <2>2. S \subseteq ChnkIdxs
    BY <2>1, NamedIdxs
  <2> QED BY <2>2, SmallSets
<1> HIDE DEF D
<1>6. mem_used' \in Nat
  BY <1>3, <1>5, Accounts DEF TypeOK
<1> QED BY <1>3, <1>4, <1>6 DEF TypeOK, vctrTable, client

(* The tables and files after the chunks S of v were written to files.     *)
LEMMA WriteL2Types ==
  ASSUME TypeOK, NEW v \in Uqids, NEW S, S \subseteq ChnkIdxs
  PROVE  /\ L2With(v, S) \in [Keys -> L2File]
         /\ WriteL2(v, S) => chnk' \in [Keys -> ChnkVal] /\ dsk_used' \in Nat
<1> DEFINE g(k) == [file |-> "full", data |-> chnk[k].l1_data]
           f(k) == [chnk[k] EXCEPT !.l2_exists = TRUE]
<1>1. \A k \in Keys : g(k) \in L2File /\ l2[k] \in L2File
  BY DEF TypeOK, ChnkVal, L2File
<1>2. \A k \in Keys : f(k) \in ChnkVal /\ chnk[k] \in ChnkVal
  BY ChnkFieldTypes DEF TypeOK
<1>3. L2With(v, S) \in [Keys -> L2File]
  <2>1. L2With(v, S) = [k \in Keys |-> IF k \in KeysOf(v, S) THEN g(k) ELSE l2[k]]
    BY DEF L2With
  <2> HIDE DEF g
  <2> QED BY <1>1, <2>1
<1>4. ASSUME WriteL2(v, S) PROVE chnk' \in [Keys -> ChnkVal] /\ dsk_used' \in Nat
  <2>1. /\ chnk' = [k \in Keys |-> IF k \in KeysOf(v, S) THEN f(k) ELSE chnk[k]]
        /\ dsk_used' = incr_dsk_chnks(dsk_used, Cardinality(S))
    BY <1>4 DEF WriteL2, ChnkWith
  <2>2. dsk_used' \in Nat
    BY <2>1, SmallSets, Accounts DEF TypeOK
  <2> HIDE DEF f
  <2> QED BY <1>2, <2>1, <2>2
<1> QED BY <1>3, <1>4

(* chnk_make_mem() at level 2 keeps the types, when it fails too.          *)
LEMMA MakeL2Type == ASSUME TypeOK, MakeL2 PROVE TypeOK'
<1>1. ASSUME NEW v \in Uqids, NEW S, NEW Null, S \subseteq ChnkIdxs, make_l2(v, S, Null)
      PROVE  TypeOK'
  <2> DEFINE D == {i \in S : ~chnk[<<v, i>>].l2_exists}
  <2>1. /\ WriteL2(v, D)
        /\ l2' = [k \in Keys |-> IF k \in KeysOf(v, Null)
                                 THEN [file |-> "empty", data |-> {}] ELSE L2With(v, D)[k]]
        /\ UNCHANGED <<vctrTable, chnks, lma, mem_used, client>>
    BY <1>1 DEF make_l2
  <2>2. D \subseteq ChnkIdxs
    BY <1>1
  <2> HIDE DEF D
  <2>3. chnk' \in [Keys -> ChnkVal] /\ dsk_used' \in Nat
    BY <2>1, <2>2, WriteL2Types
  <2>4. l2' \in [Keys -> L2File]
    <3>1. [file |-> "empty", data |-> {}] \in L2File
      BY DEF L2File
    <3>2. L2With(v, D) \in [Keys -> L2File]
      BY <2>2, WriteL2Types
    <3> QED BY <2>1, <3>1, <3>2
  <2> QED BY <2>1, <2>3, <2>4 DEF TypeOK, vctrTable, client
<1>2. PICK v \in Uqids :
             \/ vctr_make_l2(v)
             \/ \E i \in CanMakeL2(v) : make_l2(v, {i}, {})
             \/ \E i \in NoL1L2(v) : make_l2(v, {}, {i})
  BY DEF MakeL2
<1>3. CanMakeL2(v) \subseteq ChnkIdxs
  BY DEF CanMakeL2, Present
<1>4. CASE vctr_make_l2(v)
  BY <1>1, <1>3, <1>4, NamedIdxs DEF vctr_make_l2
<1>5. CASE \E i \in CanMakeL2(v) : make_l2(v, {i}, {})
  BY <1>1, <1>3, <1>5
<1>6. CASE \E i \in NoL1L2(v) : make_l2(v, {}, {i})
  BY <1>1, <1>6
<1> QED BY <1>2, <1>4, <1>5, <1>6

(* vctr_l1_to_l2() keeps the types.                                        *)
LEMMA L1ToL2Type == ASSUME TypeOK, L1ToL2 PROVE TypeOK'
<1>1. PICK v \in Uqids : vctr_l1_to_l2(v)
  BY DEF L1ToL2
<1> DEFINE S == Run(vctr[v].min_chnk_idx, vctr[v].max_chnk_idx, CanL1ToL2(v))
           D == {i \in S : l2[<<v, i>>].file = "none"}
<1>2. /\ WriteL2(v, D) /\ l2' = L2With(v, D)
      /\ UNCHANGED <<vctrTable, chnks, lma, mem_used, client>>
  BY <1>1 DEF vctr_l1_to_l2
<1>3. D \subseteq ChnkIdxs
  <2>1. CanL1ToL2(v) \subseteq ChnkIdxs
    BY DEF CanL1ToL2, Present
  <2> QED BY <2>1, NamedIdxs
<1> HIDE DEF D
<1> QED BY <1>2, <1>3, WriteL2Types DEF TypeOK, vctrTable, client

(* chnk_unget_data() keeps the types.                                      *)
LEMMA UnprefetchType == ASSUME TypeOK, Unprefetch PROVE TypeOK'
<1>1. PICK v \in Uqids, i \in ChnkIdxs : unprefetch(v, i)
  BY DEF Unprefetch
<1> DEFINE k == <<v, i>>
           D == IF chnk[k].l2_exists THEN {} ELSE {i}
           c == [chnk[k] EXCEPT !.l1_mem = FALSE, !.l1_data = {}, !.l2_exists = TRUE]
<1>2. /\ chnk' = [chnk EXCEPT ![k] = c]
      /\ l2' = L2With(v, D)
      /\ mem_used' = decr_mem_used(mem_used, 1)
      /\ dsk_used' = incr_dsk_chnks(dsk_used, Cardinality(D))
      /\ UNCHANGED <<vctrTable, chnks, lma, client>>
  BY <1>1 DEF unprefetch
<1>3. D \subseteq ChnkIdxs /\ k \in Keys
  BY DEF Keys
<1> HIDE DEF D, k
<1>4. c \in ChnkVal
  BY <1>3, ChnkFieldTypes DEF TypeOK
<1>5. mem_used' \in Nat /\ dsk_used' \in Nat
  BY <1>2, <1>3, SmallSets, Accounts DEF TypeOK
<1>6. l2' \in [Keys -> L2File]
  BY <1>2, <1>3, WriteL2Types
<1> HIDE DEF c
<1> QED BY <1>2, <1>4, <1>5, <1>6 DEF TypeOK, vctrTable, client

(* vctr_chnks_to_lma() keeps the types.                                    *)
LEMMA ChnksToLmaType == ASSUME TypeOK, ChnksToLma PROVE TypeOK'
<1>1. PICK v \in Uqids : vctr_chnks_to_lma(v)
  BY DEF ChnksToLma
<1> DEFINE x == vctr[v]
           S == Run(0, x.max_chnk_idx, FillsLma(v))
           P == {p \in ChnkIdxs \X Slots : p[1] \in S /\ p[2] \in Given(v, p[1])}
           f == [size |-> x.num_elements, data |-> P]
           b == S = 0..x.max_chnk_idx
<1>2. /\ dsk_used' = incr_dsk_used(dsk_used, x.num_elements)
      /\ lma' = [lma EXCEPT ![v] = f]
      /\ vctr' = [vctr EXCEPT ![v].is_lma = b]
      /\ UNCHANGED <<g_vctr_uqid, vctrs, chnkTable, l2, mem_used, client>>
  BY <1>1, Zenon DEF vctr_chnks_to_lma
<1>3. b \in BOOLEAN /\ P \in SUBSET (ChnkIdxs \X Slots)
  OBVIOUS
<1> HIDE DEF b, P
<1>4. x \in VctrVal /\ x.num_elements \in Nat
  BY DEF TypeOK, VctrVal
<1>5. [x EXCEPT !.is_lma = b] \in VctrVal
  BY <1>3, <1>4, VctrFieldTypes
<1>6. f \in LmaFile
  BY <1>3, <1>4 DEF LmaFile
<1>7. dsk_used' \in Nat
  BY <1>2, <1>4, Accounts DEF TypeOK
<1> HIDE DEF f
<1> QED BY <1>2, <1>5, <1>6, <1>7 DEF TypeOK, chnkTable, client

(* vctr_lma_to_chnks() keeps the types.                                    *)
LEMMA LmaToChnksType == ASSUME TypeOK, LmaToChnks PROVE TypeOK'
<1>1. PICK v \in Uqids, level \in 1..2 : vctr_lma_to_chnks(v, level)
  BY DEF LmaToChnks
<1> DEFINE x == vctr[v]
           S == Run(0, NumChnks(x.num_elements) - 1, Present(v))
           L1 == {i \in S : ~chnk[<<v, i>>].l1_mem
                             /\ (chnk[<<v, i>>].l2_exists \/ level = 1)}
           L2 == {i \in S : ~chnk[<<v, i>>].l1_mem
                             /\ ~chnk[<<v, i>>].l2_exists /\ level = 2}
           f(k) == [chnk[k] EXCEPT !.l1_mem = TRUE, !.l1_data = FromLma(v, k[2])]
           g(k) == [chnk[k] EXCEPT !.l2_exists = TRUE]
           h(k) == [file |-> "full", data |-> FromLma(v, k[2])]
<1>2. /\ chnk' = [k \in Keys |->
                    IF k \in KeysOf(v, L1)
                    THEN IF chnk[k].l2_exists THEN LoadL1(chnk[k], k) ELSE f(k)
                    ELSE IF k \in KeysOf(v, L2) THEN g(k) ELSE chnk[k]]
      /\ l2' = [k \in Keys |-> IF k \in KeysOf(v, L2) THEN h(k) ELSE l2[k]]
      /\ mem_used' = incr_mem_used(mem_used, Cardinality(L1))
      /\ dsk_used' = incr_dsk_chnks(dsk_used, Cardinality(L2))
      /\ UNCHANGED <<vctrTable, chnks, lma, client>>
  BY <1>1, Zenon DEF vctr_lma_to_chnks
<1>3. S \subseteq ChnkIdxs
  <2>1. NumChnks(x.num_elements) - 1 \in Int
    <3>1. x.num_elements \in Nat
      BY DEF TypeOK, VctrVal
    <3> QED BY <3>1, BoundsAssumption DEF NumChnks, BoundsAssumption
  <2> QED BY <2>1, RunInOk DEF Present
<1> HIDE DEF S
<1>4. Cardinality(L1) \in Nat /\ Cardinality(L2) \in Nat
  <2>1. L1 \subseteq ChnkIdxs /\ L2 \subseteq ChnkIdxs
    BY <1>3
  <2> QED BY <2>1, SmallSets
<1> HIDE DEF L1, L2
<1>5. \A k \in Keys : FromLma(v, k[2]) \in SUBSET Slots
  <2>1. lma[v].data \subseteq ChnkIdxs \X Slots
    BY DEF TypeOK, LmaFile
  <2> QED BY <2>1 DEF FromLma
<1>6. \A k \in Keys : f(k) \in ChnkVal /\ g(k) \in ChnkVal /\ LoadL1(chnk[k], k) \in ChnkVal
                      /\ chnk[k] \in ChnkVal
  BY <1>5, ChnkFieldTypes, LoadTypes DEF TypeOK
<1>7. \A k \in Keys : h(k) \in L2File /\ l2[k] \in L2File
  BY <1>5 DEF TypeOK, L2File
<1>8. mem_used' \in Nat /\ dsk_used' \in Nat
  BY <1>2, <1>4, Accounts DEF TypeOK
<1> HIDE DEF f, g, h
<1>9. chnk' \in [Keys -> ChnkVal]
  BY <1>2, <1>6
<1>10. l2' \in [Keys -> L2File]
  BY <1>2, <1>7
<1> QED BY <1>2, <1>8, <1>9, <1>10 DEF TypeOK, vctrTable, client

(* vctr_set_lma() keeps the types.                                         *)
LEMMA SetLmaType == ASSUME TypeOK, SetLma PROVE TypeOK'
<1>1. PICK v \in Uqids, n \in 1..MaxElems : vctr_set_lma(v, n)
  BY DEF SetLma
<1> DEFINE x == vctr[v]
           top == NumChnks(n) - 1
           low == IF x.memo_len > 0 /\ top + 1 > x.memo_len THEN top + 1 - x.memo_len ELSE 0
           num(i) == IF i < top THEN MaxNumInChnk ELSE n - top * MaxNumInChnk
           lives == IF x.is_early_freeable THEN x.num_free_ignore ELSE 0
           Made(i) == [ZeroChnk EXCEPT !.num_elements = num(i), !.num_free_ignore = lives]
           P == {p \in ChnkIdxs \X Slots : p[1] * MaxNumInChnk + p[2] < n}
           f == [size |-> n, data |-> P]
           y == [x EXCEPT !.num_elements = n, !.min_chnk_idx = low,
                   !.max_chnk_idx = top, !.is_eov = TRUE, !.is_lma = TRUE]
<1>2. /\ dsk_used' = incr_dsk_used(dsk_used, n)
      /\ lma' = [lma EXCEPT ![v] = f]
      /\ chnks' = chnks \cup KeysOf(v, low..top)
      /\ chnk' = [k \in Keys |-> IF k \in KeysOf(v, low..top) THEN Made(k[2]) ELSE chnk[k]]
      /\ vctr' = [vctr EXCEPT ![v] = y]
      /\ UNCHANGED <<g_vctr_uqid, vctrs, l2, mem_used, client>>
  BY <1>1, Zenon DEF vctr_set_lma
<1>3. x \in VctrVal /\ x.memo_len \in Nat /\ lives \in Nat
  BY DEF TypeOK, VctrVal
<1>4. n \in Nat /\ n >= 1 /\ n <= MaxChnks * MaxNumInChnk
  BY BoundsAssumption DEF BoundsAssumption, MaxElems
<1>5. top \in Nat /\ top <= MaxChnks - 1 /\ n - top * MaxNumInChnk \in Nat
  <2>1. n + MaxNumInChnk - 1 \in Nat /\ n + MaxNumInChnk - 1 >= MaxNumInChnk
    BY <1>4, BoundsAssumption DEF BoundsAssumption
  <2>2. NumChnks(n) \in Nat /\ NumChnks(n) >= 1
    BY <2>1, Quotients DEF NumChnks
  <2>3. MaxNumInChnk * NumChnks(n) <= n + MaxNumInChnk - 1
    BY <2>1, Quotients DEF NumChnks
  <2> HIDE DEF NumChnks
  <2>4. top * MaxNumInChnk <= n - 1
    BY <1>4, <2>2, <2>3, BoundsAssumption DEF BoundsAssumption
  <2>5. top <= MaxChnks - 1
    <3>1. top * MaxNumInChnk < MaxChnks * MaxNumInChnk
      BY <1>4, <2>2, <2>4, BoundsAssumption DEF BoundsAssumption
    <3>2. top < MaxChnks
      BY <2>2, <3>1, BoundsAssumption DEF BoundsAssumption
    <3> QED BY <2>2, <3>2, BoundsAssumption DEF BoundsAssumption
  <2> QED BY <1>4, <2>2, <2>4, <2>5, BoundsAssumption DEF BoundsAssumption
<1> HIDE DEF top
<1>6. low \in Nat
  BY <1>3, <1>5
<1> HIDE DEF low, lives
<1>7. \A i \in Nat : Made(i) \in ChnkVal
  <2> SUFFICES ASSUME NEW i \in Nat PROVE Made(i) \in ChnkVal
    OBVIOUS
  <2>1. num(i) \in Nat
    BY <1>5, BoundsAssumption DEF BoundsAssumption
  <2> HIDE DEF num
  <2> QED BY <1>3, <2>1 DEF ZeroChnk, ChnkVal
<1> HIDE DEF Made
<1>8. y \in VctrVal
  BY <1>3, <1>4, <1>5, <1>6 DEF VctrVal
<1>9. f \in LmaFile
  BY <1>4 DEF LmaFile
<1> HIDE DEF y, f, x
<1>10. vctr' \in [Uqids -> VctrVal] /\ lma' \in [Uqids -> LmaFile]
  BY <1>2, <1>8, <1>9 DEF TypeOK
<1>11. low..top \subseteq ChnkIdxs
  BY <1>5, <1>6, BoundsAssumption DEF BoundsAssumption, ChnkIdxs
<1>12. chnks' \subseteq Keys
  BY <1>2, <1>11 DEF TypeOK, Keys, KeysOf
<1>13. chnk' \in [Keys -> ChnkVal]
  <2>1. \A k \in Keys : k[2] \in Nat
    BY BoundsAssumption DEF BoundsAssumption, Keys, ChnkIdxs
  <2> QED BY <1>2, <1>7, <2>1 DEF TypeOK
<1>14. dsk_used' \in Nat
  BY <1>2, <1>4, Accounts DEF TypeOK
<1> QED BY <1>2, <1>10, <1>12, <1>13, <1>14 DEF TypeOK, client

(* vctr_set_lma() keeps them when it fails, too.                           *)
LEMMA SetLmaFailsType == ASSUME TypeOK, SetLmaFails PROVE TypeOK'
<1>1. PICK v \in Uqids, n \in 1..MaxElems : set_lma_fails(v, n)
  BY DEF SetLmaFails
<1> DEFINE f == [size |-> n, data |-> {}]
<1>2. f \in LmaFile
  BY DEF LmaFile
<1>3. /\ dsk_used' = incr_dsk_used(dsk_used, n)
      /\ lma' \in {lma, [lma EXCEPT ![v] = f]}
      /\ UNCHANGED <<vctrTable, chnkTable, l2, mem_used, client>>
  BY <1>1 DEF set_lma_fails
<1>4. dsk_used' \in Nat
  BY <1>3 DEF incr_dsk_used, TypeOK
<1> HIDE DEF f
<1>5. lma' \in [Uqids -> LmaFile]
  BY <1>2, <1>3 DEF TypeOK
<1> QED BY <1>3, <1>4, <1>5 DEF TypeOK, vctrTable, chnkTable, client

(* vctr_append() keeps the types.                                          *)
LEMMA AppendType == ASSUME TypeOK, Append PROVE TypeOK'
<1>1. PICK d \in Uqids, s \in Uqids : vctr_append(d, s)
  BY DEF Append
<1> DEFINE n == vctr[d].num_elements
           m == vctr[s].num_elements
           P == {p \in ChnkIdxs \X Slots :
                   p[1] * MaxNumInChnk + p[2] \in lma[d].size .. (lma[d].size + m - 1)}
           f == [size |-> lma[d].size + lma[s].size, data |-> lma[d].data \cup P]
<1>2. /\ vctr' = [vctr EXCEPT ![d].num_elements = n + m]
      /\ lma' = [lma EXCEPT ![d] = f]
      /\ dsk_used' = incr_dsk_used(dsk_used, lma[s].size)
      /\ UNCHANGED <<g_vctr_uqid, vctrs, chnkTable, l2, mem_used, client>>
  BY <1>1 DEF vctr_append
<1>3. vctr[d] \in VctrVal /\ n + m \in Nat
  BY DEF TypeOK, VctrVal
<1>4. [vctr[d] EXCEPT !.num_elements = n + m] \in VctrVal
  BY <1>3, VctrFieldTypes
<1>5. P \subseteq ChnkIdxs \X Slots
  OBVIOUS
<1> HIDE DEF P, n, m
<1>6. f \in LmaFile /\ lma[s].size \in Nat
  BY <1>5 DEF TypeOK, LmaFile
<1> HIDE DEF f
<1>7. dsk_used' \in Nat
  BY <1>2, <1>6, Accounts DEF TypeOK
<1> QED BY <1>2, <1>4, <1>6, <1>7 DEF TypeOK, chnkTable, client

(* A step that changes one row of the vector table to another row and      *)
(* nothing else keeps the types.                                           *)
LEMMA RowType ==
  ASSUME TypeOK, NEW v \in Uqids, NEW y \in VctrVal, vctr' = [vctr EXCEPT ![v] = y],
         UNCHANGED <<g_vctr_uqid, vctrs, rest>>
  PROVE  TypeOK'
  BY DEF TypeOK, rest, chnkTable, usage, client

(* Setting an attribute of a vector keeps the types.                       *)
LEMMA AttributeTypes ==
  ASSUME TypeOK, VctrPersist \/ VctrSetMemo \/ SetKillable \/ SetFreeable \/ SetError
  PROVE  TypeOK'
<1>1. CASE VctrPersist
  <2>1. PICK v \in Uqids : vctr_persist(v)
    BY <1>1 DEF VctrPersist
  <2>2. [vctr[v] EXCEPT !.is_persist = TRUE] \in VctrVal
    BY VctrFieldTypes DEF TypeOK
  <2> QED BY <2>1, <2>2, RowType DEF vctr_persist
<1>2. CASE VctrSetMemo
  <2>1. PICK v \in Uqids, memo \in MemoLens : vctr_set_memo(v, memo)
    BY <1>2 DEF VctrSetMemo
  <2>2. memo \in Nat
    BY InputTypes
  <2>3. [vctr[v] EXCEPT !.memo_len = memo] \in VctrVal
    BY <2>2, VctrFieldTypes DEF TypeOK
  <2> QED BY <2>1, <2>3, RowType DEF vctr_set_memo
<1>3. CASE SetKillable
  <2>1. PICK v \in Uqids, n \in KillIgnores : vctr_set_num_kill_ignore(v, n)
    BY <1>3 DEF SetKillable
  <2>2. n \in Nat
    BY InputsAssumption DEF InputsAssumption
  <2>3. [vctr[v] EXCEPT !.is_killable = TRUE, !.num_kill_ignore = n] \in VctrVal
    BY <2>2, VctrFieldTypes DEF TypeOK
  <2> QED BY <2>1, <2>3, RowType DEF vctr_set_num_kill_ignore
<1>4. CASE SetFreeable
  <2>1. PICK v \in Uqids, n \in FreeIgnores : vctr_set_early_freeable(v, n)
    BY <1>4 DEF SetFreeable
  <2>2. n \in Nat
    BY InputsAssumption DEF InputsAssumption
  <2>3. [vctr[v] EXCEPT !.is_early_freeable = TRUE, !.num_free_ignore = n] \in VctrVal
    BY <2>2, VctrFieldTypes DEF TypeOK
  <2> QED BY <2>1, <2>3, RowType DEF vctr_set_early_freeable
<1>5. CASE SetError
  <2>1. PICK v \in Uqids : vctr_set_error(v)
    BY <1>5 DEF SetError
  <2>2. [vctr[v] EXCEPT !.is_error = TRUE] \in VctrVal
    BY VctrFieldTypes DEF TypeOK
  <2> QED BY <2>1, <2>2, RowType DEF vctr_set_error
<1> QED BY <1>1, <1>2, <1>3, <1>4, <1>5

(* Tying and untying a vector and its nn vector keep the rows' types.      *)
LEMMA TieTypes ==
  ASSUME NEW x \in [Uqids -> VctrVal], NEW b \in Uqids, NEW n \in Uqids
  PROVE  Tied(x, b, n) \in [Uqids -> VctrVal]
<1>1. [x EXCEPT ![b].nn_key = n] \in [Uqids -> VctrVal]
  BY VctrFieldTypes
<1> DEFINE y == [x EXCEPT ![b].nn_key = n]
<1> HIDE DEF y
<1>2. [y EXCEPT ![n].parent_key = b] \in [Uqids -> VctrVal]
  BY <1>1, VctrFieldTypes DEF y
<1> QED BY <1>2 DEF Tied, y

(* Undoing the tie to the nn vector keeps the types of the rows.           *)
LEMMA UntieTypes ==
  ASSUME NEW x \in [Uqids -> VctrVal], NEW b \in Uqids, x[b].nn_key # 0
  PROVE  Untied(x, b) \in [Uqids -> VctrVal]
<1>1. x[b].nn_key \in Uqids
  BY DEF VctrVal
<1> DEFINE n == x[b].nn_key
           y == [x EXCEPT ![n].parent_key = 0]
<1> HIDE DEF n, y
<1>2. y \in [Uqids -> VctrVal]
  BY <1>1, VctrFieldTypes DEF y, n
<1>3. [y EXCEPT ![b].nn_key = 0] \in [Uqids -> VctrVal]
  BY <1>2, VctrFieldTypes
<1> QED BY <1>3 DEF Untied, y, n

(* lVector:set_nn_vec() keeps the types.                                   *)
LEMMA SetNnVecType == ASSUME TypeOK, SetNnVec PROVE TypeOK'
<1>1. PICK b \in Uqids, n \in Uqids : set_nn_vec(b, n)
  BY DEF SetNnVec
<1>2. vctr' = Tied(vctr, b, n) /\ UNCHANGED <<g_vctr_uqid, vctrs, rest>>
  BY <1>1 DEF set_nn_vec
<1>3. vctr' \in [Uqids -> VctrVal]
  BY <1>2, TieTypes DEF TypeOK
<1> QED BY <1>2, <1>3 DEF TypeOK, rest, chnkTable, usage, client

(* lVector.new() with nulls keeps the types.                               *)
LEMMA AddWithNnType == ASSUME TypeOK, AddWithNn PROVE TypeOK'
<1>1. PICK q \in Qtypes, memo \in MemoLens, kills \in {Never} \cup KillIgnores,
           frees \in {Never} \cup FreeIgnores : NewWithNn(q, memo, kills, frees)
  BY DEF AddWithNn
<1> DEFINE b == g_vctr_uqid + 1
           n == g_vctr_uqid + 2
           New(t) == NewVctr(t, memo, kills, frees)
           x == [vctr EXCEPT ![b] = New(q), ![n] = New("BL")]
<1>2. /\ {b, n} \subseteq Uqids /\ g_vctr_uqid' = n /\ vctrs' = vctrs \cup {b, n}
      /\ vctr' = Tied(x, b, n) /\ UNCHANGED rest
  BY <1>1, Zenon DEF NewWithNn
<1>3. New(q) \in VctrVal /\ New("BL") \in VctrVal
  <2>1. /\ q \in {"BL", "SC", "I4"} /\ "BL" \in {"BL", "SC", "I4"} /\ memo \in Nat
        /\ kills \in Nat \cup {Never} /\ frees \in Nat \cup {Never}
    BY InputTypes
  <2> QED BY <2>1, NewVctrType
<1> HIDE DEF New
<1>4. x \in [Uqids -> VctrVal]
  BY <1>2, <1>3 DEF TypeOK
<1>5. n \in Nat
  BY DEF TypeOK
<1> HIDE DEF x, n, b
<1>6. vctr' \in [Uqids -> VctrVal]
  BY <1>2, <1>4, TieTypes
<1> QED BY <1>2, <1>5, <1>6 DEF TypeOK, rest, chnkTable, usage, client

(* vctr_del(), given a well typed table, leaves one.                       *)
LEMMA VctrDelType ==
  ASSUME TypeOK, NEW x \in [Uqids -> VctrVal], NEW v \in Uqids, vctr_del(x, v)
  PROVE  TypeOK'
<1> DEFINE val == x[v]
           y == IF val.nn_key # 0 THEN Untied(x, v) ELSE x
           Unlinks == val.is_lma /\ ~val.is_persist
           D == IF val.num_elements = 0 THEN {} ELSE DelRun(v, val)
           d == IF Unlinks THEN decr_dsk_used(dsk_used, lma[v].size) ELSE dsk_used
           b == y[v].is_lma /\ ~Unlinks
           p == val.is_persist
<1>1. y \in [Uqids -> VctrVal]
  BY UntieTypes
<1>2. D \subseteq ChnkIdxs
  <2>1. val.min_chnk_idx \in Int /\ val.max_chnk_idx \in Int
    BY DEF VctrVal
  <2> QED BY <2>1, RunInOk DEF DelRun, Freeable
<1>3. d \in Nat
  <2>1. lma[v].size \in Nat /\ dsk_used \in Nat
    BY DEF TypeOK, LmaFile
  <2>2. decr_dsk_used(dsk_used, lma[v].size) \in Nat
    BY <2>1, Accounts
  <2> QED BY <2>1, <2>2
<1>4. b \in BOOLEAN
  OBVIOUS
<1>5. \/ vctr' = y /\ UNCHANGED <<g_vctr_uqid, vctrs, rest>>
      \/ /\ \/ /\ vctrs' = vctrs \ {v} /\ vctr' = [y EXCEPT ![v] = ZeroVctr]
               /\ UNCHANGED half_deleted
            \/ /\ vctrs' = vctrs /\ vctr' = [y EXCEPT ![v].is_lma = @ /\ ~Unlinks]
               /\ half_deleted' = half_deleted \cup {v}
         /\ lma' = IF Unlinks THEN [lma EXCEPT ![v] = NoLma] ELSE lma
         /\ chnks' = chnks \ KeysOf(v, D)
         /\ chnk' = ChnkAfterDel(chnk, v, D)
         /\ mem_used' = MemAfterDel(mem_used, chnk, v, D)
         /\ l2' = L2AfterDel(chnk, v, D, p)
         /\ dsk_used' = DskAfterDel(d, chnk, v, D, p)
         /\ UNCHANGED <<g_vctr_uqid, held, lma_held>>
  BY Zenon DEF vctr_del
<1>6. [y EXCEPT ![v].is_lma = @ /\ ~Unlinks] \in [Uqids -> VctrVal]
  <2>1. [y EXCEPT ![v].is_lma = @ /\ ~Unlinks] = [y EXCEPT ![v].is_lma = b]
    OBVIOUS
  <2> HIDE DEF b, y
  <2>2. [y[v] EXCEPT !.is_lma = b] \in VctrVal
    BY <1>1, <1>4, VctrFieldTypes
  <2> QED BY <1>1, <2>1, <2>2
<1> HIDE DEF y, D, d, p, Unlinks
<1>7. CASE vctr' = y /\ UNCHANGED <<g_vctr_uqid, vctrs, rest>>
  BY <1>1, <1>7 DEF TypeOK, rest, chnkTable, usage, client
<1>8. CASE ~(vctr' = y /\ UNCHANGED <<g_vctr_uqid, vctrs, rest>>)
  <2>1. /\ ChnkAfterDel(chnk, v, D) \in [Keys -> ChnkVal]
        /\ MemAfterDel(mem_used, chnk, v, D) \in Nat
        /\ L2AfterDel(chnk, v, D, p) \in [Keys -> L2File]
        /\ DskAfterDel(d, chnk, v, D, p) \in Nat
    BY <1>2, <1>3, DelTypes DEF TypeOK
  <2>2. [y EXCEPT ![v] = ZeroVctr] \in [Uqids -> VctrVal]
    BY <1>1, ZeroTypes
  <2>3. vctr' \in [Uqids -> VctrVal]
    BY <1>5, <1>6, <1>8, <2>2
  <2>4. /\ vctrs' \subseteq Uqids /\ half_deleted' \subseteq Uqids
        /\ chnks' \subseteq Keys /\ g_vctr_uqid' \in Nat
        /\ held' \in [Keys -> Nat] /\ lma_held' \in [Uqids -> Nat]
    BY <1>5, <1>8 DEF TypeOK
  <2>5. lma' \in [Uqids -> LmaFile]
    BY <1>5, <1>8, ZeroTypes DEF TypeOK
  <2>6. /\ chnk' = ChnkAfterDel(chnk, v, D)
        /\ mem_used' = MemAfterDel(mem_used, chnk, v, D)
        /\ l2' = L2AfterDel(chnk, v, D, p)
        /\ dsk_used' = DskAfterDel(d, chnk, v, D, p)
    BY <1>5, <1>8
  <2> QED BY <2>1, <2>3, <2>4, <2>5, <2>6 DEF TypeOK
<1> QED BY <1>7, <1>8

(* delete, kill and brk_nn_vec keep the types.                             *)
LEMMA DeletionTypes ==
  ASSUME TypeOK, Delete \/ Kill \/ BrkNnVec
  PROVE  TypeOK'
<1>0. vctr \in [Uqids -> VctrVal]
  BY DEF TypeOK
<1>1. CASE Delete
  BY <1>0, <1>1, VctrDelType DEF Delete, delete
<1>2. CASE Kill
  <2>1. PICK v \in Uqids : vctr_kill(v)
    BY <1>2 DEF Kill
  <2>2. CASE vctr[v].num_kill_ignore > 0
    <3>1. vctr[v].num_kill_ignore - 1 \in Nat
      BY <1>0, <2>2 DEF VctrVal
    <3>2. [vctr[v] EXCEPT !.num_kill_ignore = @ - 1] \in VctrVal
      BY <1>0, <3>1, VctrFieldTypes
    <3> QED BY <2>1, <2>2, <3>2, RowType DEF vctr_kill
  <2>3. CASE ~(vctr[v].num_kill_ignore > 0)
    BY <1>0, <2>1, <2>3, VctrDelType DEF vctr_kill
  <2> QED BY <2>2, <2>3
<1>3. CASE BrkNnVec
  <2>1. PICK b \in Uqids, del_nn \in BOOLEAN : vctr_brk_nn_vec(b, del_nn)
    BY <1>3 DEF BrkNnVec
  <2>2. vctr[b].nn_key # 0 /\ vctr[b].nn_key \in Uqids
    BY <2>1 DEF vctr_brk_nn_vec, TypeOK
  <2>3. Untied(vctr, b) \in [Uqids -> VctrVal]
    BY <1>0, <2>2, UntieTypes
  <2>4. \/ vctr_del(Untied(vctr, b), vctr[b].nn_key)
        \/ vctr' = Untied(vctr, b) /\ UNCHANGED <<g_vctr_uqid, vctrs, rest>>
    BY <2>1 DEF vctr_brk_nn_vec
  <2>5. CASE vctr_del(Untied(vctr, b), vctr[b].nn_key)
    BY <2>2, <2>3, <2>5, VctrDelType
  <2>6. CASE vctr' = Untied(vctr, b) /\ UNCHANGED <<g_vctr_uqid, vctrs, rest>>
    BY <2>3, <2>6 DEF TypeOK, rest, chnkTable, usage, client
  <2> QED BY <2>4, <2>5, <2>6
<1> QED BY <1>1, <1>2, <1>3

-----------------------------------------------------------------------------
(* init_session() starts with well typed, empty tables.                    *)
LEMMA InitType == Init => TypeOK
<1> SUFFICES ASSUME VctrInit PROVE TypeOK
  BY DEF Init
<1>1. g_vctr_uqid \in Nat /\ mem_used \in Nat /\ dsk_used \in Nat
  BY DEF VctrInit
<1>2. vctrs \subseteq Uqids /\ chnks \subseteq Keys /\ half_deleted \subseteq Uqids
  BY DEF VctrInit
<1>3. /\ vctr \in [Uqids -> VctrVal] /\ chnk \in [Keys -> ChnkVal]
      /\ l2 \in [Keys -> L2File] /\ lma \in [Uqids -> LmaFile]
  BY ZeroTypes DEF VctrInit
<1>4. held \in [Keys -> Nat] /\ lma_held \in [Uqids -> Nat]
  BY DEF VctrInit
<1> QED BY <1>1, <1>2, <1>3, <1>4 DEF TypeOK

(* No operation breaks the types: the inductive step of VctrTypeOK.        *)
LEMMA NextType == TypeOK /\ [Next]_vars => TypeOK'
<1> SUFFICES ASSUME TypeOK, [Next]_vars PROVE TypeOK'
  OBVIOUS
<1>1. CASE GrowNext
  BY <1>1, AddType, PutnType, PutChunkType, EovType, EarlyFreeType DEF GrowNext
<1>2. CASE AccessNext
  BY <1>2, GetChunkType, IncrReadersType, GetChunkLmaType, UngetChunkType, Get1Type,
     LmaReadType, GetLmaWriteType, UngetLmaWriteType DEF AccessNext
<1>3. CASE TierNext
  BY <1>3, DropL1Type, DropL2Type, DropLmaType, MakeL1Type, MakeL2Type, L1ToL2Type,
     UnprefetchType, ChnksToLmaType, LmaToChnksType, SetLmaType, SetLmaFailsType, AppendType
  DEF TierNext
<1>4. CASE LifeNext
  BY <1>4, AttributeTypes, SetNnVecType, AddWithNnType, DeletionTypes DEF LifeNext
<1>5. CASE UNCHANGED vars
  BY <1>5 DEF TypeOK, vars, vctrTable, chnkTable, usage, client
<1> QED BY <1>1, <1>2, <1>3, <1>4, <1>5 DEF Next

(* The rows of g_vctr_hmap and g_chnk_hmap and the files stay well formed  *)
(* and no unsigned counter goes below zero, whatever a client calls, for   *)
(* any number of vectors, any chunk size and any quotas.                   *)
THEOREM VctrTypeOK == Spec => []TypeOK
  BY InitType, NextType, PTL DEF Spec

-----------------------------------------------------------------------------
(* LmaAccess is inductive once the types are known.  Most operations leave *)
(* the counts of readers and writers, and the mapping, of every vector     *)
(* that remains as they are; the others are the ones of vctr_lma_access.c. *)

\* LmaAccess, of one row
AccessOk(x) ==
  /\ x.num_writers <= 1
  /\ x.num_writers > 0 => x.num_readers = 0
  /\ x.X <=> (x.num_readers + x.num_writers > 0)

SameAccess(x, y) ==
  /\ y.num_readers = x.num_readers /\ y.num_writers = x.num_writers
  /\ y.X = x.X

\* the step leaves the access of every remaining vector alone
AccessLeft == \A v \in vctrs' \cap vctrs : SameAccess(vctr[v], vctr'[v])

(* LmaAccess speaks of each row by itself.                                 *)
LEMMA AccessOfRows ==
  /\ LmaAccess <=> \A v \in vctrs : AccessOk(vctr[v])
  /\ LmaAccess' <=> \A v \in vctrs' : AccessOk(vctr'[v])
<1>1. LmaAccess <=> \A v \in vctrs : AccessOk(vctr[v])
  BY Zenon DEF LmaAccess, AccessOk
<1>2. LmaAccess' <=> \A v \in vctrs' : AccessOk(vctr'[v])
  BY Zenon DEF LmaAccess, AccessOk
<1> QED BY <1>1, <1>2

(* Access that has not changed is still in order.                          *)
LEMMA SameIsOk ==
  ASSUME NEW x, NEW y, SameAccess(x, y), AccessOk(x)
  PROVE  AccessOk(y)
  BY Zenon DEF SameAccess, AccessOk

(* Two changes that leave the access alone are one that does.              *)
LEMMA SameTrans ==
  ASSUME NEW x, NEW y, NEW z, SameAccess(x, y), SameAccess(y, z)
  PROVE  SameAccess(x, z)
  BY Zenon DEF SameAccess

(* A step that leaves the access of every remaining vector alone.          *)
LEMMA TableAccess ==
  ASSUME LmaAccess, vctrs' \subseteq vctrs,
         \A v \in vctrs' : SameAccess(vctr[v], vctr'[v])
  PROVE  LmaAccess' /\ AccessLeft
<1> SUFFICES ASSUME NEW v \in vctrs' PROVE AccessOk(vctr'[v])
  BY AccessOfRows DEF AccessLeft
<1>1. AccessOk(vctr[v])
  BY AccessOfRows
<1> QED BY <1>1, SameIsOk

(* An operation that leaves the vector table alone keeps LmaAccess.        *)
LEMMA UnchangedAccess ==
  ASSUME LmaAccess, UNCHANGED <<vctrs, vctr>>
  PROVE  LmaAccess' /\ AccessLeft
<1>1. \A v \in vctrs' : SameAccess(vctr[v], vctr'[v])
  BY DEF SameAccess
<1> QED BY <1>1, TableAccess

(* A step that stores row y under v, and changes no other row.             *)
LEMMA RowAccess ==
  ASSUME TypeOK, LmaAccess, NEW v \in Uqids, NEW y,
         vctr' = [vctr EXCEPT ![v] = y], vctrs' \subseteq vctrs \cup {v}, AccessOk(y)
  PROVE  LmaAccess'
<1> SUFFICES ASSUME NEW u \in vctrs' PROVE AccessOk(vctr'[u])
  BY AccessOfRows
<1>0. vctr'[v] = y /\ (u # v => u \in vctrs /\ vctr'[u] = vctr[u])
  BY DEF TypeOK
<1>1. CASE u = v
  BY <1>0, <1>1
<1>2. CASE u # v
  BY <1>0, <1>2, AccessOfRows
<1> QED BY <1>1, <1>2

(* So does one that changes one row, but not its access.                   *)
LEMMA SameRowAccess ==
  ASSUME TypeOK, LmaAccess, NEW v \in vctrs, NEW y,
         vctr' = [vctr EXCEPT ![v] = y], vctrs' = vctrs, SameAccess(vctr[v], y)
  PROVE  LmaAccess' /\ AccessLeft
<1>1. \A u \in vctrs' : SameAccess(vctr[u], vctr'[u])
  BY DEF TypeOK, SameAccess
<1> QED BY <1>1, TableAccess

(* The fields most operations change are not those of the access.          *)
LEMMA FieldsAccess ==
  ASSUME NEW x \in VctrVal, NEW n, NEW m, NEW b, NEW e, NEW k
  PROVE  /\ SameAccess(x, x)
         /\ SameAccess(x, [x EXCEPT !.min_chnk_idx = n, !.is_eov = b])
         /\ SameAccess(x, [x EXCEPT !.min_chnk_idx = n])
         /\ SameAccess(x, [x EXCEPT !.num_elements = n, !.max_chnk_idx = m])
         /\ SameAccess(x, [x EXCEPT !.num_elements = n])
         /\ SameAccess(x, [x EXCEPT !.is_lma = b])
         /\ SameAccess(x, [x EXCEPT !.is_persist = b])
         /\ SameAccess(x, [x EXCEPT !.is_error = b])
         /\ SameAccess(x, [x EXCEPT !.memo_len = n])
         /\ SameAccess(x, [x EXCEPT !.is_killable = b, !.num_kill_ignore = n])
         /\ SameAccess(x, [x EXCEPT !.num_kill_ignore = n])
         /\ SameAccess(x, [x EXCEPT !.is_early_freeable = b, !.num_free_ignore = n])
         /\ SameAccess(x, [x EXCEPT !.num_elements = n, !.min_chnk_idx = k,
                             !.max_chnk_idx = m, !.is_eov = b, !.is_lma = e])
         /\ SameAccess(x, [x EXCEPT !.nn_key = k])
         /\ SameAccess(x, [x EXCEPT !.parent_key = k])
  BY DEF VctrVal, SameAccess

(* A new vector has no readers, no writer and no mapping.                  *)
LEMMA NewVctrAccess ==
  ASSUME NEW q, NEW memo, NEW kills, NEW frees
  PROVE  AccessOk(NewVctr(q, memo, kills, frees))
<1>1. /\ NewVctr(q, memo, kills, frees).num_readers = 0
      /\ NewVctr(q, memo, kills, frees).num_writers = 0
      /\ NewVctr(q, memo, kills, frees).X = FALSE
  BY DEF NewVctr, ZeroVctr
<1> QED BY <1>1 DEF AccessOk

(* Creating a vector, the puts, eov and early_free keep LmaAccess.         *)
LEMMA GrowAccess ==
  ASSUME TypeOK, LmaAccess, GrowNext
  PROVE  LmaAccess' /\ (AccessLeft \/ VctrAdd)
<1>1. CASE VctrAdd
  <2>1. PICK q \in Qtypes, memo \in MemoLens, kills \in {Never} \cup KillIgnores,
             frees \in {Never} \cup FreeIgnores : vctr_add(q, memo, kills, frees)
    BY <1>1 DEF VctrAdd
  <2>2. /\ g_vctr_uqid + 1 \in Uqids
        /\ \/ UNCHANGED <<vctrs, vctr>>
           \/ /\ vctrs' = vctrs \cup {g_vctr_uqid + 1}
              /\ vctr' = [vctr EXCEPT ![g_vctr_uqid + 1] = NewVctr(q, memo, kills, frees)]
    BY <2>1 DEF vctr_add
  <2> QED BY <1>1, <2>2, NewVctrAccess, RowAccess, UnchangedAccess
<1>2. ASSUME NEW v \in vctrs, NEW x \in VctrVal, SameAccess(vctr[v], x), vctrs' = vctrs,
             NEW e, NEW keys, NEW c, NEW m, StoreWithMemo(v, x, e, keys, c, m)
      PROVE  LmaAccess' /\ AccessLeft
  <2> DEFINE y == [x EXCEPT !.min_chnk_idx = MemoMin(x), !.is_eov = e]
  <2>1. SameAccess(x, y)
    BY FieldsAccess
  <2>2. vctr' = [vctr EXCEPT ![v] = y]
    BY <1>2 DEF StoreWithMemo
  <2> HIDE DEF y
  <2>3. SameAccess(vctr[v], y)
    BY <1>2, <2>1, SameTrans
  <2> QED BY <1>2, <2>2, <2>3, SameRowAccess
<1>3. \A v \in vctrs : vctr[v] \in VctrVal /\ SameAccess(vctr[v], vctr[v])
  BY FieldsAccess DEF TypeOK
<1>4. ASSUME NEW v \in vctrs, NEW n \in Nat, NEW i \in Nat
      PROVE  /\ [vctr[v] EXCEPT !.num_elements = @ + n, !.max_chnk_idx = i] \in VctrVal
             /\ SameAccess(vctr[v],
                           [vctr[v] EXCEPT !.num_elements = @ + n, !.max_chnk_idx = i])
  <2>1. vctr[v].num_elements + n \in Nat
    BY <1>3 DEF VctrVal
  <2> QED BY <1>3, <2>1, VctrFieldTypes, FieldsAccess
<1>5. CASE VctrPutn
  <2>1. PICK v \in Uqids, n \in 1..(MaxNumInChnk + 1) : vctr_putn(v, n)
    BY <1>5 DEF VctrPutn
  <2> DEFINE last == (vctr[v].num_elements + n - 1) \div MaxNumInChnk
             y == [vctr[v] EXCEPT !.num_elements = @ + n, !.max_chnk_idx = last]
  <2>2. v \in vctrs /\ vctrs' = vctrs
        /\ \E keys, c, m : StoreWithMemo(v, y, FALSE, keys, c, m)
    BY <2>1, Zenon DEF vctr_putn
  <2>3. n \in Nat /\ last \in Nat
    <3>1. n \in Nat /\ n >= 1 /\ vctr[v].num_elements \in Nat
      BY BoundsAssumption DEF BoundsAssumption, TypeOK, VctrVal
    <3>2. vctr[v].num_elements + n - 1 \in Nat
      BY <3>1
    <3> QED BY <3>1, <3>2, Quotients
  <2> HIDE DEF last
  <2>4. y \in VctrVal /\ SameAccess(vctr[v], y)
    BY <1>4, <2>2, <2>3
  <2> HIDE DEF y
  <2> QED BY <1>2, <2>2, <2>4
<1>6. CASE VctrPutChunk
  <2>1. PICK v \in Uqids, n \in 1..MaxNumInChnk, s \in Steals : vctr_put_chunk(v, n, s)
    BY <1>6 DEF VctrPutChunk
  <2> DEFINE i == IF vctr[v].num_elements = 0 THEN 0 ELSE vctr[v].max_chnk_idx + 1
             y == [vctr[v] EXCEPT !.num_elements = @ + n, !.max_chnk_idx = i]
  <2>2. v \in vctrs /\ vctrs' = vctrs
        /\ \/ StoreWithMemo(v, vctr[v], FALSE, chnks, chnk, mem_used)
           \/ \E e, keys, c, m : StoreWithMemo(v, y, e, keys, c, m)
    BY <2>1, Zenon DEF vctr_put_chunk
  <2>3. n \in Nat /\ i \in Nat
    BY BoundsAssumption DEF BoundsAssumption, TypeOK, VctrVal
  <2> HIDE DEF i
  <2>4. y \in VctrVal /\ SameAccess(vctr[v], y)
    BY <1>4, <2>2, <2>3
  <2> HIDE DEF y
  <2> QED BY <1>2, <1>3, <2>2, <2>4
<1>7. CASE VctrEov
  <2>1. PICK v \in Uqids : vctr_eov(v)
    BY <1>7 DEF VctrEov
  <2>2. v \in vctrs /\ vctrs' = vctrs
        /\ \E e : StoreWithMemo(v, vctr[v], e, chnks, chnk, mem_used)
    BY <2>1, Zenon DEF vctr_eov
  <2> QED BY <1>2, <1>3, <2>2
<1>8. CASE VctrEarlyFree
  <2>1. PICK v \in Uqids : \E ub \in EarlyFreeArgs(v) : vctr_early_free(v, ub)
    BY <1>8 DEF VctrEarlyFree
  <2>2. v \in vctrs /\ vctrs' = vctrs
        /\ \E top : vctr' = [vctr EXCEPT ![v].min_chnk_idx = top]
    BY <2>1 DEF vctr_early_free
  <2>3. PICK top : vctr' = [vctr EXCEPT ![v].min_chnk_idx = top]
    BY <2>2
  <2>4. SameAccess(vctr[v], [vctr[v] EXCEPT !.min_chnk_idx = top])
    BY <1>3, <2>2, FieldsAccess
  <2> QED BY <2>2, <2>3, <2>4, SameRowAccess
<1> QED BY <1>1, <1>5, <1>6, <1>7, <1>8 DEF GrowNext

(* The steps of vctr_lma_access.c on one row.                              *)
LEMMA CountAccess ==
  ASSUME NEW x \in VctrVal, AccessOk(x)
  PROVE  /\ x.num_writers = 0 => AccessOk(get_lma_X_nX(x))
         /\ x.num_readers > 0 => AccessOk(unget_lma_X_nX(x))
         /\ x.num_readers = 0 => AccessOk([x EXCEPT !.X = TRUE, !.num_writers = 1])
         /\ x.num_readers = 0 => AccessOk([x EXCEPT !.num_writers = 0, !.X = FALSE])
<1>0. x.num_readers \in Nat /\ x.num_writers \in Nat
  BY DEF VctrVal
<1>1. ASSUME x.num_writers = 0 PROVE AccessOk(get_lma_X_nX(x))
  <2> DEFINE y == get_lma_X_nX(x)
  <2>1. y.X = TRUE /\ y.num_readers = x.num_readers + 1 /\ y.num_writers = x.num_writers
    BY DEF get_lma_X_nX, VctrVal
  <2> HIDE DEF y
  <2> QED BY <1>0, <1>1, <2>1 DEF AccessOk, y
<1>2. ASSUME x.num_readers > 0 PROVE AccessOk(unget_lma_X_nX(x))
  <2> DEFINE y == unget_lma_X_nX(x)
  <2>1. /\ y.X = (x.num_readers > 1) /\ y.num_readers = x.num_readers - 1
        /\ y.num_writers = x.num_writers
    BY DEF unget_lma_X_nX, VctrVal
  <2>2. x.num_writers = 0
    BY <1>0, <1>2 DEF AccessOk
  <2> HIDE DEF y
  <2>3. y.X <=> x.num_readers > 1
    BY <2>1
  <2>4. AccessOk(y)
    BY <1>0, <1>2, <2>1, <2>2, <2>3 DEF AccessOk
  <2> QED BY <2>4 DEF y
<1>3. ASSUME x.num_readers = 0
      PROVE  AccessOk([x EXCEPT !.X = TRUE, !.num_writers = 1])
  <2> DEFINE y == [x EXCEPT !.X = TRUE, !.num_writers = 1]
  <2>1. y.X = TRUE /\ y.num_readers = 0 /\ y.num_writers = 1
    BY <1>3 DEF VctrVal
  <2> HIDE DEF y
  <2> QED BY <2>1 DEF AccessOk, y
<1>4. ASSUME x.num_readers = 0
      PROVE  AccessOk([x EXCEPT !.num_writers = 0, !.X = FALSE])
  <2> DEFINE y == [x EXCEPT !.num_writers = 0, !.X = FALSE]
  <2>1. y.X = FALSE /\ y.num_readers = 0 /\ y.num_writers = 0
    BY <1>4 DEF VctrVal
  <2> HIDE DEF y
  <2> QED BY <2>1 DEF AccessOk, y
<1> QED BY <1>1, <1>2, <1>3, <1>4

(* Getting and giving back chunks and the linear file keeps LmaAccess.     *)
LEMMA AccessAccess == ASSUME TypeOK, LmaAccess, AccessNext PROVE LmaAccess'
<1>0. \A v \in vctrs : v \in Uqids /\ vctr[v] \in VctrVal /\ AccessOk(vctr[v])
  BY AccessOfRows DEF TypeOK
<1>1. CASE VctrGetChunk \/ ChnkIncrReaders
  <2>1. UNCHANGED <<vctrs, vctr>>
    BY <1>1 DEF VctrGetChunk, ChnkIncrReaders, vctr_get_chunk, chnk_incr_num_readers,
                vctrTable
  <2> QED BY <2>1, UnchangedAccess
<1>2. ASSUME NEW v \in vctrs, vctr[v].num_writers = 0, vctrs' = vctrs,
             vctr' = [vctr EXCEPT ![v] = get_lma_X_nX(vctr[v])]
      PROVE  LmaAccess'
  <2>1. AccessOk(get_lma_X_nX(vctr[v]))
    BY <1>0, <1>2, CountAccess
  <2> QED BY <1>0, <1>2, <2>1, RowAccess
<1>3. ASSUME NEW v \in vctrs, vctr[v].num_readers > 0, vctrs' = vctrs,
             vctr' = [vctr EXCEPT ![v] = unget_lma_X_nX(vctr[v])]
      PROVE  LmaAccess'
  <2>1. AccessOk(unget_lma_X_nX(vctr[v]))
    BY <1>0, <1>3, CountAccess
  <2> QED BY <1>0, <1>3, <2>1, RowAccess
<1>4. CASE VctrGetChunkLma
  BY <1>2, <1>4 DEF VctrGetChunkLma, vctr_get_chunk_lma
<1>5. CASE VctrUngetChunk
  <2>1. PICK v \in Uqids, i \in ChnkIdxs : vctr_unget_chunk(v, i)
    BY <1>5 DEF VctrUngetChunk
  <2>2. /\ v \in vctrs /\ vctrs' = vctrs
        /\ \/ /\ vctr[v].num_readers > 0
              /\ vctr' = [vctr EXCEPT ![v] = unget_lma_X_nX(@)]
           \/ vctr' = vctr
    BY <2>1, Zenon DEF vctr_unget_chunk
  <2> QED BY <1>3, <2>2, UnchangedAccess
<1>6. CASE VctrGet1
  <2>1. PICK v \in Uqids, i \in ChnkIdxs : vctr_get1(v, i)
    BY <1>6 DEF VctrGet1
  <2>2. /\ v \in vctrs /\ vctrs' = vctrs
        /\ \/ /\ vctr[v].num_writers = 0
              /\ vctr' = [vctr EXCEPT ![v] = get_lma_X_nX(vctr[v])]
           \/ vctr' = vctr
    BY <2>1, Zenon DEF vctr_get1
  <2> QED BY <1>2, <2>2, UnchangedAccess
<1>7. CASE VctrGetLmaRead
  BY <1>2, <1>7 DEF VctrGetLmaRead, vctr_get_lma_read
<1>8. CASE VctrUngetLmaRead
  BY <1>3, <1>8 DEF VctrUngetLmaRead, vctr_unget_lma_read
<1>9. CASE GetLmaWrite
  <2>1. PICK v \in Uqids : get_lma_write(v)
    BY <1>9 DEF GetLmaWrite
  <2> DEFINE y == [vctr[v] EXCEPT !.X = TRUE, !.num_writers = 1]
  <2>2. /\ v \in vctrs /\ vctrs' = vctrs /\ vctr[v].num_readers = 0
        /\ vctr' = vctr \/ vctr' = [vctr EXCEPT ![v] = y]
    BY <2>1 DEF get_lma_write
  <2>3. AccessOk(y)
    BY <1>0, <2>2, CountAccess
  <2> HIDE DEF y
  <2> QED BY <2>2, <2>3, RowAccess, UnchangedAccess
<1>10. CASE UngetLmaWrite
  <2>1. PICK v \in Uqids : vctr_unget_lma_write(v)
    BY <1>10 DEF UngetLmaWrite
  <2> DEFINE y == [vctr[v] EXCEPT !.num_writers = 0, !.X = FALSE]
  <2>2. /\ v \in vctrs /\ vctrs' = vctrs /\ vctr[v].num_readers = 0
        /\ vctr' = [vctr EXCEPT ![v] = y]
    BY <2>1 DEF vctr_unget_lma_write
  <2>3. AccessOk(y)
    BY <1>0, <2>2, CountAccess
  <2> HIDE DEF y
  <2> QED BY <2>2, <2>3, RowAccess
<1> QED BY <1>1, <1>4, <1>5, <1>6, <1>7, <1>8, <1>9, <1>10 DEF AccessNext

(* Making and dropping copies keeps LmaAccess.                             *)
LEMMA TierAccess ==
  ASSUME TypeOK, LmaAccess, TierNext
  PROVE  LmaAccess' /\ AccessLeft
<1>0. \A v \in vctrs : vctr[v] \in VctrVal
  BY DEF TypeOK
<1>1. CASE DropL1 \/ DropL2 \/ MakeL1 \/ MakeL2 \/ L1ToL2 \/ Unprefetch \/ LmaToChnks
           \/ SetLmaFails
  <2>1. UNCHANGED vctrTable
    BY <1>1, Zenon
    DEF DropL1, DropL2, MakeL1, MakeL2, L1ToL2, Unprefetch, LmaToChnks, drop_l1,
        drop_l2, make_l1, vctr_make_l2, make_l2, vctr_l1_to_l2, unprefetch,
        vctr_lma_to_chnks, SetLmaFails, set_lma_fails
  <2> QED BY <2>1, UnchangedAccess DEF vctrTable
<1>2. CASE DropLma \/ ChnksToLma
  <2>1. PICK v \in vctrs :
          \E b : vctrs' = vctrs /\ vctr' = [vctr EXCEPT ![v].is_lma = b]
    BY <1>2, Zenon DEF DropLma, ChnksToLma, drop_lma, vctr_chnks_to_lma
  <2>2. PICK b : vctrs' = vctrs /\ vctr' = [vctr EXCEPT ![v].is_lma = b]
    BY <2>1
  <2>3. SameAccess(vctr[v], [vctr[v] EXCEPT !.is_lma = b])
    BY <1>0, FieldsAccess
  <2> QED BY <2>2, <2>3, SameRowAccess
<1>3. CASE SetLma
  <2>1. PICK v \in Uqids, n \in 1..MaxElems : vctr_set_lma(v, n)
    BY <1>3 DEF SetLma
  <2> DEFINE top == NumChnks(n) - 1
             low == IF vctr[v].memo_len > 0 /\ top + 1 > vctr[v].memo_len
                    THEN top + 1 - vctr[v].memo_len ELSE 0
             y == [vctr[v] EXCEPT !.num_elements = n, !.min_chnk_idx = low,
                     !.max_chnk_idx = top, !.is_eov = TRUE, !.is_lma = TRUE]
  <2>2. v \in vctrs /\ vctrs' = vctrs /\ vctr' = [vctr EXCEPT ![v] = y]
    BY <2>1, Zenon DEF vctr_set_lma
  <2> HIDE DEF low, top
  <2>3. SameAccess(vctr[v], y)
    BY <1>0, <2>2, FieldsAccess
  <2> HIDE DEF y
  <2> QED BY <2>2, <2>3, SameRowAccess
<1>4. CASE Append
  <2>1. PICK v \in vctrs :
          \E n : vctrs' = vctrs /\ vctr' = [vctr EXCEPT ![v].num_elements = n]
    BY <1>4, Zenon DEF Append, vctr_append
  <2>2. PICK n : vctrs' = vctrs /\ vctr' = [vctr EXCEPT ![v].num_elements = n]
    BY <2>1
  <2>3. SameAccess(vctr[v], [vctr[v] EXCEPT !.num_elements = n])
    BY <1>0, FieldsAccess
  <2> QED BY <2>2, <2>3, SameRowAccess
<1> QED BY <1>1, <1>2, <1>3, <1>4 DEF TierNext

(* Tying and untying a vector and its nn vector.                           *)
LEMMA TieAccess ==
  ASSUME NEW x \in [Uqids -> VctrVal], NEW b \in Uqids, NEW n \in Uqids
  PROVE  \A u \in Uqids : SameAccess(x[u], Tied(x, b, n)[u])
<1> DEFINE y == [x EXCEPT ![b].nn_key = n]
<1> SUFFICES ASSUME NEW u \in Uqids PROVE SameAccess(x[u], Tied(x, b, n)[u])
  OBVIOUS
<1>1. y \in [Uqids -> VctrVal]
  BY VctrFieldTypes
<1>2. y[u] \in {x[u], [x[u] EXCEPT !.nn_key = n]}
  OBVIOUS
<1>3. SameAccess(x[u], y[u])
  BY <1>2, FieldsAccess
<1>4. Tied(x, b, n) = [y EXCEPT ![n].parent_key = b]
  BY DEF Tied
<1> HIDE DEF y
<1>5. Tied(x, b, n)[u] \in {y[u], [y[u] EXCEPT !.parent_key = b]}
  BY <1>1, <1>4
<1>6. SameAccess(y[u], Tied(x, b, n)[u])
  <2>1. SameAccess(y[u], y[u]) /\ SameAccess(y[u], [y[u] EXCEPT !.parent_key = b])
    BY <1>1, FieldsAccess
  <2> QED BY <1>5, <2>1
<1> QED BY <1>3, <1>6, SameTrans

(* Undoing the tie to the nn vector leaves the access of all rows alone.   *)
LEMMA UntieAccess ==
  ASSUME NEW x \in [Uqids -> VctrVal], NEW b \in Uqids, x[b].nn_key # 0
  PROVE  \A u \in Uqids : SameAccess(x[u], Untied(x, b)[u])
<1> DEFINE n == x[b].nn_key
           y == [x EXCEPT ![n].parent_key = 0]
<1> SUFFICES ASSUME NEW u \in Uqids PROVE SameAccess(x[u], Untied(x, b)[u])
  OBVIOUS
<1>0. n \in Uqids
  BY DEF VctrVal
<1>1. Untied(x, b) = [y EXCEPT ![b].nn_key = 0]
  BY DEF Untied
<1> HIDE DEF n
<1>2. y \in [Uqids -> VctrVal]
  BY <1>0, VctrFieldTypes
<1>3. y[u] \in {x[u], [x[u] EXCEPT !.parent_key = 0]}
  OBVIOUS
<1>4. SameAccess(x[u], y[u])
  BY <1>3, FieldsAccess
<1> HIDE DEF y
<1>5. Untied(x, b)[u] \in {y[u], [y[u] EXCEPT !.nn_key = 0]}
  BY <1>1, <1>2
<1>6. SameAccess(y[u], Untied(x, b)[u])
  <2>1. SameAccess(y[u], y[u]) /\ SameAccess(y[u], [y[u] EXCEPT !.nn_key = 0])
    BY <1>2, FieldsAccess
  <2> QED BY <1>5, <2>1
<1> QED BY <1>4, <1>6, SameTrans

(* vctr_del() keeps LmaAccess: it refuses a linear file in use.            *)
LEMMA VctrDelAccess ==
  ASSUME TypeOK, LmaAccess, NEW x \in [Uqids -> VctrVal], NEW v \in Uqids,
         \A u \in Uqids : SameAccess(vctr[u], x[u]), vctr_del(x, v)
  PROVE  LmaAccess' /\ AccessLeft
<1> DEFINE val == x[v]
           y == IF val.nn_key # 0 THEN Untied(x, v) ELSE x
           Unlinks == val.is_lma /\ ~val.is_persist
           b == y[v].is_lma /\ ~Unlinks
<1>1. y \in [Uqids -> VctrVal]
  BY UntieTypes
<1>2. \A u \in Uqids : SameAccess(x[u], y[u])
  BY UntieAccess, FieldsAccess
<1>3. \/ vctrs' = vctrs /\ vctr' = y
      \/ vctrs' = vctrs \ {v} /\ vctr' = [y EXCEPT ![v] = ZeroVctr]
      \/ vctrs' = vctrs /\ vctr' = [y EXCEPT ![v].is_lma = b]
  BY Zenon DEF vctr_del
<1>4. vctrs \subseteq Uqids
  BY DEF TypeOK
<1> HIDE DEF y, b
<1>5. \A u \in Uqids : SameAccess(vctr[u], y[u])
  BY <1>2, SameTrans
<1>6. CASE vctrs' = vctrs /\ vctr' = y
  BY <1>4, <1>5, <1>6, TableAccess
<1>7. CASE vctrs' = vctrs \ {v} /\ vctr' = [y EXCEPT ![v] = ZeroVctr]
  <2>1. \A u \in vctrs' : u \in Uqids /\ vctr'[u] = y[u]
    BY <1>1, <1>4, <1>7
  <2> QED BY <1>5, <1>7, <2>1, TableAccess
<1>8. CASE vctrs' = vctrs /\ vctr' = [y EXCEPT ![v].is_lma = b]
  <2> SUFFICES ASSUME NEW u \in vctrs' PROVE SameAccess(vctr[u], vctr'[u])
    BY <1>8, TableAccess
  <2>1. u \in Uqids /\ y[u] \in VctrVal
    BY <1>1, <1>4, <1>8
  <2>2. vctr'[u] \in {y[u], [y[u] EXCEPT !.is_lma = b]}
    BY <1>1, <1>8, <2>1
  <2>3. SameAccess(y[u], vctr'[u])
    <3>1. SameAccess(y[u], y[u]) /\ SameAccess(y[u], [y[u] EXCEPT !.is_lma = b])
      BY <2>1, FieldsAccess
    <3> QED BY <2>2, <3>1
  <2> QED BY <1>5, <2>1, <2>3, SameTrans
<1> QED BY <1>3, <1>6, <1>7, <1>8

(* Attributes, nn ties and the ways to delete keep LmaAccess.              *)
LEMMA LifeAccess ==
  ASSUME TypeOK, LmaAccess, LifeNext
  PROVE  LmaAccess' /\ (AccessLeft \/ AddWithNn)
<1>0. /\ vctr \in [Uqids -> VctrVal] /\ vctrs \subseteq Uqids
      /\ \A u \in Uqids : vctr[u] \in VctrVal /\ SameAccess(vctr[u], vctr[u])
  BY FieldsAccess DEF TypeOK
<1>1. CASE VctrPersist
  <2>1. PICK v \in Uqids : vctr_persist(v)
    BY <1>1 DEF VctrPersist
  <2>2. SameAccess(vctr[v], [vctr[v] EXCEPT !.is_persist = TRUE])
    BY <1>0, FieldsAccess
  <2> QED BY <2>1, <2>2, SameRowAccess DEF vctr_persist
<1>2. CASE VctrSetMemo
  <2>1. PICK v \in Uqids, memo \in MemoLens : vctr_set_memo(v, memo)
    BY <1>2 DEF VctrSetMemo
  <2>2. SameAccess(vctr[v], [vctr[v] EXCEPT !.memo_len = memo])
    BY <1>0, FieldsAccess
  <2> QED BY <2>1, <2>2, SameRowAccess DEF vctr_set_memo
<1>3. CASE SetKillable
  <2>1. PICK v \in Uqids, n \in KillIgnores : vctr_set_num_kill_ignore(v, n)
    BY <1>3 DEF SetKillable
  <2>2. SameAccess(vctr[v], [vctr[v] EXCEPT !.is_killable = TRUE, !.num_kill_ignore = n])
    BY <1>0, FieldsAccess
  <2> QED BY <2>1, <2>2, SameRowAccess DEF vctr_set_num_kill_ignore
<1>4. CASE SetFreeable
  <2>1. PICK v \in Uqids, n \in FreeIgnores : vctr_set_early_freeable(v, n)
    BY <1>4 DEF SetFreeable
  <2>2. SameAccess(vctr[v],
                   [vctr[v] EXCEPT !.is_early_freeable = TRUE, !.num_free_ignore = n])
    BY <1>0, FieldsAccess
  <2> QED BY <2>1, <2>2, SameRowAccess DEF vctr_set_early_freeable
<1>5. CASE SetError
  <2>1. PICK v \in Uqids : vctr_set_error(v)
    BY <1>5 DEF SetError
  <2>2. SameAccess(vctr[v], [vctr[v] EXCEPT !.is_error = TRUE])
    BY <1>0, FieldsAccess
  <2> QED BY <2>1, <2>2, SameRowAccess DEF vctr_set_error
<1>6. CASE SetNnVec
  <2>1. PICK b \in Uqids, n \in Uqids : set_nn_vec(b, n)
    BY <1>6 DEF SetNnVec
  <2>2. vctr' = Tied(vctr, b, n) /\ vctrs' = vctrs
    BY <2>1 DEF set_nn_vec
  <2> QED BY <1>0, <2>2, TieAccess, TableAccess
<1>7. CASE AddWithNn
  <2>1. PICK q \in Qtypes, memo \in MemoLens, kills \in {Never} \cup KillIgnores,
             frees \in {Never} \cup FreeIgnores : NewWithNn(q, memo, kills, frees)
    BY <1>7 DEF AddWithNn
  <2> DEFINE b == g_vctr_uqid + 1
             n == g_vctr_uqid + 2
             New(t) == NewVctr(t, memo, kills, frees)
             x == [vctr EXCEPT ![b] = New(q), ![n] = New("BL")]
  <2>2. {b, n} \subseteq Uqids /\ vctrs' = vctrs \cup {b, n} /\ vctr' = Tied(x, b, n)
    BY <2>1, Zenon DEF NewWithNn
  <2>3. New(q) \in VctrVal /\ New("BL") \in VctrVal
    <3>1. /\ q \in {"BL", "SC", "I4"} /\ "BL" \in {"BL", "SC", "I4"} /\ memo \in Nat
          /\ kills \in Nat \cup {Never} /\ frees \in Nat \cup {Never}
      BY InputTypes
    <3> QED BY <3>1, NewVctrType
  <2>4. AccessOk(New(q)) /\ AccessOk(New("BL"))
    BY NewVctrAccess
  <2> HIDE DEF New, b, n
  <2>5. x \in [Uqids -> VctrVal]
    BY <1>0, <2>2, <2>3
  <2>6. \A u \in vctrs' : u \in Uqids /\ AccessOk(x[u])
    <3> SUFFICES ASSUME NEW u \in vctrs' PROVE u \in Uqids /\ AccessOk(x[u])
      OBVIOUS
    <3>1. u \in Uqids /\ (u \in vctrs => AccessOk(vctr[u]))
      BY <1>0, <2>2, AccessOfRows
    <3>2. x[u] \in {New(q), New("BL")} \/ (u \in vctrs /\ x[u] = vctr[u])
      BY <1>0, <2>2, <3>1
    <3> HIDE DEF x
    <3> QED BY <2>4, <3>1, <3>2
  <2> HIDE DEF x
  <2>7. \A u \in vctrs' : AccessOk(vctr'[u])
    BY <2>2, <2>5, <2>6, TieAccess, SameIsOk
  <2> QED BY <1>7, <2>7, AccessOfRows
<1>8. CASE Delete
  BY <1>0, <1>8, VctrDelAccess DEF Delete, delete
<1>9. CASE Kill
  <2>1. PICK v \in Uqids : vctr_kill(v)
    BY <1>9 DEF Kill
  <2>2. SameAccess(vctr[v], [vctr[v] EXCEPT !.num_kill_ignore = @ - 1])
    BY <1>0, FieldsAccess
  <2>3. \/ /\ v \in vctrs /\ vctrs' = vctrs
           /\ vctr' = [vctr EXCEPT ![v].num_kill_ignore = @ - 1]
        \/ vctr_del(vctr, v)
    BY <2>1 DEF vctr_kill
  <2> QED BY <1>0, <2>2, <2>3, SameRowAccess, VctrDelAccess
<1>10. CASE BrkNnVec
  <2>1. PICK b \in Uqids, del_nn \in BOOLEAN : vctr_brk_nn_vec(b, del_nn)
    BY <1>10 DEF BrkNnVec
  <2>2. vctr[b].nn_key # 0 /\ vctr[b].nn_key \in Uqids
    BY <1>0, <2>1 DEF vctr_brk_nn_vec
  <2>3. /\ Untied(vctr, b) \in [Uqids -> VctrVal]
        /\ \A u \in Uqids : SameAccess(vctr[u], Untied(vctr, b)[u])
    BY <1>0, <2>2, UntieTypes, UntieAccess
  <2>4. \/ vctr_del(Untied(vctr, b), vctr[b].nn_key)
        \/ vctr' = Untied(vctr, b) /\ vctrs' = vctrs
    BY <2>1 DEF vctr_brk_nn_vec
  <2> QED BY <1>0, <2>2, <2>3, <2>4, VctrDelAccess, TableAccess
<1> QED BY <1>1, <1>2, <1>3, <1>4, <1>5, <1>6, <1>7, <1>8, <1>9, <1>10 DEF LifeNext

(* A vector's linear file has any number of readers or one writer, never   *)
(* both, and is mapped exactly while somebody has it: not only through the *)
(* get and unget functions of vctr_lma_access.c, but through every other   *)
(* operation on vectors too, dropping, appending and deleting included.    *)
THEOREM VctrLmaAccess == Spec => []LmaAccess
<1>1. Init => LmaAccess
  BY DEF Init, VctrInit, LmaAccess
<1>2. TypeOK /\ LmaAccess /\ [Next]_vars => LmaAccess'
  <2> SUFFICES ASSUME TypeOK, LmaAccess, [Next]_vars PROVE LmaAccess'
    OBVIOUS
  <2>1. CASE UNCHANGED vars
    BY <2>1, UnchangedAccess DEF vars, vctrTable
  <2>2. CASE Next
    BY <2>2, GrowAccess, AccessAccess, TierAccess, LifeAccess DEF Next
  <2> QED BY <2>1, <2>2
<1> QED BY <1>1, <1>2, VctrTypeOK, PTL DEF Spec

-----------------------------------------------------------------------------
(* A vector and its nn vector always name each other, for any number of    *)
(* vectors and any order of creating, tying, untying and deleting them.    *)
(* Given the types, NnMutual is inductive once it is known that no uqid is *)
(* given out twice: the row of a new vector would otherwise replace one    *)
(* that another vector names.                                              *)

\* g_vctr_uqid only grows, and every vector has a uqid it has reached
UqidsGiven == \A v \in vctrs : v <= g_vctr_uqid

\* NnMutual of the table x with the keys S
Mutual(S, x) ==
  \A v \in S :
    /\ x[v].nn_key # 0 => x[v].nn_key \in S /\ x[x[v].nn_key].parent_key = v
    /\ x[v].parent_key # 0 => /\ x[v].parent_key \in S
                              /\ x[x[v].parent_key].nn_key = v
                              /\ x[v].qtype = "BL"
    /\ x[v].nn_key = 0 \/ x[v].parent_key = 0

\* y is x as far as the tie is concerned
SameTie(x, y) ==
  y.nn_key = x.nn_key /\ y.parent_key = x.parent_key /\ y.qtype = x.qtype

(* NnMutual is Mutual of the session's table.                              *)
LEMMA MutualIsNn ==
  (NnMutual <=> Mutual(vctrs, vctr)) /\ (NnMutual' <=> Mutual(vctrs', vctr'))
<1>1. NnMutual <=> Mutual(vctrs, vctr)
  BY Zenon DEF NnMutual, Mutual
<1>2. NnMutual' <=> Mutual(vctrs', vctr')
  BY Zenon DEF NnMutual, Mutual
<1> QED BY <1>1, <1>2

(* Changing rows without touching their ties.                              *)
LEMMA SameTies ==
  ASSUME NEW S, NEW x, NEW y, Mutual(S, x), \A v \in S : SameTie(x[v], y[v])
  PROVE  Mutual(S, y)
  BY DEF Mutual, SameTie

(* A new row that is tied to nothing.                                      *)
LEMMA NewRowMutual ==
  ASSUME NEW S, S \subseteq Uqids, NEW x \in [Uqids -> VctrVal], Mutual(S, x),
         NEW v \in Uqids, v \notin S, NEW r \in VctrVal,
         r.nn_key = 0, r.parent_key = 0
  PROVE  Mutual(S \cup {v}, [x EXCEPT ![v] = r])
<1> DEFINE y == [x EXCEPT ![v] = r]
<1>1. y[v] = r /\ \A u \in S : y[u] = x[u]
  OBVIOUS
<1> HIDE DEF y
<1>2. Mutual(S \cup {v}, y)
  BY <1>1 DEF Mutual
<1> QED BY <1>2 DEF y

(* A row tied to nothing goes: no other row named it.                      *)
LEMMA DropRowMutual ==
  ASSUME NEW S, S \subseteq Uqids, NEW x \in [Uqids -> VctrVal], Mutual(S, x),
         NEW v \in S, x[v].nn_key = 0, x[v].parent_key = 0, NEW r
  PROVE  Mutual(S \ {v}, [x EXCEPT ![v] = r])
<1> DEFINE y == [x EXCEPT ![v] = r]
<1>1. \A u \in S \ {v} : y[u] = x[u]
  OBVIOUS
<1>2. 0 \notin Uqids
  BY DEF Uqids
<1> HIDE DEF y
<1>3. \A u \in S \ {v} : x[u].nn_key # v /\ x[u].parent_key # v
  BY <1>2 DEF Mutual
<1>4. Mutual(S \ {v}, y)
  BY <1>1, <1>3 DEF Mutual
<1> QED BY <1>4 DEF y

(* What tying and untying do to each row.                                  *)
LEMMA TiedRows ==
  ASSUME NEW x \in [Uqids -> VctrVal], NEW b \in Uqids, NEW n \in Uqids, b # n
  PROVE  LET y == Tied(x, b, n)
         IN  /\ y[b].nn_key = n /\ y[b].parent_key = x[b].parent_key
             /\ y[b].qtype = x[b].qtype
             /\ y[n].parent_key = b /\ y[n].nn_key = x[n].nn_key
             /\ y[n].qtype = x[n].qtype
             /\ \A u \in Uqids \ {b, n} : y[u] = x[u]
  BY DEF Tied, VctrVal

(* The same when a tie is broken: only the two rows it joined change.      *)
LEMMA UntiedRows ==
  ASSUME NEW x \in [Uqids -> VctrVal], NEW b \in Uqids, x[b].nn_key \in Uqids \ {b}
  PROVE  LET y == Untied(x, b)
             n == x[b].nn_key
         IN  /\ y[b].nn_key = 0 /\ y[b].parent_key = x[b].parent_key
             /\ y[b].qtype = x[b].qtype
             /\ y[n].parent_key = 0 /\ y[n].nn_key = x[n].nn_key
             /\ y[n].qtype = x[n].qtype
             /\ \A u \in Uqids \ {b, n} : y[u] = x[u]
  BY DEF Untied, VctrVal

(* Two vectors with no tie are tied to each other.                         *)
LEMMA TiedMutual ==
  ASSUME NEW S, S \subseteq Uqids, NEW x \in [Uqids -> VctrVal], Mutual(S, x),
         NEW b \in S, NEW n \in S, b # n,
         x[b].nn_key = 0, x[b].parent_key = 0, x[n].nn_key = 0, x[n].parent_key = 0,
         x[n].qtype = "BL"
  PROVE  Mutual(S, Tied(x, b, n))
<1> DEFINE y == Tied(x, b, n)
<1>1. /\ y[b].nn_key = n /\ y[b].parent_key = 0
      /\ y[n].parent_key = b /\ y[n].nn_key = 0 /\ y[n].qtype = "BL"
      /\ \A u \in S \ {b, n} : y[u] = x[u]
  BY TiedRows
<1>2. 0 \notin Uqids
  BY DEF Uqids
<1>3. \A u \in S : x[u].nn_key \notin {b, n} /\ x[u].parent_key \notin {b, n}
  BY <1>2 DEF Mutual
<1> HIDE DEF y
<1>4. Mutual(S, y)
  BY <1>1, <1>2, <1>3 DEF Mutual
<1> QED BY <1>4 DEF y

(* A tie is undone at both ends.                                           *)
LEMMA UntiedMutual ==
  ASSUME NEW S, S \subseteq Uqids, NEW x \in [Uqids -> VctrVal], Mutual(S, x),
         NEW b \in S, x[b].nn_key # 0
  PROVE  /\ Mutual(S, Untied(x, b)) /\ Untied(x, b)[b].nn_key = 0
         /\ Untied(x, b)[b].parent_key = 0
         /\ x[b].nn_key \in S /\ Untied(x, b)[x[b].nn_key].parent_key = 0
         /\ Untied(x, b)[x[b].nn_key].nn_key = 0
<1> DEFINE n == x[b].nn_key
           y == Untied(x, b)
<1>0. 0 \notin Uqids
  BY DEF Uqids
<1>1. n \in S /\ n # b /\ x[n].parent_key = b /\ x[b].parent_key = 0 /\ x[n].nn_key = 0
  BY <1>0 DEF Mutual
<1>2. /\ y[b].nn_key = 0 /\ y[b].parent_key = 0
      /\ y[n].parent_key = 0 /\ y[n].nn_key = 0
      /\ \A u \in S \ {b, n} : y[u] = x[u]
  BY <1>1, UntiedRows
<1>3. \A u \in S \ {b, n} : x[u].nn_key \notin {b, n} /\ x[u].parent_key \notin {b, n}
  BY <1>0, <1>1 DEF Mutual
<1> HIDE DEF y, n
<1>4. Mutual(S, y)
  BY <1>1, <1>2, <1>3 DEF Mutual
<1> QED BY <1>1, <1>2, <1>4 DEF y, n
-----------------------------------------------------------------------------
(* The operations.  Most leave the ties of every vector alone.             *)

(* A step that leaves all ties, and the set of vectors, alone.             *)
LEMMA QuietTies ==
  ASSUME NnMutual, UqidsGiven, vctrs' = vctrs, g_vctr_uqid' = g_vctr_uqid,
         \A v \in vctrs : SameTie(vctr[v], vctr'[v])
  PROVE  NnMutual' /\ UqidsGiven'
<1>1. NnMutual'
  BY MutualIsNn, SameTies
<1> QED BY <1>1 DEF UqidsGiven

(* A step that stores one row, with the tie it had.                        *)
LEMMA QuietRow ==
  ASSUME TypeOK, NnMutual, UqidsGiven, NEW v \in vctrs, NEW y,
         vctrs' = vctrs, g_vctr_uqid' = g_vctr_uqid,
         vctr' = [vctr EXCEPT ![v] = y], SameTie(vctr[v], y)
  PROVE  NnMutual' /\ UqidsGiven'
<1>1. \A u \in vctrs : SameTie(vctr[u], vctr'[u])
  BY DEF SameTie, TypeOK
<1> QED BY <1>1, QuietTies

(* Fields other than those of the tie may change.                          *)
LEMMA FieldsTie ==
  ASSUME NEW x \in VctrVal, NEW n, NEW m, NEW b, NEW e, NEW k
  PROVE  /\ SameTie(x, x)
         /\ SameTie(x, [x EXCEPT !.min_chnk_idx = n, !.is_eov = b])
         /\ SameTie(x, [x EXCEPT !.min_chnk_idx = n])
         /\ SameTie(x, [x EXCEPT !.num_elements = n, !.max_chnk_idx = m])
         /\ SameTie(x, [x EXCEPT !.num_elements = n])
         /\ SameTie(x, [x EXCEPT !.is_lma = b])
         /\ SameTie(x, [x EXCEPT !.num_kill_ignore = n])
         /\ SameTie(x, [x EXCEPT !.X = b, !.num_writers = n])
         /\ SameTie(x, [x EXCEPT !.num_writers = n, !.X = b])
         /\ SameTie(x, [x EXCEPT !.num_elements = n, !.min_chnk_idx = k,
                          !.max_chnk_idx = m, !.is_eov = b, !.is_lma = e])
         /\ SameTie(x, get_lma_X_nX(x)) /\ SameTie(x, unget_lma_X_nX(x))
  BY DEF VctrVal, SameTie, get_lma_X_nX, unget_lma_X_nX

(* vctr_add() takes a uqid that no vector has.                             *)
LEMMA AddTies ==
  ASSUME TypeOK, NnMutual, UqidsGiven, VctrAdd
  PROVE  NnMutual' /\ UqidsGiven'
<1>1. PICK q \in Qtypes, memo \in MemoLens, kills \in {Never} \cup KillIgnores,
           frees \in {Never} \cup FreeIgnores : vctr_add(q, memo, kills, frees)
  BY DEF VctrAdd
<1> DEFINE u == g_vctr_uqid + 1
           r == NewVctr(q, memo, kills, frees)
<1>0. CASE UNCHANGED <<vctrs, vctr>>
  <2>1. g_vctr_uqid' = u /\ g_vctr_uqid \in Nat /\ vctrs \subseteq Uqids
    BY <1>1, Zenon DEF vctr_add, TypeOK
  <2>2. UqidsGiven'
    BY <1>0, <2>1 DEF UqidsGiven, Uqids
  <2> QED BY <1>0, <2>2 DEF NnMutual
<1> SUFFICES ASSUME ~UNCHANGED <<vctrs, vctr>> PROVE NnMutual' /\ UqidsGiven'
  BY <1>0
<1>2. /\ u \in Uqids /\ g_vctr_uqid' = u /\ vctrs' = vctrs \cup {u}
      /\ vctr' = [vctr EXCEPT ![u] = r]
  BY <1>1 DEF vctr_add
<1>3. r \in VctrVal /\ r.nn_key = 0 /\ r.parent_key = 0
  <2>1. /\ q \in {"BL", "SC", "I4"} /\ memo \in Nat
        /\ kills \in Nat \cup {Never} /\ frees \in Nat \cup {Never}
    BY InputTypes
  <2>2. r \in VctrVal
    BY <2>1, NewVctrType
  <2> QED BY <2>2 DEF NewVctr, ZeroVctr
<1>4. u \notin vctrs /\ UqidsGiven'
  BY <1>2 DEF UqidsGiven, TypeOK, Uqids
<1> HIDE DEF u, r
<1>5. Mutual(vctrs', vctr')
  BY <1>2, <1>3, <1>4, NewRowMutual, MutualIsNn DEF TypeOK
<1> QED BY <1>4, <1>5, MutualIsNn

(* Puts, eov and early_free change one row, but not its tie.               *)
LEMMA GrowTies ==
  ASSUME TypeOK, NnMutual, UqidsGiven, GrowNext
  PROVE  NnMutual' /\ UqidsGiven'
<1>0. \A v \in vctrs : vctr[v] \in VctrVal
  BY DEF TypeOK
<1>1. CASE VctrAdd
  BY <1>1, AddTies
<1>2. ASSUME NEW v \in vctrs, NEW x, SameTie(vctr[v], x), x \in VctrVal,
             vctrs' = vctrs, g_vctr_uqid' = g_vctr_uqid,
             NEW e, NEW keys, NEW c, NEW m, StoreWithMemo(v, x, e, keys, c, m)
      PROVE  NnMutual' /\ UqidsGiven'
  <2> DEFINE y == [x EXCEPT !.min_chnk_idx = MemoMin(x), !.is_eov = e]
  <2>1. SameTie(x, y)
    BY <1>2, FieldsTie
  <2>2. vctr' = [vctr EXCEPT ![v] = y]
    BY <1>2 DEF StoreWithMemo
  <2> HIDE DEF y
  <2>3. SameTie(vctr[v], y)
    BY <1>2, <2>1 DEF SameTie
  <2> QED BY <1>2, <2>2, <2>3, QuietRow
<1>3. ASSUME NEW v \in vctrs, NEW n \in Nat, NEW i \in Nat
      PROVE  /\ [vctr[v] EXCEPT !.num_elements = @ + n, !.max_chnk_idx = i] \in VctrVal
             /\ SameTie(vctr[v],
                        [vctr[v] EXCEPT !.num_elements = @ + n, !.max_chnk_idx = i])
  <2>1. vctr[v].num_elements + n \in Nat
    BY <1>0 DEF VctrVal
  <2> QED BY <1>0, <2>1, VctrFieldTypes, FieldsTie
<1>4. CASE VctrPutn
  <2>1. PICK v \in Uqids, n \in 1..(MaxNumInChnk + 1) : vctr_putn(v, n)
    BY <1>4 DEF VctrPutn
  <2> DEFINE last == (vctr[v].num_elements + n - 1) \div MaxNumInChnk
             y == [vctr[v] EXCEPT !.num_elements = @ + n, !.max_chnk_idx = last]
  <2>2. v \in vctrs /\ vctrs' = vctrs /\ g_vctr_uqid' = g_vctr_uqid
        /\ \E keys, c, m : StoreWithMemo(v, y, FALSE, keys, c, m)
    BY <2>1, Zenon DEF vctr_putn
  <2>3. n \in Nat /\ last \in Nat
    <3>1. n \in Nat /\ n >= 1 /\ vctr[v].num_elements \in Nat
      BY BoundsAssumption DEF BoundsAssumption, TypeOK, VctrVal
    <3>2. vctr[v].num_elements + n - 1 \in Nat
      BY <3>1
    <3> QED BY <3>1, <3>2, Quotients
  <2> HIDE DEF last
  <2>4. y \in VctrVal /\ SameTie(vctr[v], y)
    BY <1>3, <2>2, <2>3
  <2> HIDE DEF y
  <2> QED BY <1>2, <2>2, <2>4
<1>5. CASE VctrPutChunk
  <2>1. PICK v \in Uqids, n \in 1..MaxNumInChnk, s \in Steals : vctr_put_chunk(v, n, s)
    BY <1>5 DEF VctrPutChunk
  <2> DEFINE i == IF vctr[v].num_elements = 0 THEN 0 ELSE vctr[v].max_chnk_idx + 1
             y == [vctr[v] EXCEPT !.num_elements = @ + n, !.max_chnk_idx = i]
  <2>2. v \in vctrs /\ vctrs' = vctrs /\ g_vctr_uqid' = g_vctr_uqid
        /\ \/ StoreWithMemo(v, vctr[v], FALSE, chnks, chnk, mem_used)
           \/ \E e, keys, c, m : StoreWithMemo(v, y, e, keys, c, m)
    BY <2>1, Zenon DEF vctr_put_chunk
  <2>3. n \in Nat /\ i \in Nat
    BY BoundsAssumption DEF BoundsAssumption, TypeOK, VctrVal
  <2> HIDE DEF i
  <2>4. y \in VctrVal /\ SameTie(vctr[v], y)
    BY <1>3, <2>2, <2>3
  <2>5. SameTie(vctr[v], vctr[v])
    BY <1>0, <2>2, FieldsTie
  <2> HIDE DEF y
  <2> QED BY <1>0, <1>2, <2>2, <2>4, <2>5
<1>6. CASE VctrEov
  <2>1. PICK v \in Uqids : vctr_eov(v)
    BY <1>6 DEF VctrEov
  <2>2. v \in vctrs /\ vctrs' = vctrs /\ g_vctr_uqid' = g_vctr_uqid
        /\ \E e : StoreWithMemo(v, vctr[v], e, chnks, chnk, mem_used)
    BY <2>1, Zenon DEF vctr_eov
  <2>3. SameTie(vctr[v], vctr[v])
    BY <1>0, <2>2, FieldsTie
  <2> QED BY <1>0, <1>2, <2>2, <2>3
<1>7. CASE VctrEarlyFree
  <2>1. PICK v \in Uqids : \E ub \in EarlyFreeArgs(v) : vctr_early_free(v, ub)
    BY <1>7 DEF VctrEarlyFree
  <2>2. v \in vctrs /\ vctrs' = vctrs /\ g_vctr_uqid' = g_vctr_uqid
        /\ \E top : vctr' = [vctr EXCEPT ![v].min_chnk_idx = top]
    BY <2>1 DEF vctr_early_free
  <2>3. PICK top : vctr' = [vctr EXCEPT ![v].min_chnk_idx = top]
    BY <2>2
  <2>4. SameTie(vctr[v], [vctr[v] EXCEPT !.min_chnk_idx = top])
    BY <1>0, <2>2, FieldsTie
  <2> QED BY <2>2, <2>3, <2>4, QuietRow
<1> QED BY <1>1, <1>4, <1>5, <1>6, <1>7 DEF GrowNext

(* Reading and writing leave the ties alone.                               *)
LEMMA AccessTies ==
  ASSUME TypeOK, NnMutual, UqidsGiven, AccessNext
  PROVE  NnMutual' /\ UqidsGiven'
<1>0. \A v \in vctrs : vctr[v] \in VctrVal /\ SameTie(vctr[v], vctr[v])
  BY FieldsTie DEF TypeOK
<1>1. vctrs' = vctrs /\ g_vctr_uqid' = g_vctr_uqid
  BY Zenon DEF AccessNext, VctrGetChunk, ChnkIncrReaders, VctrGetChunkLma, VctrUngetChunk,
     VctrGet1, VctrGetLmaRead, VctrUngetLmaRead, GetLmaWrite, UngetLmaWrite,
     vctr_get_chunk, chnk_incr_num_readers, vctr_get_chunk_lma, vctr_unget_chunk,
     vctr_get1, vctr_get_lma_read, vctr_unget_lma_read, get_lma_write,
     vctr_unget_lma_write, vctrTable
<1>2. ASSUME vctr' = vctr
      PROVE  NnMutual' /\ UqidsGiven'
  BY <1>0, <1>1, <1>2, QuietTies
<1>3. ASSUME NEW v \in vctrs,
             \/ vctr' = [vctr EXCEPT ![v] = get_lma_X_nX(vctr[v])]
             \/ vctr' = [vctr EXCEPT ![v] = unget_lma_X_nX(vctr[v])]
      PROVE  NnMutual' /\ UqidsGiven'
  <2>1. SameTie(vctr[v], get_lma_X_nX(vctr[v])) /\ SameTie(vctr[v], unget_lma_X_nX(vctr[v]))
    BY <1>0, FieldsTie
  <2> QED BY <1>1, <1>3, <2>1, QuietRow
<1>4. CASE VctrGetChunk \/ ChnkIncrReaders
  BY <1>2, <1>4, Zenon DEF VctrGetChunk, ChnkIncrReaders, vctr_get_chunk,
     chnk_incr_num_readers, vctrTable
<1>5. CASE VctrGetChunkLma \/ VctrGetLmaRead \/ VctrUngetLmaRead
  BY <1>3, <1>5, Zenon DEF VctrGetChunkLma, VctrGetLmaRead, VctrUngetLmaRead,
     vctr_get_chunk_lma, vctr_get_lma_read, vctr_unget_lma_read
<1>6. CASE VctrUngetChunk
  BY <1>2, <1>3, <1>6 DEF VctrUngetChunk, vctr_unget_chunk
<1>7. CASE VctrGet1
  BY <1>2, <1>3, <1>7, Zenon DEF VctrGet1, vctr_get1
<1>8. CASE GetLmaWrite
  <2>1. PICK v \in Uqids : get_lma_write(v)
    BY <1>8 DEF GetLmaWrite
  <2> DEFINE y == [vctr[v] EXCEPT !.X = TRUE, !.num_writers = 1]
  <2>2. v \in vctrs /\ (vctr' = vctr \/ vctr' = [vctr EXCEPT ![v] = y])
    BY <2>1 DEF get_lma_write
  <2>3. SameTie(vctr[v], y)
    BY <1>0, <2>2, FieldsTie
  <2> HIDE DEF y
  <2> QED BY <1>1, <1>2, <2>2, <2>3, QuietRow
<1>9. CASE UngetLmaWrite
  <2>1. PICK v \in Uqids : vctr_unget_lma_write(v)
    BY <1>9 DEF UngetLmaWrite
  <2> DEFINE y == [vctr[v] EXCEPT !.num_writers = 0, !.X = FALSE]
  <2>2. v \in vctrs /\ vctr' = [vctr EXCEPT ![v] = y]
    BY <2>1 DEF vctr_unget_lma_write
  <2>3. SameTie(vctr[v], y)
    BY <1>0, <2>2, FieldsTie
  <2> HIDE DEF y
  <2> QED BY <1>1, <2>2, <2>3, QuietRow
<1> QED BY <1>4, <1>5, <1>6, <1>7, <1>8, <1>9 DEF AccessNext

(* So do the operations on copies.                                         *)
LEMMA TierTies ==
  ASSUME TypeOK, NnMutual, UqidsGiven, TierNext
  PROVE  NnMutual' /\ UqidsGiven'
<1>0. \A v \in vctrs : vctr[v] \in VctrVal /\ SameTie(vctr[v], vctr[v])
  BY FieldsTie DEF TypeOK
<1>1. CASE DropL1 \/ DropL2 \/ MakeL1 \/ MakeL2 \/ L1ToL2 \/ Unprefetch \/ LmaToChnks
           \/ SetLmaFails
  <2>1. UNCHANGED vctrTable
    BY <1>1, Zenon
    DEF DropL1, DropL2, MakeL1, MakeL2, L1ToL2, Unprefetch, LmaToChnks, drop_l1,
        drop_l2, make_l1, vctr_make_l2, make_l2, vctr_l1_to_l2, unprefetch,
        vctr_lma_to_chnks, SetLmaFails, set_lma_fails
  <2> QED BY <1>0, <2>1, QuietTies DEF vctrTable
<1>2. CASE DropLma \/ ChnksToLma
  <2>0. PICK v \in vctrs : \E b : /\ vctrs' = vctrs /\ g_vctr_uqid' = g_vctr_uqid
                                     /\ vctr' = [vctr EXCEPT ![v].is_lma = b]
    BY <1>2, Zenon DEF DropLma, ChnksToLma, drop_lma, vctr_chnks_to_lma
  <2>1. PICK b : /\ vctrs' = vctrs /\ g_vctr_uqid' = g_vctr_uqid
                 /\ vctr' = [vctr EXCEPT ![v].is_lma = b]
    BY <2>0
  <2>2. SameTie(vctr[v], [vctr[v] EXCEPT !.is_lma = b])
    BY <1>0, FieldsTie
  <2> QED BY <2>1, <2>2, QuietRow
<1>3. CASE SetLma
  <2>1. PICK v \in Uqids, n \in 1..MaxElems : vctr_set_lma(v, n)
    BY <1>3 DEF SetLma
  <2> DEFINE top == NumChnks(n) - 1
             low == IF vctr[v].memo_len > 0 /\ top + 1 > vctr[v].memo_len
                    THEN top + 1 - vctr[v].memo_len ELSE 0
             y == [vctr[v] EXCEPT !.num_elements = n, !.min_chnk_idx = low,
                     !.max_chnk_idx = top, !.is_eov = TRUE, !.is_lma = TRUE]
  <2>2. /\ v \in vctrs /\ vctrs' = vctrs /\ g_vctr_uqid' = g_vctr_uqid
        /\ vctr' = [vctr EXCEPT ![v] = y]
    BY <2>1, Zenon DEF vctr_set_lma
  <2> HIDE DEF low, top
  <2>3. SameTie(vctr[v], y)
    BY <1>0, <2>2, FieldsTie
  <2> HIDE DEF y
  <2> QED BY <2>2, <2>3, QuietRow
<1>4. CASE Append
  <2>0. PICK v \in vctrs : \E n : /\ vctrs' = vctrs /\ g_vctr_uqid' = g_vctr_uqid
                                     /\ vctr' = [vctr EXCEPT ![v].num_elements = n]
    BY <1>4, Zenon DEF Append, vctr_append
  <2>1. PICK n : /\ vctrs' = vctrs /\ g_vctr_uqid' = g_vctr_uqid
                 /\ vctr' = [vctr EXCEPT ![v].num_elements = n]
    BY <2>0
  <2>2. SameTie(vctr[v], [vctr[v] EXCEPT !.num_elements = n])
    BY <1>0, FieldsTie
  <2> QED BY <2>1, <2>2, QuietRow
<1> QED BY <1>1, <1>2, <1>3, <1>4 DEF TierNext
(* vctr_del() of a vector in table x, which differs from the session's at  *)
(* most in a tie that was undone: the tie to the nn vector is undone       *)
(* first, a vector that has a parent stays, so the row that goes is tied   *)
(* to nothing.                                                             *)
LEMMA VctrDelTies ==
  ASSUME TypeOK, UqidsGiven, NEW x \in [Uqids -> VctrVal], Mutual(vctrs, x),
         NEW v \in vctrs, vctr_del(x, v)
  PROVE  NnMutual' /\ UqidsGiven'
<1> DEFINE y == IF x[v].nn_key # 0 THEN Untied(x, v) ELSE x
           Unlinks == x[v].is_lma /\ ~x[v].is_persist
           b == y[v].is_lma /\ ~Unlinks
<1>0. vctrs \subseteq Uqids /\ v \in Uqids
  BY DEF TypeOK
<1>1. y \in [Uqids -> VctrVal]
  BY <1>0, UntieTypes
<1>2. Mutual(vctrs, y) /\ y[v].nn_key = 0 /\ y[v].parent_key = x[v].parent_key
  <2>1. CASE x[v].nn_key # 0
    <3>1. x[v].parent_key = 0
      BY <2>1 DEF Mutual
    <3> QED BY <1>0, <2>1, <3>1, UntiedMutual
  <2>2. CASE x[v].nn_key = 0
    BY <2>2
  <2> QED BY <2>1, <2>2
<1>3. /\ g_vctr_uqid' = g_vctr_uqid
      /\ \/ vctrs' = vctrs /\ vctr' = y
         \/ /\ x[v].parent_key = 0
            /\ vctrs' = vctrs \ {v} /\ vctr' = [y EXCEPT ![v] = ZeroVctr]
         \/ vctrs' = vctrs /\ vctr' = [y EXCEPT ![v].is_lma = b]
  BY Zenon DEF vctr_del
<1> HIDE DEF y, b
<1>4. UqidsGiven'
  BY <1>3 DEF UqidsGiven
<1>5. CASE vctrs' = vctrs /\ vctr' = y
  BY <1>2, <1>4, <1>5, MutualIsNn
<1>6. CASE /\ x[v].parent_key = 0
           /\ vctrs' = vctrs \ {v} /\ vctr' = [y EXCEPT ![v] = ZeroVctr]
  BY <1>0, <1>1, <1>2, <1>4, <1>6, DropRowMutual, MutualIsNn
<1>7. CASE vctrs' = vctrs /\ vctr' = [y EXCEPT ![v].is_lma = b]
  <2>1. \A u \in vctrs : SameTie(y[u], vctr'[u])
    BY <1>0, <1>1, <1>7 DEF SameTie, VctrVal
  <2> QED BY <1>2, <1>4, <1>7, <2>1, SameTies, MutualIsNn
<1> QED BY <1>3, <1>5, <1>6, <1>7

(* Attributes, ties and deletions.                                         *)
LEMMA LifeTies ==
  ASSUME TypeOK, NnMutual, UqidsGiven, LifeNext
  PROVE  NnMutual' /\ UqidsGiven'
<1>0. /\ vctr \in [Uqids -> VctrVal] /\ vctrs \subseteq Uqids
      /\ Mutual(vctrs, vctr)
  BY MutualIsNn DEF TypeOK
<1>1. CASE VctrPersist \/ VctrSetMemo \/ SetKillable \/ SetFreeable \/ SetError
  <2>1. vctrs' = vctrs /\ g_vctr_uqid' = g_vctr_uqid
    BY <1>1 DEF VctrPersist, VctrSetMemo, SetKillable, SetFreeable, SetError,
       vctr_persist, vctr_set_memo, vctr_set_num_kill_ignore, vctr_set_early_freeable,
       vctr_set_error
  <2>2. \A u \in vctrs : SameTie(vctr[u], vctr'[u])
    <3>1. CASE VctrPersist
      BY <1>0, <3>1 DEF VctrPersist, vctr_persist, SameTie, VctrVal
    <3>2. CASE VctrSetMemo
      BY <1>0, <3>2 DEF VctrSetMemo, vctr_set_memo, SameTie, VctrVal
    <3>3. CASE SetKillable
      BY <1>0, <3>3 DEF SetKillable, vctr_set_num_kill_ignore, SameTie, VctrVal
    <3>4. CASE SetFreeable
      BY <1>0, <3>4 DEF SetFreeable, vctr_set_early_freeable, SameTie, VctrVal
    <3>5. CASE SetError
      BY <1>0, <3>5 DEF SetError, vctr_set_error, SameTie, VctrVal
    <3> QED BY <1>1, <3>1, <3>2, <3>3, <3>4, <3>5
  <2> QED BY <2>1, <2>2, QuietTies
<1>2. CASE SetNnVec
  <2>1. PICK b \in Uqids, n \in Uqids : set_nn_vec(b, n)
    BY <1>2 DEF SetNnVec
  <2>2. Mutual(vctrs, Tied(vctr, b, n))
    BY <1>0, <2>1, TiedMutual DEF set_nn_vec
  <2> QED BY <2>1, <2>2, MutualIsNn DEF set_nn_vec, UqidsGiven
<1>3. CASE AddWithNn
  <2>1. PICK q \in Qtypes, memo \in MemoLens, kills \in {Never} \cup KillIgnores,
             frees \in {Never} \cup FreeIgnores : NewWithNn(q, memo, kills, frees)
    BY <1>3 DEF AddWithNn
  <2> DEFINE b == g_vctr_uqid + 1
             n == g_vctr_uqid + 2
             New(t) == NewVctr(t, memo, kills, frees)
             x == [vctr EXCEPT ![b] = New(q)]
             y == [x EXCEPT ![n] = New("BL")]
  <2>2. /\ {b, n} \subseteq Uqids /\ vctrs' = vctrs \cup {b, n}
        /\ vctr' = Tied([vctr EXCEPT ![b] = New(q), ![n] = New("BL")], b, n)
        /\ g_vctr_uqid' = n
    BY <2>1, Zenon DEF NewWithNn
  <2>3. vctr' = Tied(y, b, n)
    BY <2>2
  <2>4. /\ New(q) \in VctrVal /\ New("BL") \in VctrVal
        /\ New(q).nn_key = 0 /\ New(q).parent_key = 0
        /\ New("BL").nn_key = 0 /\ New("BL").parent_key = 0 /\ New("BL").qtype = "BL"
    <3>1. /\ q \in {"BL", "SC", "I4"} /\ "BL" \in {"BL", "SC", "I4"} /\ memo \in Nat
          /\ kills \in Nat \cup {Never} /\ frees \in Nat \cup {Never}
      BY InputTypes
    <3>2. New(q) \in VctrVal /\ New("BL") \in VctrVal
      BY <3>1, NewVctrType
    <3> QED BY <3>2 DEF NewVctr, ZeroVctr
  <2>5. b # n /\ b \notin vctrs /\ n \notin vctrs /\ UqidsGiven'
    BY <2>2 DEF UqidsGiven, TypeOK, Uqids
  <2> HIDE DEF New, b, n
  <2>6. x \in [Uqids -> VctrVal] /\ Mutual(vctrs \cup {b}, x) /\ x[b] = New(q)
    BY <1>0, <2>2, <2>4, <2>5, NewRowMutual
  <2> HIDE DEF x
  <2>7. /\ y \in [Uqids -> VctrVal] /\ Mutual((vctrs \cup {b}) \cup {n}, y)
        /\ y[n] = New("BL") /\ y[b] = New(q)
    BY <1>0, <2>2, <2>4, <2>5, <2>6, NewRowMutual
  <2> HIDE DEF y
  <2>8. (vctrs \cup {b}) \cup {n} = vctrs'
    BY <2>2
  <2>9. Mutual(vctrs', Tied(y, b, n))
    <3>1. vctrs' \subseteq Uqids /\ b \in vctrs' /\ n \in vctrs'
      BY <1>0, <2>2
    <3> QED BY <2>4, <2>5, <2>7, <2>8, <3>1, TiedMutual
  <2> QED BY <2>3, <2>5, <2>9, MutualIsNn
<1>4. CASE Delete
  BY <1>0, <1>4, VctrDelTies DEF Delete, delete
<1>5. CASE Kill
  <2>1. PICK v \in Uqids : vctr_kill(v)
    BY <1>5 DEF Kill
  <2>2. SameTie(vctr[v], [vctr[v] EXCEPT !.num_kill_ignore = @ - 1])
    BY <1>0, FieldsTie
  <2>3. \/ /\ v \in vctrs /\ vctrs' = vctrs /\ g_vctr_uqid' = g_vctr_uqid
           /\ vctr' = [vctr EXCEPT ![v].num_kill_ignore = @ - 1]
        \/ v \in vctrs /\ vctr_del(vctr, v)
    BY <2>1 DEF vctr_kill
  <2> QED BY <1>0, <2>2, <2>3, QuietRow, VctrDelTies
<1>6. CASE BrkNnVec
  <2>1. PICK b \in Uqids, del_nn \in BOOLEAN : vctr_brk_nn_vec(b, del_nn)
    BY <1>6 DEF BrkNnVec
  <2>2. b \in vctrs /\ vctr[b].nn_key # 0 /\ vctr[b].nn_key \in vctrs
    BY <2>1 DEF vctr_brk_nn_vec
  <2>3. Untied(vctr, b) \in [Uqids -> VctrVal] /\ Mutual(vctrs, Untied(vctr, b))
    BY <1>0, <2>2, UntieTypes, UntiedMutual
  <2>4. \/ vctr_del(Untied(vctr, b), vctr[b].nn_key)
        \/ vctr' = Untied(vctr, b) /\ vctrs' = vctrs /\ g_vctr_uqid' = g_vctr_uqid
    BY <2>1 DEF vctr_brk_nn_vec
  <2>5. CASE vctr_del(Untied(vctr, b), vctr[b].nn_key)
    BY <2>2, <2>3, <2>5, VctrDelTies
  <2>6. CASE vctr' = Untied(vctr, b) /\ vctrs' = vctrs /\ g_vctr_uqid' = g_vctr_uqid
    BY <2>3, <2>6, MutualIsNn DEF UqidsGiven
  <2> QED BY <2>4, <2>5, <2>6
<1> QED BY <1>1, <1>2, <1>3, <1>4, <1>5, <1>6 DEF LifeNext

-----------------------------------------------------------------------------
(* The ties are in order, and no uqid is given out twice.                  *)
LEMMA TiesAndUqids == Spec => [](NnMutual /\ UqidsGiven)
<1>1. Init => NnMutual /\ UqidsGiven
  BY DEF Init, VctrInit, NnMutual, UqidsGiven
<1>2. TypeOK /\ (NnMutual /\ UqidsGiven) /\ [Next]_vars => (NnMutual /\ UqidsGiven)'
  <2> SUFFICES ASSUME TypeOK, NnMutual, UqidsGiven, [Next]_vars
               PROVE  NnMutual' /\ UqidsGiven'
    OBVIOUS
  <2>1. CASE UNCHANGED vars
    <3>1. UNCHANGED <<g_vctr_uqid, vctrs, vctr>>
      BY <2>1 DEF vars, vctrTable
    <3>2. \A v \in vctrs : SameTie(vctr[v], vctr'[v])
      BY <3>1 DEF SameTie
    <3> QED BY <3>1, <3>2, QuietTies
  <2>2. CASE Next
    BY <2>2, GrowTies, AccessTies, TierTies, LifeTies DEF Next
  <2> QED BY <2>1, <2>2
<1> QED BY <1>1, <1>2, VctrTypeOK, PTL DEF Spec

(* A vector and its nn vector name each other, both exist and neither is   *)
(* tied to a third, however they are created, tied by set_nn_vec(), untied *)
(* by vctr_brk_nn_vec() and deleted: the nn_key that vctr_del() and        *)
(* vctr_brk_nn_vec() follow never leads to a vector that is gone, or to    *)
(* another vector under the same uqid.                                     *)
THEOREM VctrNnMutual == Spec => []NnMutual
  BY TiesAndUqids, PTL
=============================================================================
