------------------------------ MODULE VctrTier ------------------------------
(***************************************************************************)
(* The copies of a vector's elements: making and dropping the L1 and L2    *)
(* copies of its chunks, turning chunks into one linear file and back,     *)
(* taking over a file as a vector, and appending to the linear file.       *)
(* Operations on a set S of chunks are vctr_make_mem() and vctr_drop_mem() *)
(* (S is what their loop gets through before an error ends it) and the     *)
(* chunk by chunk forms cVector also offers (S is one chunk).              *)
(***************************************************************************)
EXTENDS VctrBase

Present(v) == {i \in ChnkIdxs : chnk_is(v, i)}

\* the chunk sets a call can name: the whole vector or one chunk, cut short
\* at the first chunk that is not in ok
Named(v, ok) ==
  {Run(vctr[v].min_chnk_idx, vctr[v].max_chnk_idx, ok)}
    \cup {{i} : i \in ok}

\* chunks S of v changed to f(k)
ChnkWith(v, S, f(_)) == [k \in Keys |-> IF k \in KeysOf(v, S) THEN f(k) ELSE chnk[k]]

-----------------------------------------------------------------------------
(* chnk_drop_mem(), level 1: L1 goes if an L2 or the linear file remains.  *)
(* Readers of the chunk are not looked at.                                 *)

DropsL1(v, S) ==
  {i \in S : chnk[<<v, i>>].l1_mem /\ (chnk[<<v, i>>].l2_exists \/ vctr[v].is_lma)}

drop_l1(v, S) ==
  LET D == DropsL1(v, S)
      Without(k) == [chnk[k] EXCEPT !.l1_mem = FALSE, !.l1_data = {}]
  IN  /\ v \in vctrs /\ D # {}
      /\ chnk' = ChnkWith(v, D, Without)
      /\ mem_used' = decr_mem_used(mem_used, Cardinality(D))
      /\ UNCHANGED <<vctrTable, chnks, l2, lma, dsk_used, client>>

(* chnk_drop_mem(), level 2: L2 goes if L1 or the linear file remains.     *)
\* mutant: the last copy of a chunk may go
DropsL2_Last(v, S) == {i \in S : chnk[<<v, i>>].l2_exists}
DropsL2(v, S) ==
  {i \in S : chnk[<<v, i>>].l2_exists /\ (chnk[<<v, i>>].l1_mem \/ vctr[v].is_lma)}

drop_l2(v, S) ==
  LET D == DropsL2(v, S)
      Without(k) == [chnk[k] EXCEPT !.l2_exists = FALSE]
  IN  /\ v \in vctrs /\ D # {}
      /\ chnk' = ChnkWith(v, D, Without)
      /\ l2' = [k \in Keys |-> IF k \in KeysOf(v, D) THEN NoFile ELSE l2[k]]
      /\ dsk_used' = decr_dsk_chnks(dsk_used, Cardinality(D))
      /\ UNCHANGED <<vctrTable, chnks, lma, mem_used, client>>

(* vctr_drop_mem(), level 3: the linear file goes if every chunk has an L1 *)
(* or an L2.  Who is reading the file is not looked at.                    *)
AllMem(v) == \A i \in Idxs(vctr[v]) :
               chnk_is(v, i) /\ (chnk[<<v, i>>].l1_mem \/ chnk[<<v, i>>].l2_exists)

drop_lma(v) ==
  /\ v \in vctrs /\ vctr[v].is_lma /\ AllMem(v)
  /\ vctr' = [vctr EXCEPT ![v].is_lma = FALSE]
  /\ lma' = [lma EXCEPT ![v] = NoLma]
  /\ dsk_used' = decr_dsk_used(dsk_used, lma[v].size)
  /\ UNCHANGED <<g_vctr_uqid, vctrs, chnkTable, l2, mem_used, client>>

-----------------------------------------------------------------------------
(* chnk_make_mem(), level 1: L1 from the chunk's file, if it is one.       *)

CanMakeL1(v) == {i \in Present(v) : chnk[<<v, i>>].l1_mem \/ l2[<<v, i>>].file = "full"}

make_l1(v, S) ==
  LET D == {i \in S : ~chnk[<<v, i>>].l1_mem}
      Loaded(k) == LoadL1(chnk[k], k)
  IN  /\ v \in vctrs /\ D # {}
      /\ chnk' = ChnkWith(v, D, Loaded)
      /\ mem_used' = incr_mem_used(mem_used, Cardinality(D))
      /\ UNCHANGED <<vctrTable, chnks, l2, lma, dsk_used, client>>

\* a chunk whose elements are all there: an L2 made now will not go stale
Finished(v, i) == vctr[v].is_eov \/ chnk[<<v, i>>].num_elements = MaxNumInChnk
MayBackUp(v, S) == EarlyBackup \/ \A i \in S : Finished(v, i)

\* the chunks S of v written to files of their own
WriteL2(v, S) ==
  LET Backed(k) == [chnk[k] EXCEPT !.l2_exists = TRUE]
  IN  /\ chnk' = ChnkWith(v, S, Backed)
      /\ dsk_used' = incr_dsk_chnks(dsk_used, Cardinality(S))
L2With(v, S) == [k \in Keys |-> IF k \in KeysOf(v, S)
                               THEN [file |-> "full", data |-> chnk[k].l1_data]
                               ELSE l2[k]]

(* chnk_make_mem(), level 2: an L2 copy of the L1.  A chunk that has no L1 *)
(* either (its elements are only in the linear file) is handed to fwrite() *)
(* as a NULL pointer: the call fails and leaves an empty file.             *)
CanMakeL2(v) == {i \in Present(v) : chnk[<<v, i>>].l1_mem \/ chnk[<<v, i>>].l2_exists}

\* S is what the call backs up, Null the chunk, if any, it fails at
make_l2(v, S, Null) ==
  LET D == {i \in S : ~chnk[<<v, i>>].l2_exists}
      New == L2With(v, D)
  IN  /\ v \in vctrs /\ D \cup Null # {} /\ MayBackUp(v, D)
      /\ WriteL2(v, D)
      /\ l2' = [k \in Keys |-> IF k \in KeysOf(v, Null)
                               THEN [file |-> "empty", data |-> {}] ELSE New[k]]
      /\ UNCHANGED <<vctrTable, chnks, lma, mem_used, client>>

NoL1L2(v) == Present(v) \ CanMakeL2(v)

vctr_make_l2(v) ==
  LET S == Run(vctr[v].min_chnk_idx, vctr[v].max_chnk_idx, CanMakeL2(v))
  IN  make_l2(v, S, {i \in Idxs(vctr[v]) \cap NoL1L2(v) :
                       vctr[v].min_chnk_idx .. (i - 1) \subseteq S})

(* vctr_l1_to_l2(): as level 2, but a file of that name, even an empty one,*)
(* is taken to be the backup.                                              *)
CanL1ToL2(v) == {i \in Present(v) : chnk[<<v, i>>].l1_mem \/ l2[<<v, i>>].file # "none"}

vctr_l1_to_l2(v) ==
  LET S == Run(vctr[v].min_chnk_idx, vctr[v].max_chnk_idx, CanL1ToL2(v))
      D == {i \in S : l2[<<v, i>>].file = "none"}
  IN  /\ v \in vctrs /\ D # {} /\ MayBackUp(v, D)
      /\ WriteL2(v, D) /\ l2' = L2With(v, D)
      /\ UNCHANGED <<vctrTable, chnks, lma, mem_used, client>>

(* chnk_unget_data(), cVector's unprefetch: out of RAM, through a new file *)
(* if there is none yet.                                                   *)
unprefetch(v, i) ==
  LET k == <<v, i>>
      D == IF chnk[k].l2_exists THEN {} ELSE {i}
  IN  /\ chnk_is(v, i) /\ chnk[k].l1_mem /\ MayBackUp(v, D)
      /\ chnk' = [chnk EXCEPT ![k].l1_mem = FALSE, ![k].l1_data = {},
                              ![k].l2_exists = TRUE]
      /\ l2' = L2With(v, D)
      /\ mem_used' = decr_mem_used(mem_used, 1)
      /\ dsk_used' = incr_dsk_chnks(dsk_used, Cardinality(D))
      /\ UNCHANGED <<vctrTable, chnks, lma, client>>

-----------------------------------------------------------------------------
(* vctr_chnks_to_lma(): the linear file of a finished vector, from the L1  *)
(* or else the L2 of each chunk.  If some chunk has neither, the call      *)
(* fails with the file made and counted.  Readers of chunks may go on.     *)

FillsLma(v) == {i \in Present(v) : chnk[<<v, i>>].l1_mem \/ chnk[<<v, i>>].l2_exists}

\* mutant: a chunk that is only on disk is not looked up there
Given_L1(v, i) == chnk[<<v, i>>].l1_data \cap Filled(chnk[<<v, i>>])
\* what chunk i has to give, L1 first
Given(v, i) ==
  LET k == <<v, i>>
  IN  (IF chnk[k].l1_mem THEN chnk[k].l1_data ELSE l2[k].data) \cap Filled(chnk[k])

vctr_chnks_to_lma(v) ==
  LET x == vctr[v]
      all == 0..x.max_chnk_idx
      S == Run(0, x.max_chnk_idx, FillsLma(v))
  IN  /\ v \in vctrs /\ ~x.is_lma /\ x.is_eov
      /\ x.memo_len = 0 /\ ~x.is_early_freeable /\ ~x.is_killable
      /\ x.num_elements > 0
      /\ x.num_readers = 0 /\ x.num_writers = 0 /\ ~x.X
      /\ dsk_used + x.num_elements <= DskAllowed
      /\ dsk_used' = incr_dsk_used(dsk_used, x.num_elements)
      /\ lma' = [lma EXCEPT ![v] =
                   [size |-> x.num_elements,
                    data |-> {p \in ChnkIdxs \X Slots :
                                p[1] \in S /\ p[2] \in Given(v, p[1])}]]
      /\ vctr' = [vctr EXCEPT ![v].is_lma = (S = all)]
      /\ UNCHANGED <<g_vctr_uqid, vctrs, chnkTable, l2, mem_used, client>>

(* vctr_lma_to_chnks(): every chunk gets an L1, from its L2 if it has one, *)
(* or else (level 1) from the linear file; with level 2 it gets an L2 from *)
(* the linear file instead.                                                *)
FromLma(v, i) == {s \in Filled(chnk[<<v, i>>]) : <<i, s>> \in lma[v].data}

NumChnks(n) == (n + MaxNumInChnk - 1) \div MaxNumInChnk

vctr_lma_to_chnks(v, level) ==
  LET x == vctr[v]
      S == Run(0, NumChnks(x.num_elements) - 1, Present(v))
      L1 == {i \in S : ~chnk[<<v, i>>].l1_mem
                        /\ (chnk[<<v, i>>].l2_exists \/ level = 1)}
      L2 == {i \in S : ~chnk[<<v, i>>].l1_mem
                        /\ ~chnk[<<v, i>>].l2_exists /\ level = 2}
  IN  /\ v \in vctrs /\ x.is_lma /\ x.is_eov
      /\ ~x.is_killable /\ ~x.is_early_freeable /\ x.memo_len = 0
      /\ x.num_readers = 0 /\ x.num_writers = 0
      /\ L1 \cup L2 # {}
      /\ chnk' = [k \in Keys |->
                    IF k \in KeysOf(v, L1)
                    THEN IF chnk[k].l2_exists THEN LoadL1(chnk[k], k)
                         ELSE [chnk[k] EXCEPT !.l1_mem = TRUE,
                                              !.l1_data = FromLma(v, k[2])]
                    ELSE IF k \in KeysOf(v, L2)
                    THEN [chnk[k] EXCEPT !.l2_exists = TRUE]
                    ELSE chnk[k]]
      /\ l2' = [k \in Keys |->
                  IF k \in KeysOf(v, L2)
                  THEN [file |-> "full", data |-> FromLma(v, k[2])] ELSE l2[k]]
      /\ mem_used' = incr_mem_used(mem_used, Cardinality(L1))
      /\ dsk_used' = incr_dsk_chnks(dsk_used, Cardinality(L2))
      /\ UNCHANGED <<vctrTable, chnks, lma, client>>

(* vctr_set_lma(): a file becomes the linear file of an empty vector,      *)
(* which is then at its end.  n is how many elements are in the file: the  *)
(* client says so, or 0, and a client that says more is not modelled.  The *)
(* chunks are put with no data; memo applies to them as to any put.        *)
vctr_set_lma(v, n) ==
  LET x == vctr[v]
      top == NumChnks(n) - 1
      low == IF x.memo_len > 0 /\ top + 1 > x.memo_len THEN top + 1 - x.memo_len ELSE 0
      Made(i) == [ZeroChnk EXCEPT
                    !.num_elements = IF i < top THEN MaxNumInChnk
                                     ELSE n - top * MaxNumInChnk,
                    !.num_free_ignore =
                       IF x.is_early_freeable THEN x.num_free_ignore ELSE 0]
  IN  /\ v \in vctrs /\ x.num_elements = 0
      /\ ~x.is_lma /\ ~x.X /\ x.num_readers = 0 /\ x.num_writers = 0
      /\ dsk_used + n <= DskAllowed
      /\ dsk_used' = incr_dsk_used(dsk_used, n)
      /\ lma' = [lma EXCEPT ![v] =
                   [size |-> n,
                    data |-> {p \in ChnkIdxs \X Slots : p[1] * MaxNumInChnk + p[2] < n}]]
      /\ chnks' = chnks \cup KeysOf(v, low..top)
      /\ chnk' = [k \in Keys |-> IF k \in KeysOf(v, low..top) THEN Made(k[2]) ELSE chnk[k]]
      /\ vctr' = [vctr EXCEPT ![v] =
                    [x EXCEPT !.num_elements = n, !.min_chnk_idx = low,
                       !.max_chnk_idx = top, !.is_eov = TRUE, !.is_lma = TRUE]]
      /\ UNCHANGED <<g_vctr_uqid, vctrs, l2, mem_used, client>>

(* vctr_set_lma() failing at the file, once the disk is counted: it cannot *)
(* be renamed or, renamed, is not what the client says, and stays.         *)
set_lma_fails(v, n) ==
  LET x == vctr[v]
  IN  /\ v \in vctrs /\ x.num_elements = 0
      /\ ~x.is_lma /\ ~x.X /\ x.num_readers = 0 /\ x.num_writers = 0
      /\ dsk_used + n <= DskAllowed
      /\ dsk_used' = incr_dsk_used(dsk_used, n)
      /\ lma' \in {lma, [lma EXCEPT ![v] = [size |-> n, data |-> {}]]}
      /\ UNCHANGED <<vctrTable, chnkTable, l2, mem_used, client>>

(* vctr_append(): the elements of s go to the end of d's linear file; d's  *)
(* chunks, and max_chnk_idx, stay as they are.                             *)
vctr_append(d, s) ==
  LET n == vctr[d].num_elements
      m == vctr[s].num_elements
      Ready(v) == /\ v \in vctrs /\ vctr[v].is_eov /\ vctr[v].is_lma
                  /\ vctr[v].num_readers = 0 /\ vctr[v].num_writers = 0
  IN  /\ Ready(d) /\ Ready(s)
      /\ vctr[d].qtype = vctr[s].qtype /\ m > 0
      /\ n + m <= MaxElems
      /\ vctr' = [vctr EXCEPT ![d].num_elements = n + m]
      /\ lma' = [lma EXCEPT ![d] =
                   [size |-> @.size + lma[s].size,
                    data |-> @.data \cup
                      {p \in ChnkIdxs \X Slots :
                         p[1] * MaxNumInChnk + p[2] \in @.size .. (@.size + m - 1)}]]
      /\ dsk_used' = incr_dsk_used(dsk_used, lma[s].size)
      /\ UNCHANGED <<g_vctr_uqid, vctrs, chnkTable, l2, mem_used, client>>

-----------------------------------------------------------------------------
DropL1  == \E v \in Uqids : \E S \in Named(v, Present(v)) : drop_l1(v, S)
DropL2  == \E v \in Uqids : \E S \in Named(v, Present(v)) : drop_l2(v, S)
DropLma == \E v \in Uqids : drop_lma(v)
MakeL1  == \E v \in Uqids : \E S \in Named(v, CanMakeL1(v)) : make_l1(v, S)
MakeL2  == \E v \in Uqids :
             \/ vctr_make_l2(v)
             \/ \E i \in CanMakeL2(v) : make_l2(v, {i}, {})
             \/ \E i \in NoL1L2(v) : make_l2(v, {}, {i})
L1ToL2      == \E v \in Uqids : vctr_l1_to_l2(v)
Unprefetch  == \E v \in Uqids, i \in ChnkIdxs : unprefetch(v, i)
ChnksToLma  == \E v \in Uqids : vctr_chnks_to_lma(v)
LmaToChnks  == \E v \in Uqids, level \in 1..2 : vctr_lma_to_chnks(v, level)
SetLma      == \E v \in Uqids, n \in 1..MaxElems : vctr_set_lma(v, n)
SetLmaFails == FilesFail /\ \E v \in Uqids, n \in 1..MaxElems : set_lma_fails(v, n)
Append      == \E d, s \in Uqids : vctr_append(d, s)
=============================================================================
