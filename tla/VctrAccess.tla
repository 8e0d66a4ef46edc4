----------------------------- MODULE VctrAccess -----------------------------
(***************************************************************************)
(* How a vector is read, a chunk at a time, an element at a time or as one *)
(* linear stretch of memory, and how the linear file is written.  Readers  *)
(* of a chunk are counted on the chunk, unless the vector has a linear     *)
(* file: then they are counted on the vector, and share one mapping X.     *)
(***************************************************************************)
EXTENDS VctrBase

(* chnk_get_data() counts the reader first; without L1 and L2 there is     *)
(* nothing to give and the count stays up.                                 *)
chnk_get_data(k) ==
  LET c == [chnk[k] EXCEPT !.num_readers = @ + 1]
  IN  IF chnk[k].l1_mem \/ ~chnk[k].l2_exists THEN c ELSE LoadL1(c, k)

\* mutant: memory taken to bring a chunk back from its file is not counted
LoadsL1_Uncounted(k) == FALSE
\* whether chnk_get_data() adds to mem_used
LoadsL1(k) == ~chnk[k].l1_mem /\ chnk[k].l2_exists

(* vctr_get_chunk() of a vector with no linear file.                       *)
vctr_get_chunk(v, i) ==
  LET k == <<v, i>>
  IN  /\ v \in vctrs /\ ~vctr[v].is_lma /\ chnk_is(v, i)
      /\ chnk[k].num_readers < MaxReaders
      /\ chnk' = [chnk EXCEPT ![k] = chnk_get_data(k)]
      /\ mem_used' = IF LoadsL1(k) THEN incr_mem_used(mem_used, 1) ELSE mem_used
      /\ held' = IF chnk_get_data(k).l1_mem THEN [held EXCEPT ![k] = @ + 1] ELSE held
      /\ UNCHANGED <<vctrTable, chnks, l2, lma, dsk_used, lma_held, half_deleted>>

(* lVector:get_chunk() takes a reader on a chunk it has just generated.    *)
chnk_incr_num_readers(v, i) ==
  LET k == <<v, i>>
  IN  /\ v \in vctrs /\ ~vctr[v].is_lma /\ chnk_is(v, i) /\ chnk[k].l1_mem
      /\ chnk[k].num_readers < MaxReaders
      /\ chnk' = [chnk EXCEPT ![k].num_readers = @ + 1]
      /\ held' = [held EXCEPT ![k] = @ + 1]
      /\ UNCHANGED <<vctrTable, chnks, l2, lma, usage, lma_held, half_deleted>>

\* vctr_get_lma_X_nX(): the first reader maps the file
get_lma_X_nX(x) == [x EXCEPT !.X = TRUE, !.num_readers = @ + 1]
\* vctr_unget_lma_X_nX(): the last one unmaps it
unget_lma_X_nX(x) ==
  [x EXCEPT !.num_readers = @ - 1, !.X = (x.num_readers > 1)]

(* vctr_get_chunk_lma().  Past the end of the file it fails after the      *)
(* reader is counted; at the end exactly, it succeeds with no elements. In *)
(* both cases the caller, who is given none, takes it that there is        *)
(* nothing to give back.                                                   *)
vctr_get_chunk_lma(v, i) ==
  LET x == vctr[v]
  IN  /\ v \in vctrs /\ x.is_lma /\ x.num_writers = 0
      /\ x.num_readers < MaxReaders
      /\ vctr' = [vctr EXCEPT ![v] = get_lma_X_nX(x)]
      /\ held' = IF i * MaxNumInChnk < lma[v].size
                 THEN [held EXCEPT ![<<v, i>>] = @ + 1] ELSE held
      /\ UNCHANGED <<g_vctr_uqid, vctrs, chnkTable, l2, lma, usage, lma_held, half_deleted>>

\* the chunks a client asks of a vector with a linear file: its loop goes on
\* until it is given no elements
AskedLma(v) == {i \in 0..MaxChnks : (i - 1) * MaxNumInChnk < lma[v].size}

(* vctr_unget_chunk() of a chunk the client holds.                         *)
\* mutant: that there is a reader is not checked
vctr_unget_chunk_Unchecked(v, i) ==
  /\ v \in vctrs /\ held[<<v, i>>] > 0
  /\ held' = [held EXCEPT ![<<v, i>>] = @ - 1]
  /\ IF vctr[v].is_lma
     THEN vctr' = [vctr EXCEPT ![v] = unget_lma_X_nX(@)] /\ chnk' = chnk
     ELSE vctr' = vctr /\ chnk' = [chnk EXCEPT ![<<v, i>>].num_readers = @ - 1]
  /\ UNCHANGED <<g_vctr_uqid, vctrs, chnks, l2, lma, usage, lma_held, half_deleted>>
vctr_unget_chunk(v, i) ==
  LET k == <<v, i>>
  IN  /\ v \in vctrs /\ held[k] > 0
      /\ held' = [held EXCEPT ![k] = @ - 1]
      /\ IF vctr[v].is_lma
         THEN /\ vctr[v].num_readers > 0
              /\ vctr' = [vctr EXCEPT ![v] = unget_lma_X_nX(@)]
              /\ chnk' = chnk
         ELSE /\ chnk_is(v, i) /\ chnk[k].num_readers > 0
              /\ chnk' = [chnk EXCEPT ![k].num_readers = @ - 1]
              /\ vctr' = vctr
      /\ UNCHANGED <<g_vctr_uqid, vctrs, chnks, l2, lma, usage, lma_held, half_deleted>>

(* vctr_get1() of an element of chunk i: the reader it takes it gives back,*)
(* except when chnk_get_data() has no data, and, on a linear file, when    *)
(* the qtype is one vctr_get1_lma() does not know how to read.             *)
vctr_get1(v, i) ==
  LET x == vctr[v]
      k == <<v, i>>
      c == chnk_get_data(k)
  IN  /\ v \in vctrs /\ i * MaxNumInChnk < x.num_elements
      /\ IF x.is_lma
         THEN /\ x.num_writers = 0 /\ x.qtype = "SC"
              /\ x.num_readers < MaxReaders
              /\ vctr' = [vctr EXCEPT ![v] = get_lma_X_nX(x)]
              /\ UNCHANGED <<chnk, mem_used>>
         ELSE /\ chnk_is(v, i)
              /\ c.l1_mem \/ chnk[k].num_readers < MaxReaders
              /\ chnk' = [chnk EXCEPT ![k] =
                            IF c.l1_mem THEN [c EXCEPT !.num_readers = @ - 1] ELSE c]
              /\ mem_used' = IF LoadsL1(k) THEN incr_mem_used(mem_used, 1)
                             ELSE mem_used
              /\ UNCHANGED vctr
      /\ UNCHANGED <<g_vctr_uqid, vctrs, chnks, l2, lma, dsk_used, client>>

-----------------------------------------------------------------------------
(* The linear file as one stretch of memory: vctr_get_lma_read() and its   *)
(* three companions.                                                       *)

vctr_get_lma_read(v) ==
  LET x == vctr[v]
  IN  /\ v \in vctrs /\ x.is_lma /\ x.num_writers = 0
      /\ x.num_readers < MaxReaders
      /\ vctr' = [vctr EXCEPT ![v] = get_lma_X_nX(x)]
      /\ lma_held' = [lma_held EXCEPT ![v] = @ + 1]
      /\ UNCHANGED <<g_vctr_uqid, vctrs, chnkTable, l2, lma, usage, held, half_deleted>>

\* mutant: the file is unmapped whoever else is reading it
vctr_unget_lma_read_Unmap(v) ==
  /\ v \in vctrs /\ lma_held[v] > 0 /\ vctr[v].is_lma /\ vctr[v].num_writers = 0
  /\ vctr' = [vctr EXCEPT ![v].num_readers = @ - 1, ![v].X = FALSE]
  /\ lma_held' = [lma_held EXCEPT ![v] = @ - 1]
  /\ UNCHANGED <<g_vctr_uqid, vctrs, chnkTable, l2, lma, usage, held, half_deleted>>
vctr_unget_lma_read(v) ==
  LET x == vctr[v]
  IN  /\ v \in vctrs /\ lma_held[v] > 0
      /\ x.is_lma /\ x.num_writers = 0 /\ x.num_readers > 0 /\ x.X
      /\ vctr' = [vctr EXCEPT ![v] = unget_lma_X_nX(x)]
      /\ lma_held' = [lma_held EXCEPT ![v] = @ - 1]
      /\ UNCHANGED <<g_vctr_uqid, vctrs, chnkTable, l2, lma, usage, held, half_deleted>>

\* the chunks a vctr_drop_mem() of level 1 or 2 gets to: up to a missing one
\* mutant: the loop ends before the last chunk
DropRun_ButLast(v) == Run(vctr[v].min_chnk_idx, vctr[v].max_chnk_idx - 1,
                          {i \in ChnkIdxs : chnk_is(v, i)})
DropRun(v) == Run(vctr[v].min_chnk_idx, vctr[v].max_chnk_idx,
                  {i \in ChnkIdxs : chnk_is(v, i)})

(* lVector:get_lma_write(): vctr_get_lma_write() and, since chunks will no *)
(* longer be consistent with the file, drop_mem(1) and drop_mem(2), which  *)
(* the presence of the linear file lets drop every L1 and L2.              *)
get_lma_write(v) ==
  LET x == vctr[v]
      S == DropRun(v)
      L1 == {i \in S : chnk[<<v, i>>].l1_mem}
      L2 == {i \in S : chnk[<<v, i>>].l2_exists}
  IN  /\ v \in vctrs /\ x.is_lma /\ x.num_writers = 0 /\ x.num_readers = 0
      /\ vctr' = IF x.X THEN vctr
                 ELSE [vctr EXCEPT ![v].X = TRUE, ![v].num_writers = 1]
      /\ chnk' = [k \in Keys |->
                    IF k \in KeysOf(v, S)
                    THEN [chnk[k] EXCEPT !.l1_mem = FALSE, !.l1_data = {},
                                         !.l2_exists = FALSE]
                    ELSE chnk[k]]
      /\ l2' = [k \in Keys |-> IF k \in KeysOf(v, L2) THEN NoFile ELSE l2[k]]
      /\ mem_used' = decr_mem_used(mem_used, Cardinality(L1))
      /\ dsk_used' = decr_dsk_chnks(dsk_used, Cardinality(L2))
      /\ UNCHANGED <<g_vctr_uqid, vctrs, chnks, lma, client>>

(* vctr_unget_lma_write().  By now the client has written what it wanted:  *)
(* the linear file is current and any other copy of its elements is not.   *)
vctr_unget_lma_write(v) ==
  LET x == vctr[v]
  IN  /\ v \in vctrs /\ x.is_lma /\ x.num_writers = 1 /\ x.num_readers = 0 /\ x.X
      /\ vctr' = [vctr EXCEPT ![v].num_writers = 0, ![v].X = FALSE]
      /\ chnk' = [k \in Keys |-> IF k[1] = v THEN [chnk[k] EXCEPT !.l1_data = {}]
                                ELSE chnk[k]]
      /\ l2' = [k \in Keys |-> IF k[1] = v THEN [l2[k] EXCEPT !.data = {}] ELSE l2[k]]
      /\ UNCHANGED <<g_vctr_uqid, vctrs, chnks, lma, usage, client>>

-----------------------------------------------------------------------------
VctrGetChunk     == \E v \in Uqids, i \in ChnkIdxs : vctr_get_chunk(v, i)
ChnkIncrReaders  == \E v \in Uqids, i \in ChnkIdxs : chnk_incr_num_readers(v, i)
VctrGetChunkLma  == \E v \in Uqids : \E i \in AskedLma(v) : vctr_get_chunk_lma(v, i)
VctrUngetChunk   == \E v \in Uqids, i \in ChnkIdxs : vctr_unget_chunk(v, i)
VctrGet1         == \E v \in Uqids, i \in ChnkIdxs : vctr_get1(v, i)
VctrGetLmaRead   == \E v \in Uqids : vctr_get_lma_read(v)
VctrUngetLmaRead == \E v \in Uqids : vctr_unget_lma_read(v)
GetLmaWrite      == \E v \in Uqids : get_lma_write(v)
UngetLmaWrite    == \E v \in Uqids : vctr_unget_lma_write(v)
=============================================================================
