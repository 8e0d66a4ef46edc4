-------------------------------- MODULE Vctr --------------------------------
(***************************************************************************)
(* The vectors of a Q session: every operation of VctrGrow, VctrAccess,    *)
(* VctrTier and VctrLife, in any order a client may call them, and what    *)
(* must stay true of the two tables, of the files and of the accounts.     *)
(* The operations run on one thread, so each is one step; the client is    *)
(* free to hold chunks and linear files across any number of other calls.  *)
(***************************************************************************)
EXTENDS VctrAccess, VctrTier, VctrLife

Init == VctrInit

GrowNext == VctrAdd \/ VctrPutn \/ VctrPutChunk \/ VctrEov \/ VctrEarlyFree

AccessNext == \/ VctrGetChunk \/ ChnkIncrReaders \/ VctrGetChunkLma
              \/ VctrUngetChunk \/ VctrGet1
              \/ VctrGetLmaRead \/ VctrUngetLmaRead
              \/ GetLmaWrite \/ UngetLmaWrite

TierNext == \/ DropL1 \/ DropL2 \/ DropLma \/ MakeL1 \/ MakeL2 \/ L1ToL2
            \/ Unprefetch \/ ChnksToLma \/ LmaToChnks \/ SetLma \/ SetLmaFails
            \/ Append

LifeNext == \/ VctrPersist \/ VctrSetMemo \/ SetKillable \/ SetFreeable
            \/ SetError \/ SetNnVec \/ AddWithNn \/ Delete \/ Kill \/ BrkNnVec

Next == GrowNext \/ AccessNext \/ TierNext \/ LifeNext

Spec == Init /\ [][Next]_vars

-----------------------------------------------------------------------------
(* Every variable of the session keeps its type: the rows of g_vctr_hmap   *)
(* and g_chnk_hmap have the fields of their structs, no unsigned counter   *)
(* (elements, readers, lives, g_mem_used, g_dsk_used) goes below zero.     *)
TypeOK ==
  /\ g_vctr_uqid \in Nat
  /\ vctrs \subseteq Uqids /\ vctr \in [Uqids -> VctrVal]
  /\ chnks \subseteq Keys /\ chnk \in [Keys -> ChnkVal]
  /\ l2 \in [Keys -> L2File] /\ lma \in [Uqids -> LmaFile]
  /\ mem_used \in Nat /\ dsk_used \in Nat
  /\ held \in [Keys -> Nat] /\ lma_held \in [Uqids -> Nat]
  /\ half_deleted \subseteq Uqids

\* the vectors that no deletion has left without some of its chunks
Live == vctrs \ half_deleted

(* The chunk table holds the chunks min_chnk_idx..max_chnk_idx of every    *)
(* vector, and no chunk besides: what vctrs_chk() counts up.  A chunk that *)
(* memo, early_free or a deletion forgets would never be freed; one they   *)
(* take too many would break every loop over the vector's range.           *)
ChnksMatchVctrs ==
  /\ \A k \in chnks : k[1] \in vctrs
  /\ \A v \in Live : Present(v) = IF vctr[v].num_elements = 0 THEN {} ELSE Idxs(vctr[v])

(* All chunks of a vector but the last are full, and num_elements counts   *)
(* their elements and those of the chunks that are gone: what vctr_chk()   *)
(* says, so that element e is in chunk e / max_num_in_chnk.                *)
ElemsMatchChnks ==
  \A v \in Live : vctr[v].num_elements > 0 =>
    \A i \in Present(v) :
      chnk[<<v, i>>].num_elements =
        IF i < vctr[v].max_chnk_idx THEN MaxNumInChnk
        ELSE vctr[v].num_elements - i * MaxNumInChnk

(* A memoised vector never has more than memo_len chunks, whichever of     *)
(* put1, putn, put_chunk, eov and set_lma made them.                       *)
MemoBound ==
  \A v \in Live : vctr[v].memo_len > 0 => Cardinality(Present(v)) <= vctr[v].memo_len

(* The lives of chunks ascend with their index, so that what early_free    *)
(* deletes is always the oldest stretch and no hole is left in the middle. *)
LivesAscend ==
  \A v \in Live : vctr[v].num_elements > 0 =>
    \A i, j \in Present(v) :
      i <= j => chnk[<<v, i>>].num_free_ignore <= chnk[<<v, j>>].num_free_ignore

(* Access to the linear file: readers or one writer, never both, and the   *)
(* file is mapped exactly while somebody has it (vctr_lma_access.c).       *)
LmaAccess ==
  \A v \in vctrs :
    LET x == vctr[v]
    IN  /\ x.num_writers <= 1
        /\ x.num_writers > 0 => x.num_readers = 0
        /\ x.X <=> (x.num_readers + x.num_writers > 0)

(* While the linear file is being written it is there, and it is the only  *)
(* copy: no operation lets a chunk's L1 or L2 reappear until the writer is *)
(* done.                                                                   *)
WriterHasOnlyCopy ==
  \A v \in Live : vctr[v].num_writers > 0 =>
    /\ vctr[v].is_lma
    /\ \A i \in Present(v) : ~chnk[<<v, i>>].l1_mem /\ ~chnk[<<v, i>>].l2_exists

(* Whichever copy of a chunk a reader is given - L1, L2 or its part of the *)
(* linear file - has the value last put in each of its elements.           *)
CopiesCurrent ==
  \A k \in chnks : k[1] \in Live =>
    /\ chnk[k].l1_mem => Filled(chnk[k]) \subseteq chnk[k].l1_data
    /\ chnk[k].l2_exists => l2[k].file = "full" /\ Filled(chnk[k]) \subseteq l2[k].data
    /\ vctr[k[1]].is_lma => {k[2]} \X Filled(chnk[k]) \subseteq lma[k[1]].data

(* No chunk of a vector is ever without a copy: what drop_mem may drop, at *)
(* each of its levels, depends on what the other two hold.                 *)
DataHeld ==
  \A k \in chnks : k[1] \in Live =>
    chnk[k].l1_mem \/ chnk[k].l2_exists \/ vctr[k[1]].is_lma

\* f[1] + ... + f[n]
SumTo(f, n) == LET sum[i \in 0..n] == IF i = 0 THEN 0 ELSE sum[i - 1] + f[i]
               IN  sum[n]

(* g_mem_used is the memory of the chunks in RAM, across every way a chunk *)
(* gets there or leaves, as long as no quota is hit and no buffer stolen.  *)
MemExact == mem_used = Cardinality({k \in chnks : chnk[k].l1_mem})

(* g_dsk_used is the size of the files on disk, those of vectors deleted   *)
(* after persist() included.                                               *)
DskExact ==
  half_deleted = {} =>
  dsk_used = MaxNumInChnk * Cardinality({k \in Keys : l2[k].file = "full"})
               + SumTo([v \in Uqids |-> lma[v].size], MaxUqid)

(* A chunk that somebody is reading stays in the table, with its elements: *)
(* memo, early_free, delete and kill all have to leave it alone.           *)
ReadersProtect ==
  [][\A k \in chnks : chnk[k].num_readers > 0 =>
       k \in chnks' /\ chnk'[k].num_elements >= chnk[k].num_elements]_vars

(* A vector and its nn vector name each other, both exist, and neither is  *)
(* tied to a third: what vctrs_chk() checks of nn_key and parent_key.      *)
NnMutual ==
  \A v \in vctrs :
    LET x == vctr[v]
    IN  /\ x.nn_key # 0 => x.nn_key \in vctrs /\ vctr[x.nn_key].parent_key = v
        /\ x.parent_key # 0 => /\ x.parent_key \in vctrs
                               /\ vctr[x.parent_key].nn_key = v
                               /\ x.qtype = "BL"
        /\ x.nn_key = 0 \/ x.parent_key = 0

(* Every read of the linear file that a client has yet to give back is     *)
(* counted on the vector: only the count keeps the file mapped under its   *)
(* readers and keeps a writer out.  So test_lma.lua:119 has it, and so it  *)
(* would have to be for vctr_chnks_to_lma() not to need its test of the    *)
(* chunks' readers ("Not needed", vctr_chnks_to_lma.c:95).                 *)
LmaReadersCounted == \A v \in Live : vctr[v].num_readers >= lma_held[v]
=============================================================================
