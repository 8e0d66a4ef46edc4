--------------------------- MODULE VctrCopyProofs ---------------------------
(***************************************************************************)
(* Proofs about the copies of a vector's elements, for any number of       *)
(* vectors, chunks, elements and readers, with memo and early free: while  *)
(* the linear file is written it is the only copy, no chunk is ever        *)
(* without a copy, and no chunk that has readers leaves the table.  Then   *)
(* what the copies hold: every one has the value last put in each of its   *)
(* elements, provided no chunk is backed up before it is full.             *)
(***************************************************************************)
EXTENDS VctrProofs

-----------------------------------------------------------------------------
(* The inductive invariant.  A uqid is never reused, and within a vector   *)
(* no chunk index is: this is what keeps a new chunk from landing on an    *)
(* old one, or on a file an old one left behind.                           *)

\* the vector has been given elements up to and including those of chunk k
Reached(k) ==
  /\ k[1] <= g_vctr_uqid
  /\ k[1] \in vctrs => /\ vctr[k[1]].num_elements > 0
                       /\ k[2] <= vctr[k[1]].max_chnk_idx

KeysReached == \A k \in Keys : k \in chnks \/ l2[k].file # "none" => Reached(k)

\* a chunk's row knows of its file, unless that is an empty one
FilesKnown == \A k \in chnks : chnk[k].l2_exists <=> l2[k].file = "full"

RowOk(x) ==
  /\ x.num_elements > 0 /\ ~x.is_eov =>
       x.max_chnk_idx = (x.num_elements - 1) \div MaxNumInChnk
  /\ x.memo_len = 0 /\ ~x.is_early_freeable => x.min_chnk_idx = 0
  /\ x.is_lma => /\ x.is_eov /\ x.num_elements > 0
                 /\ x.min_chnk_idx <= x.max_chnk_idx

RowsOk == \A v \in vctrs : RowOk(vctr[v])

\* a vector with a linear file has all the chunks its row speaks of, no more
LmaWhole == \A v \in Live : vctr[v].is_lma => Present(v) = Idxs(vctr[v])

CopyInv ==
  KeysReached /\ FilesKnown /\ RowsOk /\ LmaWhole /\ WriterHasOnlyCopy /\ DataHeld

-----------------------------------------------------------------------------
(* Keys, and sets of them.                                                 *)

(* A key is its uqid and its chunk index.                                  *)
LEMMA KeyParts ==
  /\ \A k \in Keys : k[1] \in Uqids /\ k[2] \in ChnkIdxs /\ k = <<k[1], k[2]>>
  /\ \A v \in Uqids, i \in ChnkIdxs : <<v, i>> \in Keys
  BY DEF Keys

(* The keys of the chunks S of v.                                          *)
LEMMA KeyInKeysOf ==
  ASSUME NEW k \in Keys, NEW v, NEW S
  PROVE  k \in KeysOf(v, S) <=> k[1] = v /\ k[2] \in S
  BY KeyParts DEF KeysOf, Keys

(* chnk_del() leaves the chunks, and the files, it is not asked for alone. *)
LEMMA DelLeaves ==
  ASSUME TypeOK, NEW c \in [Keys -> ChnkVal], NEW v \in Uqids, NEW D, D \subseteq ChnkIdxs,
         NEW p, NEW k \in Keys
  PROVE  /\ ~(k[1] = v /\ k[2] \in D) => /\ ChnkAfterDel(c, v, D)[k] = c[k]
                                         /\ L2AfterDel(c, v, D, p)[k] = l2[k]
         /\ L2AfterDel(c, v, D, p)[k] \in {l2[k], NoFile}
         /\ ChnkAfterDel(c, v, D)[k] \in {c[k], ZeroChnk}
<1>1. k \in KeysOf(v, D) <=> k[1] = v /\ k[2] \in D
  BY KeyInKeysOf
<1>2. k \in KeysOf(v, WithL2(c, v, D)) => k \in KeysOf(v, D)
  <2>1. WithL2(c, v, D) \subseteq D
    BY DEF WithL2
  <2>2. k \in KeysOf(v, WithL2(c, v, D)) <=> k[1] = v /\ k[2] \in WithL2(c, v, D)
    BY KeyInKeysOf
  <2> QED BY <1>1, <2>1, <2>2
<1>3. ChnkAfterDel(c, v, D)[k] = IF k \in KeysOf(v, D) THEN ZeroChnk ELSE c[k]
  BY DEF ChnkAfterDel
<1>4. L2AfterDel(c, v, D, p)[k] =
        IF p THEN l2[k]
        ELSE IF k \in KeysOf(v, WithL2(c, v, D)) THEN NoFile ELSE l2[k]
  BY DEF L2AfterDel
<1> QED BY <1>1, <1>2, <1>3, <1>4

-----------------------------------------------------------------------------
(* Steps that touch no copy, and steps that touch only copies.             *)

\* the lives a new chunk of a vector with row x is given
FreshLives(x) == IF x.is_early_freeable THEN x.num_free_ignore ELSE 0

\* memo_len is changed on an empty vector only, and lives are given only once
KeepsRange(x, y) ==
  /\ y.num_elements = 0 \/ y.memo_len = x.memo_len
  /\ FreshLives(y) = FreshLives(x) \/ FreshLives(x) = 0

\* the fields CopyInv looks at; a memo or free attribute may be added, and a
\* writer may leave
Keeps(x, y) ==
  /\ KeepsRange(x, y)
  /\ y.num_elements = x.num_elements /\ y.min_chnk_idx = x.min_chnk_idx
  /\ y.max_chnk_idx = x.max_chnk_idx /\ y.is_eov = x.is_eov
  /\ y.is_lma = x.is_lma
  /\ y.num_writers = x.num_writers \/ y.num_writers = 0
  /\ y.memo_len = 0 /\ ~y.is_early_freeable => x.memo_len = 0 /\ ~x.is_early_freeable

\* vctrs, and of their rows the fields above, are as before
SameTable ==
  /\ g_vctr_uqid' = g_vctr_uqid /\ vctrs' = vctrs /\ half_deleted' = half_deleted
  /\ chnks' = chnks
  /\ \A v \in vctrs : Keeps(vctr[v], vctr'[v])

\* what a step that changes copies has to see to, for one chunk
CopyStep(k) ==
  /\ k \in chnks => (chnk'[k].l2_exists <=> l2'[k].file = "full")
  /\ l2'[k].file # "none" => k \in chnks \/ l2[k].file # "none"
  /\ k \in chnks /\ k[1] \in Live =>
       /\ chnk'[k].l1_mem \/ chnk'[k].l2_exists \/ vctr[k[1]].is_lma
       /\ vctr[k[1]].num_writers > 0 => ~chnk'[k].l1_mem /\ ~chnk'[k].l2_exists

(* Whatever a step does to the copies, CopyInv is kept if CopyStep holds   *)
(* of every chunk and the vectors are left alone.                          *)
LEMMA CopiesKept ==
  ASSUME TypeOK, CopyInv, SameTable, \A k \in Keys : CopyStep(k)
  PROVE  CopyInv'
<1>0. /\ vctrs' = vctrs /\ Live' = Live /\ chnks' = chnks /\ g_vctr_uqid' = g_vctr_uqid
      /\ Live \subseteq vctrs /\ chnks \subseteq Keys /\ vctrs \subseteq Uqids
      /\ \A v : Present(v)' = Present(v)
  BY DEF SameTable, Live, TypeOK, Present, chnk_is
<1>1. KeysReached'
  <2> SUFFICES ASSUME NEW k \in Keys, k \in chnks \/ l2'[k].file # "none"
               PROVE  Reached(k)'
    BY <1>0 DEF KeysReached
  <2>1. Reached(k)
    BY DEF CopyInv, KeysReached, CopyStep
  <2> QED BY <2>1 DEF Reached, SameTable, Keeps
<1>2. FilesKnown'
  BY <1>0 DEF FilesKnown, CopyStep
<1>3. RowsOk'
  BY <1>0 DEF RowsOk, RowOk, CopyInv, SameTable, Keeps
<1>4. LmaWhole'
  BY <1>0 DEF LmaWhole, Idxs, CopyInv, SameTable, Keeps
<1>5. WriterHasOnlyCopy'
  <2> SUFFICES ASSUME NEW v \in Live, vctr'[v].num_writers > 0
               PROVE  /\ vctr'[v].is_lma
                      /\ \A i \in Present(v) :
                           ~chnk'[<<v, i>>].l1_mem /\ ~chnk'[<<v, i>>].l2_exists
    BY <1>0 DEF WriterHasOnlyCopy
  <2>1. vctr[v].num_writers > 0 /\ v \in vctrs
    BY <1>0 DEF SameTable, Keeps
  <2>2. vctr'[v].is_lma
    BY <1>0, <2>1 DEF WriterHasOnlyCopy, CopyInv, SameTable, Keeps
  <2>3. ASSUME NEW i \in Present(v)
        PROVE  ~chnk'[<<v, i>>].l1_mem /\ ~chnk'[<<v, i>>].l2_exists
    <3> DEFINE k == <<v, i>>
    <3>1. k \in chnks /\ k \in Keys /\ k[1] = v
      BY <1>0 DEF Present, chnk_is
    <3>2. CopyStep(k)
      BY <3>1
    <3> QED BY <2>1, <3>1, <3>2 DEF CopyStep
  <2> QED BY <2>2, <2>3
<1>6. DataHeld'
  <2> SUFFICES ASSUME NEW k \in chnks, k[1] \in Live
               PROVE  chnk'[k].l1_mem \/ chnk'[k].l2_exists \/ vctr'[k[1]].is_lma
    BY <1>0 DEF DataHeld
  <2>1. CopyStep(k) /\ vctr'[k[1]].is_lma = vctr[k[1]].is_lma
    BY <1>0 DEF SameTable, Keeps
  <2> QED BY <2>1 DEF CopyStep
<1> QED BY <1>1, <1>2, <1>3, <1>4, <1>5, <1>6 DEF CopyInv

(* Copies that are left alone are in order.                                *)
LEMMA SameCopy ==
  ASSUME TypeOK, CopyInv, NEW k \in Keys, l2'[k] = l2[k],
         chnk'[k].l1_mem = chnk[k].l1_mem, chnk'[k].l2_exists = chnk[k].l2_exists
  PROVE  CopyStep(k)
<1>1. k \in chnks => (chnk'[k].l2_exists <=> l2'[k].file = "full")
  BY DEF CopyInv, FilesKnown
<1>2. ASSUME k \in chnks, k[1] \in Live
      PROVE  /\ chnk'[k].l1_mem \/ chnk'[k].l2_exists \/ vctr[k[1]].is_lma
             /\ vctr[k[1]].num_writers > 0 => ~chnk'[k].l1_mem /\ ~chnk'[k].l2_exists
  <2>1. k[2] \in Present(k[1]) /\ <<k[1], k[2]>> = k
    BY <1>2, KeyParts DEF Present, chnk_is
  <2> QED BY <1>2, <2>1 DEF CopyInv, DataHeld, WriterHasOnlyCopy
<1> QED BY <1>1, <1>2 DEF CopyStep

(* Rows that are changed in other fields, or given an attribute.           *)
LEMMA FieldsKeepRange ==
  ASSUME NEW x \in VctrVal, NEW n, NEW b, NEW k
  PROVE  /\ KeepsRange(x, x)
         /\ KeepsRange(x, [x EXCEPT !.is_persist = b])
         /\ KeepsRange(x, [x EXCEPT !.is_error = b])
         /\ x.memo_len = 0 /\ x.num_elements = 0 => KeepsRange(x, [x EXCEPT !.memo_len = n])
         /\ KeepsRange(x, [x EXCEPT !.is_killable = b, !.num_kill_ignore = n])
         /\ KeepsRange(x, [x EXCEPT !.num_kill_ignore = n])
         /\ ~x.is_early_freeable =>
              KeepsRange(x, [x EXCEPT !.is_early_freeable = TRUE, !.num_free_ignore = n])
         /\ KeepsRange(x, [x EXCEPT !.nn_key = k])
         /\ KeepsRange(x, [x EXCEPT !.parent_key = k])
         /\ KeepsRange(x, [x EXCEPT !.num_writers = 0, !.X = b])
         /\ KeepsRange(x, get_lma_X_nX(x)) /\ KeepsRange(x, unget_lma_X_nX(x))
  BY DEF VctrVal, KeepsRange, FreshLives, get_lma_X_nX, unget_lma_X_nX

(* ... and in none of those CopyInv looks at.                              *)
LEMMA FieldsKeep ==
  ASSUME NEW x \in VctrVal, NEW n, NEW b, NEW k
  PROVE  /\ Keeps(x, x)
         /\ Keeps(x, [x EXCEPT !.is_persist = b])
         /\ Keeps(x, [x EXCEPT !.is_error = b])
         /\ x.memo_len = 0 /\ x.num_elements = 0 => Keeps(x, [x EXCEPT !.memo_len = n])
         /\ Keeps(x, [x EXCEPT !.is_killable = b, !.num_kill_ignore = n])
         /\ Keeps(x, [x EXCEPT !.num_kill_ignore = n])
         /\ ~x.is_early_freeable =>
              Keeps(x, [x EXCEPT !.is_early_freeable = TRUE, !.num_free_ignore = n])
         /\ Keeps(x, [x EXCEPT !.nn_key = k])
         /\ Keeps(x, [x EXCEPT !.parent_key = k])
         /\ Keeps(x, [x EXCEPT !.num_writers = 0, !.X = b])
         /\ Keeps(x, get_lma_X_nX(x)) /\ Keeps(x, unget_lma_X_nX(x))
  BY FieldsKeepRange DEF VctrVal, Keeps, get_lma_X_nX, unget_lma_X_nX
-----------------------------------------------------------------------------
(* The operations that only count readers or set attributes.               *)

(* vctr_set_lma() failing at the file leaves the tables alone, and every   *)
(* linear file but, perhaps, that of an empty vector that had none.        *)
LEMMA SetLmaFailsKeeps ==
  ASSUME TypeOK, SetLmaFails
  PROVE  /\ UNCHANGED <<vctrTable, chnkTable, l2, mem_used, client>>
         /\ \A v \in Uqids : vctr[v].is_lma => lma'[v] = lma[v]
<1>1. PICK v \in Uqids, n \in 1..MaxElems : set_lma_fails(v, n)
  BY DEF SetLmaFails
<1>2. /\ ~vctr[v].is_lma /\ lma' \in {lma, [lma EXCEPT ![v] = [size |-> n, data |-> {}]]}
      /\ UNCHANGED <<vctrTable, chnkTable, l2, mem_used, client>>
  BY <1>1, Zenon DEF set_lma_fails
<1> QED BY <1>2 DEF TypeOK

(* Chunks and files are left alone, but for the readers.                   *)
LEMMA QuietCopies ==
  ASSUME TypeOK, CopyInv, SameTable, l2' = l2,
         \A k \in Keys : /\ chnk'[k].l1_mem = chnk[k].l1_mem
                         /\ chnk'[k].l2_exists = chnk[k].l2_exists
  PROVE  CopyInv'
  BY SameCopy, CopiesKept

(* vctr_set_lma() failing at the file.                                     *)
LEMMA SetLmaFailsCopy ==
  ASSUME TypeOK, CopyInv, SetLmaFails
  PROVE  CopyInv'
<1>1. UNCHANGED <<g_vctr_uqid, vctrs, vctr, chnks, chnk, l2, half_deleted>>
  BY SetLmaFailsKeeps DEF vctrTable, chnkTable, client
<1>2. \A v \in vctrs : Keeps(vctr[v], vctr[v])
  BY FieldsKeep DEF TypeOK
<1>3. SameTable
  BY <1>1, <1>2 DEF SameTable
<1> QED BY <1>1, <1>3, QuietCopies

(* One row is stored, with the fields that matter as they were.            *)
LEMMA KeepRow ==
  ASSUME TypeOK, NEW v \in Uqids, NEW y, Keeps(vctr[v], y),
         vctr' = [vctr EXCEPT ![v] = y]
  PROVE  \A u \in vctrs : Keeps(vctr[u], vctr'[u])
<1> SUFFICES ASSUME NEW u \in vctrs PROVE Keeps(vctr[u], vctr'[u])
  OBVIOUS
<1>1. u \in Uqids /\ vctr[u] \in VctrVal
  BY DEF TypeOK
<1>2. vctr'[u] = IF u = v THEN y ELSE vctr[u]
  BY <1>1 DEF TypeOK
<1> QED BY <1>1, <1>2, FieldsKeep

(* Tying and untying change nothing that matters here.                     *)
LEMMA TieKeeps ==
  ASSUME NEW x \in [Uqids -> VctrVal], NEW b \in Uqids
  PROVE  /\ \A n \in Uqids : \A u \in Uqids : Keeps(x[u], Tied(x, b, n)[u])
         /\ x[b].nn_key # 0 => \A u \in Uqids : Keeps(x[u], Untied(x, b)[u])
<1>1. ASSUME NEW n \in Uqids, NEW u \in Uqids PROVE Keeps(x[u], Tied(x, b, n)[u])
  BY DEF Tied, Keeps, KeepsRange, FreshLives, VctrVal
<1>2. ASSUME x[b].nn_key # 0, NEW u \in Uqids PROVE Keeps(x[u], Untied(x, b)[u])
  <2>1. x[b].nn_key \in Uqids
    BY <1>2 DEF VctrVal
  <2> QED BY <2>1 DEF Untied, Keeps, KeepsRange, FreshLives, VctrVal
<1> QED BY <1>1, <1>2

(* Attributes and ties.                                                    *)
LEMMA AttributesKeep ==
  ASSUME TypeOK,
         \/ VctrPersist \/ VctrSetMemo \/ SetKillable \/ SetFreeable \/ SetError
         \/ SetNnVec
  PROVE  SameTable /\ UNCHANGED <<chnk, l2, lma>>
<1>0. \A v \in Uqids : vctr[v] \in VctrVal
  BY DEF TypeOK
<1>1. /\ UNCHANGED <<g_vctr_uqid, vctrs, half_deleted, chnks, chnk, l2, lma>>
  BY DEF VctrPersist, VctrSetMemo, SetKillable, SetFreeable, SetError, SetNnVec,
     vctr_persist, vctr_set_memo, vctr_set_num_kill_ignore, vctr_set_early_freeable,
     vctr_set_error, set_nn_vec, rest, chnkTable, client
<1>2. \A u \in vctrs : Keeps(vctr[u], vctr'[u])
  <2>1. CASE VctrPersist
    <3>1. PICK v \in Uqids : vctr_persist(v)
      BY <2>1 DEF VctrPersist
    <3>2. Keeps(vctr[v], [vctr[v] EXCEPT !.is_persist = TRUE])
      BY <1>0, FieldsKeep
    <3> QED BY <3>1, <3>2, KeepRow DEF vctr_persist
  <2>2. CASE VctrSetMemo
    <3>1. PICK v \in Uqids, memo \in MemoLens : vctr_set_memo(v, memo)
      BY <2>2 DEF VctrSetMemo
    <3>2. Keeps(vctr[v], [vctr[v] EXCEPT !.memo_len = memo])
      BY <1>0, <3>1, FieldsKeep DEF vctr_set_memo
    <3> QED BY <3>1, <3>2, KeepRow DEF vctr_set_memo
  <2>3. CASE SetKillable
    <3>1. PICK v \in Uqids, n \in KillIgnores : vctr_set_num_kill_ignore(v, n)
      BY <2>3 DEF SetKillable
    <3>2. Keeps(vctr[v], [vctr[v] EXCEPT !.is_killable = TRUE, !.num_kill_ignore = n])
      BY <1>0, FieldsKeep
    <3> QED BY <3>1, <3>2, KeepRow DEF vctr_set_num_kill_ignore
  <2>4. CASE SetFreeable
    <3>1. PICK v \in Uqids, n \in FreeIgnores : vctr_set_early_freeable(v, n)
      BY <2>4 DEF SetFreeable
    <3>2. Keeps(vctr[v], [vctr[v] EXCEPT !.is_early_freeable = TRUE,
                                         !.num_free_ignore = n])
      BY <1>0, <3>1, FieldsKeep DEF vctr_set_early_freeable
    <3> QED BY <3>1, <3>2, KeepRow DEF vctr_set_early_freeable
  <2>5. CASE SetError
    <3>1. PICK v \in Uqids : vctr_set_error(v)
      BY <2>5 DEF SetError
    <3>2. Keeps(vctr[v], [vctr[v] EXCEPT !.is_error = TRUE])
      BY <1>0, FieldsKeep
    <3> QED BY <3>1, <3>2, KeepRow DEF vctr_set_error
  <2>6. CASE SetNnVec
    BY <2>6, TieKeeps DEF SetNnVec, set_nn_vec, TypeOK
  <2> QED BY <2>1, <2>2, <2>3, <2>4, <2>5, <2>6
<1> QED BY <1>1, <1>2 DEF SameTable

(* So CopyInv is kept.                                                     *)
LEMMA AttributesCopy ==
  ASSUME TypeOK, CopyInv,
         \/ VctrPersist \/ VctrSetMemo \/ SetKillable \/ SetFreeable \/ SetError
         \/ SetNnVec
  PROVE  CopyInv'
<1>1. SameTable /\ chnk' = chnk /\ l2' = l2
  BY AttributesKeep
<1> QED BY <1>1, QuietCopies

(* Readers of the linear file, and readers of chunks that are in RAM.      *)
LEMMA ReadersKeep ==
  ASSUME TypeOK,
         \/ ChnkIncrReaders \/ VctrGetChunkLma \/ VctrUngetChunk
         \/ VctrGetLmaRead \/ VctrUngetLmaRead
  PROVE  /\ SameTable /\ UNCHANGED <<l2, lma>>
         /\ \A k \in Keys : /\ chnk'[k].num_elements = chnk[k].num_elements
                            /\ chnk'[k].l1_mem = chnk[k].l1_mem
                            /\ chnk'[k].l1_data = chnk[k].l1_data
                            /\ chnk'[k].l2_exists = chnk[k].l2_exists
<1>0. \A v \in Uqids : /\ vctr[v] \in VctrVal /\ Keeps(vctr[v], vctr[v])
                       /\ Keeps(vctr[v], get_lma_X_nX(vctr[v]))
                       /\ Keeps(vctr[v], unget_lma_X_nX(vctr[v]))
  BY FieldsKeep DEF TypeOK
<1>1. /\ UNCHANGED <<g_vctr_uqid, vctrs, half_deleted, chnks, l2, lma>>
  BY Zenon DEF ChnkIncrReaders, VctrGetChunkLma, VctrUngetChunk, VctrGetLmaRead,
     VctrUngetLmaRead, chnk_incr_num_readers, vctr_get_chunk_lma, vctr_unget_chunk,
     vctr_get_lma_read, vctr_unget_lma_read, chnkTable, vctrTable
<1>2. \A u \in vctrs : Keeps(vctr[u], vctr'[u])
  <2>0. ASSUME NEW v \in Uqids, \/ vctr' = [vctr EXCEPT ![v] = get_lma_X_nX(vctr[v])]
                                \/ vctr' = [vctr EXCEPT ![v] = unget_lma_X_nX(vctr[v])]
        PROVE  \A u \in vctrs : Keeps(vctr[u], vctr'[u])
    BY <1>0, <2>0, KeepRow
  <2>1. CASE ChnkIncrReaders
    BY <1>0, <2>1 DEF ChnkIncrReaders, chnk_incr_num_readers, vctrTable, TypeOK
  <2>2. CASE VctrGetChunkLma \/ VctrGetLmaRead \/ VctrUngetLmaRead
    BY <2>0, <2>2, Zenon DEF VctrGetChunkLma, VctrGetLmaRead, VctrUngetLmaRead,
       vctr_get_chunk_lma, vctr_get_lma_read, vctr_unget_lma_read
  <2>3. CASE VctrUngetChunk
    <3>1. PICK v \in Uqids, i \in ChnkIdxs : vctr_unget_chunk(v, i)
      BY <2>3 DEF VctrUngetChunk
    <3>2. \/ vctr' = [vctr EXCEPT ![v] = unget_lma_X_nX(@)]
          \/ vctr' = vctr
      BY <3>1, Zenon DEF vctr_unget_chunk
    <3> QED BY <1>0, <2>0, <3>2 DEF TypeOK
  <2> QED BY <2>1, <2>2, <2>3
<1>3. ASSUME NEW k \in Keys
      PROVE  /\ chnk'[k].num_elements = chnk[k].num_elements
             /\ chnk'[k].l1_mem = chnk[k].l1_mem
             /\ chnk'[k].l1_data = chnk[k].l1_data
             /\ chnk'[k].l2_exists = chnk[k].l2_exists
  <2>1. CASE chnk' = chnk
    BY <2>1
  <2>2. CASE \E v \in Uqids, i \in ChnkIdxs :
               \E n : chnk' = [chnk EXCEPT ![<<v, i>>].num_readers = n]
    BY <2>2 DEF TypeOK, ChnkVal
  <2>3. \/ chnk' = chnk
        \/ \E v \in Uqids, i \in ChnkIdxs :
             \E n : chnk' = [chnk EXCEPT ![<<v, i>>].num_readers = n]
    <3>1. CASE ChnkIncrReaders
      <4>1. PICK v \in Uqids, i \in ChnkIdxs : chnk_incr_num_readers(v, i)
        BY <3>1 DEF ChnkIncrReaders
      <4>2. chnk' = [chnk EXCEPT ![<<v, i>>].num_readers = @ + 1]
        BY <4>1 DEF chnk_incr_num_readers
      <4> QED BY <4>2
    <3>2. CASE VctrUngetChunk
      <4>1. PICK v \in Uqids, i \in ChnkIdxs : vctr_unget_chunk(v, i)
        BY <3>2 DEF VctrUngetChunk
      <4>2. chnk' = chnk \/ chnk' = [chnk EXCEPT ![<<v, i>>].num_readers = @ - 1]
        BY <4>1, Zenon DEF vctr_unget_chunk
      <4> QED BY <4>2
    <3>3. CASE VctrGetChunkLma \/ VctrGetLmaRead \/ VctrUngetLmaRead
      BY <3>3, Zenon DEF VctrGetChunkLma, VctrGetLmaRead, VctrUngetLmaRead,
         vctr_get_chunk_lma, vctr_get_lma_read, vctr_unget_lma_read, chnkTable
    <3> QED BY <3>1, <3>2, <3>3
  <2> QED BY <2>1, <2>2, <2>3
<1> QED BY <1>1, <1>2, <1>3 DEF SameTable

(* So, again, CopyInv is kept.                                             *)
LEMMA ReadersCopy ==
  ASSUME TypeOK, CopyInv,
         \/ ChnkIncrReaders \/ VctrGetChunkLma \/ VctrUngetChunk
         \/ VctrGetLmaRead \/ VctrUngetLmaRead
  PROVE  CopyInv'
  BY ReadersKeep, QuietCopies

-----------------------------------------------------------------------------
(* The operations that make and drop copies.                               *)

(* chunks that a call on v names                                           *)
LEMMA NamedPresent ==
  ASSUME TypeOK, NEW v \in Uqids, NEW ok, ok \subseteq ChnkIdxs, NEW S \in Named(v, ok)
  PROVE  S \subseteq ok
<1>1. vctr[v].min_chnk_idx \in Int /\ vctr[v].max_chnk_idx \in Int
  BY DEF TypeOK, VctrVal
<1>2. Run(vctr[v].min_chnk_idx, vctr[v].max_chnk_idx, ok) \subseteq ok
  BY <1>1, RunInOk
<1> QED BY <1>2 DEF Named

(* Getting a chunk, or one element, brings it into RAM from its file when  *)
(* it is not there: not while the linear file is written, for then there   *)
(* is none.                                                                *)
LEMMA LoadCopy ==
  ASSUME TypeOK, CopyInv, SameTable, l2' = l2, NEW v \in Uqids, NEW i \in ChnkIdxs,
         chnk_is(v, i),
         \/ chnk' = [chnk EXCEPT ![<<v, i>>] = chnk_get_data(<<v, i>>)]
         \/ chnk' = [chnk EXCEPT ![<<v, i>>] =
                       [chnk_get_data(<<v, i>>) EXCEPT !.num_readers = @ - 1]]
  PROVE  CopyInv'
<1> DEFINE q == <<v, i>>
           a == chnk_get_data(q)
<1>0. q \in Keys /\ q \in chnks /\ q[1] = v /\ chnk \in [Keys -> ChnkVal]
  BY KeyParts DEF chnk_is, TypeOK
<1>1. /\ a.l2_exists = chnk[q].l2_exists
      /\ a.l1_mem \in BOOLEAN
      /\ a.l1_mem <=> (chnk[q].l1_mem \/ chnk[q].l2_exists)
      /\ [a EXCEPT !.num_readers = @ - 1].l2_exists = a.l2_exists
      /\ [a EXCEPT !.num_readers = @ - 1].l1_mem = a.l1_mem
  <2> DEFINE b == [chnk[q] EXCEPT !.num_readers = @ + 1]
  <2>1. /\ b \in ChnkVal /\ b.l1_mem = chnk[q].l1_mem /\ b.l2_exists = chnk[q].l2_exists
    BY <1>0 DEF ChnkVal
  <2>2. a = IF chnk[q].l1_mem \/ ~chnk[q].l2_exists THEN b
            ELSE [b EXCEPT !.l1_mem = TRUE, !.l1_data = l2[q].data]
    BY DEF chnk_get_data, LoadL1
  <2> HIDE DEF a, b
  <2>3. CASE chnk[q].l1_mem \/ ~chnk[q].l2_exists
    BY <1>0, <2>1, <2>2, <2>3 DEF ChnkVal
  <2>4. CASE ~(chnk[q].l1_mem \/ ~chnk[q].l2_exists)
    BY <1>0, <2>1, <2>2, <2>4 DEF ChnkVal
  <2> QED BY <2>3, <2>4
<1>2. /\ chnk'[q].l2_exists = a.l2_exists /\ chnk'[q].l1_mem = a.l1_mem
      /\ \A k \in Keys : k # q => chnk'[k] = chnk[k]
  BY <1>0, <1>1
<1> HIDE DEF a
<1>3. ASSUME NEW k \in Keys PROVE CopyStep(k)
  <2>1. CASE k # q
    BY <1>2, <2>1, SameCopy
  <2>2. CASE k = q
    <3>1. chnk'[k].l2_exists <=> l2'[k].file = "full"
      BY <1>0, <1>1, <1>2, <2>2 DEF CopyInv, FilesKnown
    <3>2. ASSUME k[1] \in Live
          PROVE  /\ chnk'[k].l1_mem \/ chnk'[k].l2_exists \/ vctr[k[1]].is_lma
                 /\ vctr[k[1]].num_writers > 0 => ~chnk'[k].l1_mem /\ ~chnk'[k].l2_exists
      <4>1. i \in Present(v) /\ chnk[k] = chnk[<<v, i>>]
        BY <2>2 DEF Present
      <4> QED BY <1>0, <1>1, <1>2, <2>2, <3>2, <4>1
              DEF CopyInv, DataHeld, WriterHasOnlyCopy
    <3> QED BY <1>0, <2>2, <3>1, <3>2 DEF CopyStep
  <2> QED BY <2>1, <2>2
<1> QED BY <1>3, CopiesKept

(* vctr_get_chunk() and vctr_get1().                                       *)
LEMMA GetCopy ==
  ASSUME TypeOK, CopyInv, VctrGetChunk \/ VctrGet1
  PROVE  CopyInv'
<1>0. \A v \in Uqids : Keeps(vctr[v], vctr[v]) /\ Keeps(vctr[v], get_lma_X_nX(vctr[v]))
  BY FieldsKeep DEF TypeOK
<1>1. CASE VctrGetChunk
  <2>1. PICK v \in Uqids, i \in ChnkIdxs : vctr_get_chunk(v, i)
    BY <1>1 DEF VctrGetChunk
  <2>2. /\ chnk_is(v, i) /\ chnk' = [chnk EXCEPT ![<<v, i>>] = chnk_get_data(<<v, i>>)]
        /\ UNCHANGED <<vctrTable, chnks, l2, half_deleted>>
    BY <2>1, Zenon DEF vctr_get_chunk
  <2>3. SameTable
    BY <1>0, <2>2 DEF SameTable, vctrTable, TypeOK
  <2> QED BY <2>2, <2>3, LoadCopy
<1>2. CASE VctrGet1
  <2>1. PICK v \in Uqids, i \in ChnkIdxs : vctr_get1(v, i)
    BY <1>2 DEF VctrGet1
  <2> DEFINE a == chnk_get_data(<<v, i>>)
  <2>2. /\ UNCHANGED <<g_vctr_uqid, vctrs, chnks, l2, half_deleted>>
        /\ \/ vctr' = [vctr EXCEPT ![v] = get_lma_X_nX(vctr[v])] /\ chnk' = chnk
           \/ /\ chnk_is(v, i) /\ vctr' = vctr
              /\ chnk' = [chnk EXCEPT ![<<v, i>>] =
                            IF a.l1_mem THEN [a EXCEPT !.num_readers = @ - 1] ELSE a]
    BY <2>1, Zenon DEF vctr_get1, client
  <2> HIDE DEF a
  <2>3. CASE vctr' = [vctr EXCEPT ![v] = get_lma_X_nX(vctr[v])] /\ chnk' = chnk
    <3>1. SameTable
      BY <1>0, <2>2, <2>3, KeepRow DEF SameTable
    <3> QED BY <2>2, <2>3, <3>1, QuietCopies
  <2>4. CASE /\ chnk_is(v, i) /\ vctr' = vctr
             /\ chnk' = [chnk EXCEPT ![<<v, i>>] =
                           IF a.l1_mem THEN [a EXCEPT !.num_readers = @ - 1] ELSE a]
    <3>1. SameTable
      BY <1>0, <2>2, <2>4 DEF SameTable, TypeOK
    <3>2. \/ chnk' = [chnk EXCEPT ![<<v, i>>] = a]
          \/ chnk' = [chnk EXCEPT ![<<v, i>>] = [a EXCEPT !.num_readers = @ - 1]]
      BY <2>4
    <3> QED BY <2>2, <2>4, <3>1, <3>2, LoadCopy DEF a
  <2> QED BY <2>2, <2>3, <2>4
<1> QED BY <1>1, <1>2

(* The vector table is left alone.                                         *)
LEMMA TableUntouched ==
  ASSUME TypeOK, UNCHANGED <<vctrTable, chnks, half_deleted>>
  PROVE  SameTable
<1>1. \A v \in vctrs : Keeps(vctr[v], vctr[v])
  BY FieldsKeep DEF TypeOK
<1> QED BY <1>1 DEF SameTable, vctrTable

(* What CopyInv says of a chunk that is there.                             *)
LEMMA ChnkFacts ==
  ASSUME TypeOK, CopyInv, NEW k \in chnks
  PROVE  /\ k \in Keys /\ chnk[k] \in ChnkVal /\ l2[k] \in L2File
         /\ chnk[k].l2_exists <=> l2[k].file = "full"
         /\ k[1] \in Live =>
              /\ chnk[k].l1_mem \/ chnk[k].l2_exists \/ vctr[k[1]].is_lma
              /\ vctr[k[1]].num_writers > 0 => /\ vctr[k[1]].is_lma
                                               /\ ~chnk[k].l1_mem /\ ~chnk[k].l2_exists
<1>1. k \in Keys /\ chnk[k] \in ChnkVal /\ l2[k] \in L2File
  BY DEF TypeOK
<1>2. k[2] \in Present(k[1]) /\ k = <<k[1], k[2]>>
  BY <1>1, KeyParts DEF Present, chnk_is
<1> QED BY <1>1, <1>2 DEF CopyInv, FilesKnown, DataHeld, WriterHasOnlyCopy

(* drop_mem at level 1 and 2 leaves a copy, or the linear file.            *)
LEMMA DropCopy ==
  ASSUME TypeOK, CopyInv, DropL1 \/ DropL2
  PROVE  CopyInv'
<1>1. CASE DropL1
  <2>1. PICK v \in Uqids : \E S \in Named(v, Present(v)) : drop_l1(v, S)
    BY <1>1 DEF DropL1
  <2>2. PICK S \in Named(v, Present(v)) : drop_l1(v, S)
    BY <2>1
  <2> DEFINE D == DropsL1(v, S)
             f(k) == IF k \in KeysOf(v, D)
                     THEN [chnk[k] EXCEPT !.l1_mem = FALSE, !.l1_data = {}] ELSE chnk[k]
  <2>3. /\ chnk' = [k \in Keys |-> f(k)]
        /\ UNCHANGED <<vctrTable, chnks, l2, half_deleted>>
    BY <2>2 DEF drop_l1, ChnkWith, client
  <2>4. SameTable
    BY <2>3, TableUntouched
  <2>5. ASSUME NEW k \in Keys PROVE CopyStep(k)
    <3>1. chnk'[k] = f(k) /\ chnk[k] \in ChnkVal
      BY <2>3 DEF TypeOK
    <3>2. CASE k \notin KeysOf(v, D)
      BY <2>3, <3>1, <3>2, SameCopy
    <3>3. CASE k \in KeysOf(v, D)
      <4>1. k[1] = v /\ k[2] \in D /\ k = <<v, k[2]>>
        BY <3>3, KeyInKeysOf, KeyParts
      <4>2. chnk[k].l1_mem /\ (chnk[k].l2_exists \/ vctr[v].is_lma)
        BY <4>1 DEF DropsL1
      <4>3. chnk'[k].l1_mem = FALSE /\ chnk'[k].l2_exists = chnk[k].l2_exists
        BY <3>1, <3>3 DEF ChnkVal
      <4> HIDE DEF D, f
      <4> QED BY <2>3, <4>1, <4>2, <4>3, ChnkFacts DEF CopyStep
    <3> QED BY <3>2, <3>3
  <2> QED BY <2>4, <2>5, CopiesKept
<1>2. CASE DropL2
  <2>1. PICK v \in Uqids : \E S \in Named(v, Present(v)) : drop_l2(v, S)
    BY <1>2 DEF DropL2
  <2>2. PICK S \in Named(v, Present(v)) : drop_l2(v, S)
    BY <2>1
  <2> DEFINE D == DropsL2(v, S)
             f(k) == IF k \in KeysOf(v, D) THEN [chnk[k] EXCEPT !.l2_exists = FALSE]
                     ELSE chnk[k]
             g(k) == IF k \in KeysOf(v, D) THEN NoFile ELSE l2[k]
  <2>3. /\ chnk' = [k \in Keys |-> f(k)] /\ l2' = [k \in Keys |-> g(k)]
        /\ UNCHANGED <<vctrTable, chnks, half_deleted>>
    BY <2>2 DEF drop_l2, ChnkWith, client
  <2>4. SameTable
    BY <2>3, TableUntouched
  <2>5. ASSUME NEW k \in Keys PROVE CopyStep(k)
    <3>1. chnk'[k] = f(k) /\ l2'[k] = g(k) /\ chnk[k] \in ChnkVal
      BY <2>3 DEF TypeOK
    <3>2. CASE k \notin KeysOf(v, D)
      BY <3>1, <3>2, SameCopy
    <3>3. CASE k \in KeysOf(v, D)
      <4>1. k[1] = v /\ k[2] \in D /\ k = <<v, k[2]>>
        BY <3>3, KeyInKeysOf, KeyParts
      <4>2. chnk[k].l2_exists /\ (chnk[k].l1_mem \/ vctr[v].is_lma)
        BY <4>1 DEF DropsL2
      <4>3. /\ chnk'[k].l2_exists = FALSE /\ chnk'[k].l1_mem = chnk[k].l1_mem
            /\ l2'[k].file = "none"
        BY <3>1, <3>3 DEF ChnkVal, NoFile
      <4> HIDE DEF D, f, g
      <4> QED BY <4>1, <4>2, <4>3, ChnkFacts DEF CopyStep
    <3> QED BY <3>2, <3>3
  <2> QED BY <2>4, <2>5, CopiesKept
<1> QED BY <1>1, <1>2
(* vctr_drop_mem() at level 3: the linear file goes only when every chunk  *)
(* has an L1 or an L2; and so not while it is written.                     *)
LEMMA DropLmaCopy ==
  ASSUME TypeOK, CopyInv, DropLma
  PROVE  CopyInv'
<1>1. PICK v \in Uqids : drop_lma(v)
  BY DEF DropLma
<1>2. /\ v \in vctrs /\ vctr[v].is_lma /\ AllMem(v)
      /\ vctr' = [vctr EXCEPT ![v].is_lma = FALSE]
      /\ UNCHANGED <<g_vctr_uqid, vctrs, chnks, chnk, l2, half_deleted>>
  BY <1>1 DEF drop_lma, chnkTable, client
<1>3. /\ \A u \in vctrs : u # v => vctr'[u] = vctr[u]
      /\ \A u \in vctrs : /\ vctr'[u].num_elements = vctr[u].num_elements
                          /\ vctr'[u].min_chnk_idx = vctr[u].min_chnk_idx
                          /\ vctr'[u].max_chnk_idx = vctr[u].max_chnk_idx
                          /\ vctr'[u].is_eov = vctr[u].is_eov
                          /\ vctr'[u].num_writers = vctr[u].num_writers
                          /\ vctr'[u].memo_len = vctr[u].memo_len
                          /\ vctr'[u].is_early_freeable = vctr[u].is_early_freeable
      /\ vctr'[v].is_lma = FALSE
  BY <1>2 DEF TypeOK, VctrVal
<1>4. Live' = Live /\ Live \subseteq vctrs /\ \A u : Present(u)' = Present(u)
  BY <1>2 DEF Live, Present, chnk_is
<1>5. KeysReached'
  BY <1>2, <1>3 DEF KeysReached, CopyInv, Reached
<1>6. FilesKnown'
  BY <1>2 DEF FilesKnown, CopyInv
<1>7. RowsOk'
  <2> SUFFICES ASSUME NEW u \in vctrs PROVE RowOk(vctr'[u])
    BY <1>2 DEF RowsOk
  <2>1. RowOk(vctr[u])
    BY DEF RowsOk, CopyInv
  <2> QED BY <1>3, <2>1 DEF RowOk
<1>8. LmaWhole'
  BY <1>3, <1>4 DEF LmaWhole, CopyInv, Idxs
<1>9. v \in Live => vctr[v].num_writers = 0
  <2> SUFFICES ASSUME v \in Live, vctr[v].num_writers > 0 PROVE FALSE
    BY <1>2 DEF TypeOK, VctrVal
  <2>1. vctr[v].min_chnk_idx \in Idxs(vctr[v])
    BY <1>2 DEF CopyInv, RowsOk, RowOk, Idxs, TypeOK, VctrVal
  <2> DEFINE i == vctr[v].min_chnk_idx
  <2>2. chnk_is(v, i) /\ (chnk[<<v, i>>].l1_mem \/ chnk[<<v, i>>].l2_exists)
    BY <1>2, <2>1 DEF AllMem
  <2>3. <<v, i>> \in chnks /\ <<v, i>>[1] = v
    BY <2>2 DEF chnk_is
  <2> QED BY <2>2, <2>3, ChnkFacts
<1>10. WriterHasOnlyCopy'
  BY <1>2, <1>3, <1>4, <1>9 DEF WriterHasOnlyCopy, CopyInv
<1>11. DataHeld'
  <2> SUFFICES ASSUME NEW k \in chnks, k[1] \in Live
               PROVE  chnk[k].l1_mem \/ chnk[k].l2_exists \/ vctr'[k[1]].is_lma
    BY <1>2, <1>4 DEF DataHeld
  <2>1. CASE k[1] # v
    BY <1>3, <1>4, <2>1, ChnkFacts
  <2>2. CASE k[1] = v
    <3>1. k[2] \in Present(v) /\ k = <<v, k[2]>>
      BY <2>2, KeyParts DEF Present, chnk_is, TypeOK
    <3>2. k[2] \in Idxs(vctr[v])
      BY <1>2, <2>2, <3>1 DEF CopyInv, LmaWhole
    <3> QED BY <1>2, <3>1, <3>2 DEF AllMem
  <2> QED BY <2>1, <2>2
<1> QED BY <1>5, <1>6, <1>7, <1>8, <1>10, <1>11 DEF CopyInv

(* chnk_make_mem() at level 1 needs a full file, and while the linear file *)
(* is written there is none.                                               *)
LEMMA MakeL1Copy ==
  ASSUME TypeOK, CopyInv, MakeL1
  PROVE  CopyInv'
<1>1. PICK v \in Uqids : \E S \in Named(v, CanMakeL1(v)) : make_l1(v, S)
  BY DEF MakeL1
<1>2. PICK S \in Named(v, CanMakeL1(v)) : make_l1(v, S)
  BY <1>1
<1> DEFINE D == {i \in S : ~chnk[<<v, i>>].l1_mem}
           f(k) == IF k \in KeysOf(v, D) THEN LoadL1(chnk[k], k) ELSE chnk[k]
<1>3. /\ chnk' = [k \in Keys |-> f(k)]
      /\ UNCHANGED <<vctrTable, chnks, l2, half_deleted>>
  BY <1>2 DEF make_l1, ChnkWith, client
<1>4. SameTable
  BY <1>3, TableUntouched
<1>5. S \subseteq CanMakeL1(v)
  BY NamedPresent DEF CanMakeL1, Present
<1>6. ASSUME NEW k \in Keys PROVE CopyStep(k)
  <2>1. chnk'[k] = f(k) /\ chnk[k] \in ChnkVal
    BY <1>3 DEF TypeOK
  <2>2. CASE k \notin KeysOf(v, D)
    BY <1>3, <2>1, <2>2, SameCopy
  <2>3. CASE k \in KeysOf(v, D)
    <3>1. k[1] = v /\ k[2] \in D /\ k = <<v, k[2]>>
      BY <2>3, KeyInKeysOf, KeyParts
    <3>2. k \in chnks /\ l2[k].file = "full"
      BY <1>5, <3>1 DEF CanMakeL1, Present, chnk_is
    <3>3. chnk'[k].l1_mem = TRUE /\ chnk'[k].l2_exists = chnk[k].l2_exists
      BY <2>1, <2>3 DEF ChnkVal, LoadL1
    <3> HIDE DEF D, f
    <3> QED BY <1>3, <3>1, <3>2, <3>3, ChnkFacts DEF CopyStep
  <2> QED BY <2>2, <2>3
<1> QED BY <1>4, <1>6, CopiesKept

(* Chunks D of v, all in RAM, are given files of their own.                *)
LEMMA WriteCopy ==
  ASSUME TypeOK, CopyInv, UNCHANGED <<vctrTable, chnks, half_deleted>>, NEW v \in Uqids,
         NEW D, \A i \in D : chnk_is(v, i) /\ chnk[<<v, i>>].l1_mem,
         NEW k \in Keys,
         k \in KeysOf(v, D) => /\ chnk'[k].l2_exists = TRUE /\ l2'[k].file = "full"
                               /\ chnk'[k].l1_mem \in BOOLEAN,
         k \notin KeysOf(v, D) => /\ chnk'[k].l1_mem = chnk[k].l1_mem
                                  /\ chnk'[k].l2_exists = chnk[k].l2_exists
                                  /\ l2'[k] = l2[k]
  PROVE  CopyStep(k)
<1>1. CASE k \notin KeysOf(v, D)
  BY <1>1, SameCopy
<1>2. CASE k \in KeysOf(v, D)
  <2>1. k[1] = v /\ k[2] \in D /\ k = <<v, k[2]>>
    BY <1>2, KeyInKeysOf, KeyParts
  <2>2. k \in chnks /\ chnk[k].l1_mem
    BY <2>1 DEF chnk_is
  <2> QED BY <1>2, <2>1, <2>2, ChnkFacts DEF CopyStep
<1> QED BY <1>1, <1>2

(* chnk_make_mem() at level 2, the failing call on a chunk that is only in *)
(* the linear file included: the file it leaves is empty.                  *)
LEMMA MakeL2StepCopy ==
  ASSUME TypeOK, CopyInv, NEW v \in Uqids, NEW S, S \subseteq CanMakeL2(v),
         NEW Null, Null \subseteq NoL1L2(v), make_l2(v, S, Null)
  PROVE  CopyInv'
<1> DEFINE D == {i \in S : ~chnk[<<v, i>>].l2_exists}
           f(k) == IF k \in KeysOf(v, D) THEN [chnk[k] EXCEPT !.l2_exists = TRUE]
                   ELSE chnk[k]
           h(k) == IF k \in KeysOf(v, D) THEN [file |-> "full", data |-> chnk[k].l1_data]
                   ELSE l2[k]
           g(k) == IF k \in KeysOf(v, Null) THEN [file |-> "empty", data |-> {}]
                   ELSE L2With(v, D)[k]
<1>1. /\ WriteL2(v, D) /\ l2' = [k \in Keys |-> g(k)]
      /\ UNCHANGED <<vctrTable, chnks, half_deleted>>
  BY DEF make_l2, client
<1>2. chnk' = [k \in Keys |-> f(k)] /\ \A k \in Keys : L2With(v, D)[k] = h(k)
  BY <1>1 DEF WriteL2, ChnkWith, L2With
<1>3. \A i \in D : i \in ChnkIdxs /\ chnk_is(v, i) /\ chnk[<<v, i>>].l1_mem
  BY DEF CanMakeL2, Present
<1>4. ASSUME NEW k \in Keys PROVE CopyStep(k)
  <2>1. chnk'[k] = f(k) /\ l2'[k] = g(k) /\ chnk[k] \in ChnkVal
    BY <1>1, <1>2 DEF TypeOK
  <2>2. CASE k \notin KeysOf(v, Null)
    <3>1. l2'[k] = h(k)
      BY <1>2, <2>1, <2>2
    <3>2. k \in KeysOf(v, D) => /\ chnk'[k].l2_exists = TRUE /\ l2'[k].file = "full"
                                /\ chnk'[k].l1_mem \in BOOLEAN
      BY <2>1, <3>1 DEF ChnkVal
    <3>3. k \notin KeysOf(v, D) => /\ chnk'[k].l1_mem = chnk[k].l1_mem
                                   /\ chnk'[k].l2_exists = chnk[k].l2_exists
                                   /\ l2'[k] = l2[k]
      BY <2>1, <3>1
    <3> HIDE DEF D
    <3> QED BY <1>1, <1>3, <3>2, <3>3, WriteCopy
  <2>3. CASE k \in KeysOf(v, Null)
    <3>1. k[1] = v /\ k[2] \in Null /\ k = <<v, k[2]>>
      BY <2>3, KeyInKeysOf, KeyParts
    <3>2. k \in chnks /\ ~chnk[k].l1_mem /\ ~chnk[k].l2_exists
      BY <3>1 DEF NoL1L2, CanMakeL2, Present, chnk_is
    <3>3. k \notin KeysOf(v, D)
      <4>1. k[2] \notin D
        BY <1>3, <3>1, <3>2
      <4> QED BY <4>1, KeyInKeysOf
    <3>4. chnk'[k] = chnk[k] /\ l2'[k].file = "empty"
      BY <2>1, <2>3, <3>3
    <3> HIDE DEF D, f, g, h
    <3> QED BY <3>2, <3>4, ChnkFacts DEF CopyStep
  <2> QED BY <2>2, <2>3
<1> QED BY <1>1, <1>4, TableUntouched, CopiesKept
(* make_mem at level 2 and l1_to_l2: files for chunks that are in RAM.     *)
LEMMA BackupCopy ==
  ASSUME TypeOK, CopyInv, MakeL2 \/ L1ToL2
  PROVE  CopyInv'
<1>0. \A v \in Uqids : vctr[v].min_chnk_idx \in Int /\ vctr[v].max_chnk_idx \in Int
  BY DEF TypeOK, VctrVal
<1>1. CASE MakeL2
  <2>1. PICK v \in Uqids : \/ vctr_make_l2(v)
                           \/ \E i \in CanMakeL2(v) : make_l2(v, {i}, {})
                           \/ \E i \in NoL1L2(v) : make_l2(v, {}, {i})
    BY <1>1 DEF MakeL2
  <2>2. CASE vctr_make_l2(v)
    <3> DEFINE S == Run(vctr[v].min_chnk_idx, vctr[v].max_chnk_idx, CanMakeL2(v))
               Null == {i \in Idxs(vctr[v]) \cap NoL1L2(v) :
                          vctr[v].min_chnk_idx .. (i - 1) \subseteq S}
    <3>1. make_l2(v, S, Null)
      BY <2>2 DEF vctr_make_l2
    <3>2. S \subseteq CanMakeL2(v) /\ Null \subseteq NoL1L2(v)
      BY <1>0, RunInOk
    <3> HIDE DEF S, Null
    <3> QED BY <3>1, <3>2, MakeL2StepCopy
  <2>3. CASE \E i \in CanMakeL2(v) : make_l2(v, {i}, {})
    BY <2>3, MakeL2StepCopy
  <2>4. CASE \E i \in NoL1L2(v) : make_l2(v, {}, {i})
    BY <2>4, MakeL2StepCopy
  <2> QED BY <2>1, <2>2, <2>3, <2>4
<1>2. CASE L1ToL2
  <2>1. PICK v \in Uqids : vctr_l1_to_l2(v)
    BY <1>2 DEF L1ToL2
  <2> DEFINE S == Run(vctr[v].min_chnk_idx, vctr[v].max_chnk_idx, CanL1ToL2(v))
             D == {i \in S : l2[<<v, i>>].file = "none"}
             f(k) == IF k \in KeysOf(v, D) THEN [chnk[k] EXCEPT !.l2_exists = TRUE]
                     ELSE chnk[k]
             h(k) == IF k \in KeysOf(v, D)
                     THEN [file |-> "full", data |-> chnk[k].l1_data] ELSE l2[k]
  <2>2. /\ WriteL2(v, D) /\ l2' = L2With(v, D)
        /\ UNCHANGED <<vctrTable, chnks, half_deleted>>
    BY <2>1 DEF vctr_l1_to_l2, client
  <2>3. chnk' = [k \in Keys |-> f(k)] /\ l2' = [k \in Keys |-> h(k)]
    BY <2>2 DEF WriteL2, ChnkWith, L2With
  <2>4. \A i \in D : chnk_is(v, i) /\ chnk[<<v, i>>].l1_mem
    <3>1. S \subseteq CanL1ToL2(v)
      BY <1>0, RunInOk
    <3> QED BY <3>1 DEF CanL1ToL2, Present
  <2>5. ASSUME NEW k \in Keys PROVE CopyStep(k)
    <3>1. chnk'[k] = f(k) /\ l2'[k] = h(k) /\ chnk[k] \in ChnkVal
      BY <2>3 DEF TypeOK
    <3>2. k \in KeysOf(v, D) => /\ chnk'[k].l2_exists = TRUE /\ l2'[k].file = "full"
                                /\ chnk'[k].l1_mem \in BOOLEAN
      BY <3>1 DEF ChnkVal
    <3>3. k \notin KeysOf(v, D) => /\ chnk'[k].l1_mem = chnk[k].l1_mem
                                   /\ chnk'[k].l2_exists = chnk[k].l2_exists
                                   /\ l2'[k] = l2[k]
      BY <3>1
    <3> HIDE DEF D
    <3> QED BY <2>2, <2>4, <3>2, <3>3, WriteCopy
  <2> QED BY <2>2, <2>5, TableUntouched, CopiesKept
<1> QED BY <1>1, <1>2

(* unprefetch: a chunk leaves RAM for its file, which is made if need be.  *)
LEMMA UnprefetchCopy ==
  ASSUME TypeOK, CopyInv, Unprefetch
  PROVE  CopyInv'
<1>1. PICK v \in Uqids, i \in ChnkIdxs : unprefetch(v, i)
  BY DEF Unprefetch
<1> DEFINE q == <<v, i>>
           D == IF chnk[q].l2_exists THEN {} ELSE {i}
           h(k) == IF k \in KeysOf(v, D)
                   THEN [file |-> "full", data |-> chnk[k].l1_data] ELSE l2[k]
<1>2. /\ chnk_is(v, i) /\ chnk[q].l1_mem
      /\ chnk' = [chnk EXCEPT ![q].l1_mem = FALSE, ![q].l1_data = {},
                              ![q].l2_exists = TRUE]
      /\ l2' = L2With(v, D) /\ UNCHANGED <<vctrTable, chnks, half_deleted>>
  BY <1>1, Zenon DEF unprefetch, client
<1>3. /\ q \in Keys /\ q \in chnks /\ chnk[q] \in ChnkVal
      /\ chnk \in [Keys -> ChnkVal]
  BY <1>2 DEF chnk_is, TypeOK
<1>4. ASSUME NEW k \in Keys PROVE CopyStep(k)
  <2>1. l2'[k] = h(k)
    BY <1>2 DEF L2With
  <2>2. CASE k # q
    <3>1. chnk'[k] = chnk[k]
      BY <1>2, <1>3, <2>2
    <3>2. k \notin KeysOf(v, D)
      BY <2>2, KeyInKeysOf, KeyParts
    <3> QED BY <2>1, <3>1, <3>2, SameCopy
  <2>3. CASE k = q
    <3>1. chnk'[q].l1_mem = FALSE /\ chnk'[q].l2_exists = TRUE
      BY <1>2, <1>3 DEF ChnkVal
    <3>2. l2'[q].file = "full"
      <4>1. CASE chnk[q].l2_exists
        <5>1. q \notin KeysOf(v, D)
          BY <4>1 DEF KeysOf
        <5> QED BY <1>3, <2>1, <2>3, <4>1, <5>1, ChnkFacts
      <4>2. CASE ~chnk[q].l2_exists
        <5>1. q \in KeysOf(v, D)
          BY <4>2 DEF KeysOf
        <5> QED BY <2>1, <2>3, <5>1
      <4> QED BY <4>1, <4>2
    <3> HIDE DEF D, h
    <3> QED BY <1>2, <1>3, <2>3, <3>1, <3>2, ChnkFacts DEF CopyStep
  <2> QED BY <2>2, <2>3
<1> QED BY <1>2, <1>4, TableUntouched, CopiesKept

(* vctr_lma_to_chnks() refuses while somebody writes.                      *)
LEMMA LmaToChnksCopy ==
  ASSUME TypeOK, CopyInv, LmaToChnks
  PROVE  CopyInv'
<1>1. PICK v \in Uqids, level \in 1..2 : vctr_lma_to_chnks(v, level)
  BY DEF LmaToChnks
<1> DEFINE S == Run(0, NumChnks(vctr[v].num_elements) - 1, Present(v))
           L1 == {i \in S : ~chnk[<<v, i>>].l1_mem
                             /\ (chnk[<<v, i>>].l2_exists \/ level = 1)}
           L2 == {i \in S : ~chnk[<<v, i>>].l1_mem
                             /\ ~chnk[<<v, i>>].l2_exists /\ level = 2}
           f(k) == IF k \in KeysOf(v, L1)
                   THEN IF chnk[k].l2_exists THEN LoadL1(chnk[k], k)
                        ELSE [chnk[k] EXCEPT !.l1_mem = TRUE,
                                             !.l1_data = FromLma(v, k[2])]
                   ELSE IF k \in KeysOf(v, L2)
                   THEN [chnk[k] EXCEPT !.l2_exists = TRUE]
                   ELSE chnk[k]
           h(k) == IF k \in KeysOf(v, L2)
                   THEN [file |-> "full", data |-> FromLma(v, k[2])] ELSE l2[k]
<1>2. /\ v \in vctrs /\ vctr[v].num_writers = 0 /\ vctr[v].is_lma
      /\ chnk' = [k \in Keys |-> f(k)] /\ l2' = [k \in Keys |-> h(k)]
      /\ UNCHANGED <<vctrTable, chnks, half_deleted>>
  BY <1>1, Zenon DEF vctr_lma_to_chnks, client
<1>3. S \subseteq Present(v)
  BY DEF Run
<1>4. ASSUME NEW k \in Keys PROVE CopyStep(k)
  <2>1. chnk'[k] = f(k) /\ l2'[k] = h(k) /\ chnk[k] \in ChnkVal
    BY <1>2 DEF TypeOK
  <2>2. CASE k \notin KeysOf(v, L1) /\ k \notin KeysOf(v, L2)
    BY <2>1, <2>2, SameCopy
  <2>3. CASE k \in KeysOf(v, L1)
    <3>1. k[1] = v /\ k[2] \in L1 /\ k = <<v, k[2]>> /\ k[2] \notin L2
      BY <2>3, KeyInKeysOf, KeyParts
    <3>2. k \in chnks
      BY <1>3, <3>1 DEF Present, chnk_is
    <3>3. l2'[k] = l2[k] /\ chnk'[k].l1_mem = TRUE /\ chnk'[k].l2_exists = chnk[k].l2_exists
      <4>1. k \notin KeysOf(v, L2)
        BY <3>1, KeyInKeysOf
      <4> QED BY <2>1, <2>3, <4>1 DEF LoadL1, ChnkVal
    <3> HIDE DEF L1, L2, f, h, S
    <3> QED BY <1>2, <3>1, <3>2, <3>3, ChnkFacts DEF CopyStep
  <2>4. CASE k \notin KeysOf(v, L1) /\ k \in KeysOf(v, L2)
    <3>1. k[1] = v /\ k[2] \in L2 /\ k = <<v, k[2]>>
      BY <2>4, KeyInKeysOf, KeyParts
    <3>2. k \in chnks
      BY <1>3, <3>1 DEF Present, chnk_is
    <3>3. l2'[k].file = "full" /\ chnk'[k].l2_exists = TRUE
      BY <2>1, <2>4 DEF ChnkVal
    <3> HIDE DEF L1, L2, f, h, S
    <3> QED BY <1>2, <3>1, <3>2, <3>3, ChnkFacts DEF CopyStep
  <2> QED BY <2>2, <2>3, <2>4
<1> QED BY <1>2, <1>4, TableUntouched, CopiesKept

(* vctr_unget_lma_write(): the writer leaves.                              *)
LEMMA UngetLmaWriteCopy ==
  ASSUME TypeOK, CopyInv, UngetLmaWrite
  PROVE  CopyInv'
<1>1. PICK v \in Uqids : vctr_unget_lma_write(v)
  BY DEF UngetLmaWrite
<1> DEFINE y == [vctr[v] EXCEPT !.num_writers = 0, !.X = FALSE]
<1>2. /\ vctr' = [vctr EXCEPT ![v] = y]
      /\ chnk' = [k \in Keys |-> IF k[1] = v THEN [chnk[k] EXCEPT !.l1_data = {}]
                                ELSE chnk[k]]
      /\ l2' = [k \in Keys |-> IF k[1] = v THEN [l2[k] EXCEPT !.data = {}] ELSE l2[k]]
      /\ UNCHANGED <<g_vctr_uqid, vctrs, chnks, half_deleted>>
  BY <1>1 DEF vctr_unget_lma_write, client
<1>3. Keeps(vctr[v], y)
  BY FieldsKeep DEF TypeOK
<1> HIDE DEF y
<1>4. SameTable
  BY <1>2, <1>3, KeepRow DEF SameTable
<1>5. ASSUME NEW k \in Keys PROVE CopyStep(k)
  <2>1. /\ chnk'[k].l1_mem = chnk[k].l1_mem /\ chnk'[k].l2_exists = chnk[k].l2_exists
        /\ l2'[k].file = l2[k].file
    BY <1>2 DEF TypeOK, ChnkVal, L2File
  <2> QED BY <2>1, ChnkFacts DEF CopyStep
<1> QED BY <1>4, <1>5, CopiesKept
-----------------------------------------------------------------------------
(* Chunk indices: element n is in chunk n \div MaxNumInChnk.               *)

(* The quotient is the only chunk whose range holds n.                     *)
LEMMA ChnkOf ==
  ASSUME NEW n \in Nat
  PROVE  /\ n \div MaxNumInChnk \in Nat
         /\ (n \div MaxNumInChnk) * MaxNumInChnk <= n
         /\ n < (n \div MaxNumInChnk) * MaxNumInChnk + MaxNumInChnk
  BY BoundsAssumption DEF BoundsAssumption

(* Chunks in order hold elements in order.                                 *)
LEMMA ChnksInOrder ==
  ASSUME NEW i \in Int, NEW j \in Int, i < j
  PROVE  i * MaxNumInChnk + MaxNumInChnk <= j * MaxNumInChnk
<1> DEFINE M == MaxNumInChnk
<1>1. M \in Nat
  BY BoundsAssumption DEF BoundsAssumption
<1> HIDE DEF M
<1>2. j * M = (j - i) * M + i * M
  BY <1>1
<1>3. (j - i) * M >= M
  BY <1>1
<1> QED BY <1>1, <1>2, <1>3 DEF M

(* Where the quotient lies is where the element lies.                      *)
LEMMA ChnkBounds ==
  ASSUME NEW n \in Nat, NEW i \in Int
  PROVE  /\ i * MaxNumInChnk <= n => i <= n \div MaxNumInChnk
         /\ n < i * MaxNumInChnk + MaxNumInChnk => n \div MaxNumInChnk <= i
<1> DEFINE q == n \div MaxNumInChnk
           M == MaxNumInChnk
<1>1. q \in Nat /\ q * M <= n /\ n < q * M + M /\ M \in Nat
  BY ChnkOf, BoundsAssumption DEF BoundsAssumption
<1>2. q < i => q * M + M <= i * M
  BY <1>1, ChnksInOrder
<1>3. i < q => i * M + M <= q * M
  BY <1>1, ChnksInOrder
<1>4. i * M \in Int /\ q * M \in Int
  BY <1>1
<1> HIDE DEF q, M
<1> QED BY <1>1, <1>2, <1>3, <1>4 DEF q, M

(* The chunk of element n is the one whose range holds n.                  *)
LEMMA ChnkIs ==
  ASSUME NEW n \in Nat, NEW i \in Int, i * MaxNumInChnk <= n,
         n < i * MaxNumInChnk + MaxNumInChnk
  PROVE  n \div MaxNumInChnk = i
  BY ChnkBounds, ChnkOf

(* Chunks that are all full end where the next one starts.                 *)
LEMMA FullChnks ==
  ASSUME NEW t \in Nat, t > 0, t % MaxNumInChnk = 0
  PROVE  ((t - 1) \div MaxNumInChnk + 1) * MaxNumInChnk = t
<1>1. PICK M : M = MaxNumInChnk
  OBVIOUS
<1>2. M \in Nat /\ M > 0
  BY <1>1, BoundsAssumption DEF BoundsAssumption
<1>3. PICK q \in Nat : t = M * q
  <2>1. t = M * (t \div M) /\ t \div M \in Nat
    BY <1>1, <1>2
  <2> QED BY <2>1
<1>4. (q - 1) * M = t - M /\ q * M = t
  BY <1>2, <1>3
<1>5. (t - 1) \div MaxNumInChnk = q - 1
  BY <1>1, <1>2, <1>3, <1>4, ChnkIs
<1> QED BY <1>1, <1>3, <1>4, <1>5

-----------------------------------------------------------------------------
(* CopyInv chunk by chunk and vector by vector.                            *)

ChnkOk(k) ==
  /\ k \in chnks \/ l2[k].file # "none" => Reached(k)
  /\ k \in chnks => (chnk[k].l2_exists <=> l2[k].file = "full")
  /\ k \in chnks /\ k[1] \in Live =>
       /\ chnk[k].l1_mem \/ chnk[k].l2_exists \/ vctr[k[1]].is_lma
       /\ vctr[k[1]].num_writers > 0 => ~chnk[k].l1_mem /\ ~chnk[k].l2_exists

VctrOk(v) ==
  /\ v \in vctrs => RowOk(vctr[v])
  /\ v \in Live => /\ vctr[v].is_lma => Present(v) = Idxs(vctr[v])
                   /\ vctr[v].num_writers > 0 => vctr[v].is_lma

(* CopyInv has nothing to say beyond this.                                 *)
LEMMA CopyParts ==
  ASSUME TypeOK, CopyInv
  PROVE  (\A k \in Keys : ChnkOk(k)) /\ (\A v \in Uqids : VctrOk(v))
<1>1. ASSUME NEW k \in Keys PROVE ChnkOk(k)
  <2>1. k \in chnks \/ l2[k].file # "none" => Reached(k)
    BY DEF CopyInv, KeysReached
  <2> QED BY <2>1, ChnkFacts DEF ChnkOk
<1>2. ASSUME NEW v \in Uqids PROVE VctrOk(v)
  BY DEF VctrOk, CopyInv, RowsOk, LmaWhole, WriterHasOnlyCopy
<1> QED BY <1>1, <1>2

(* ... and holds of the next state if this does.                           *)
LEMMA CopyFromParts ==
  ASSUME TypeOK', \A k \in Keys : ChnkOk(k)', \A v \in Uqids : VctrOk(v)'
  PROVE  CopyInv'
<1>0. /\ chnks' \subseteq Keys /\ vctrs' \subseteq Uqids /\ Live' \subseteq vctrs'
  BY DEF TypeOK, Live
<1>1. KeysReached' /\ FilesKnown' /\ DataHeld'
  BY <1>0 DEF KeysReached, FilesKnown, DataHeld, ChnkOk
<1>2. RowsOk' /\ LmaWhole'
  BY <1>0 DEF RowsOk, LmaWhole, VctrOk
<1>3. WriterHasOnlyCopy'
  <2> SUFFICES ASSUME NEW v \in Live', vctr'[v].num_writers > 0
               PROVE  /\ vctr'[v].is_lma
                      /\ \A i \in Present(v)' :
                           ~chnk'[<<v, i>>].l1_mem /\ ~chnk'[<<v, i>>].l2_exists
    BY DEF WriterHasOnlyCopy
  <2>1. vctr'[v].is_lma
    BY <1>0 DEF VctrOk
  <2>2. ASSUME NEW i \in Present(v)'
        PROVE  ~chnk'[<<v, i>>].l1_mem /\ ~chnk'[<<v, i>>].l2_exists
    <3> DEFINE k == <<v, i>>
    <3>1. k \in Keys /\ k \in chnks' /\ k[1] = v
      BY <1>0, KeyParts DEF Present, chnk_is
    <3>2. ChnkOk(k)'
      BY <3>1
    <3> QED BY <3>1, <3>2 DEF ChnkOk
  <2> QED BY <2>1, <2>2
<1> QED BY <1>1, <1>2, <1>3 DEF CopyInv

\* the step leaves vector u, its chunks and its files alone
Untouched(u) ==
  /\ u \in vctrs' => u \in vctrs /\ Keeps(vctr[u], vctr'[u])
  /\ u \in Live' => u \in Live
  /\ \A k \in Keys : k[1] = u =>
       (k \in chnks' <=> k \in chnks) /\ chnk'[k] = chnk[k] /\ l2'[k] = l2[k]

(* What is left alone stays right.                                         *)
LEMMA UntouchedOk ==
  ASSUME TypeOK, CopyInv, NEW u \in Uqids, Untouched(u),
         g_vctr_uqid' \in Nat, g_vctr_uqid <= g_vctr_uqid'
  PROVE  VctrOk(u)' /\ \A k \in Keys : k[1] = u => ChnkOk(k)'
<1>0. /\ VctrOk(u) /\ \A k \in Keys : ChnkOk(k)
      /\ g_vctr_uqid \in Nat /\ Live' \subseteq vctrs' /\ Live \subseteq vctrs
  BY CopyParts DEF TypeOK, Live
<1>1. ASSUME NEW k \in Keys, k[1] = u PROVE ChnkOk(k)'
  <2>1. /\ ChnkOk(k) /\ (k \in chnks' <=> k \in chnks)
        /\ chnk'[k] = chnk[k] /\ l2'[k] = l2[k]
    BY <1>0, <1>1 DEF Untouched
  <2>2. u \in vctrs' => u \in vctrs /\ Keeps(vctr[u], vctr'[u])
    BY DEF Untouched
  <2>3. Reached(k) => Reached(k)'
    BY <1>0, <1>1, <2>2 DEF Reached, Keeps, Uqids
  <2>4. u \in Live' => u \in Live /\ Keeps(vctr[u], vctr'[u])
    BY <1>0, <2>2 DEF Untouched
  <2> QED BY <1>1, <2>1, <2>3, <2>4 DEF ChnkOk, Keeps
<1>2. VctrOk(u)'
  <2>1. u \in vctrs' => u \in vctrs /\ Keeps(vctr[u], vctr'[u])
    BY DEF Untouched
  <2>2. u \in Live' => u \in Live /\ u \in vctrs'
    BY <1>0 DEF Untouched
  <2>3. u \in vctrs' => RowOk(vctr'[u])
    BY <1>0, <2>1 DEF VctrOk, RowOk, Keeps
  <2>4. Present(u)' = Present(u)
    <3>1. \A i \in ChnkIdxs : <<u, i>> \in chnks' <=> <<u, i>> \in chnks
      BY KeyParts DEF Untouched
    <3> QED BY <3>1 DEF Present, chnk_is
  <2>5. u \in Live' => Idxs(vctr'[u]) = Idxs(vctr[u])
    BY <2>1, <2>2 DEF Idxs, Keeps
  <2> QED BY <1>0, <2>1, <2>2, <2>3, <2>4, <2>5 DEF VctrOk, Keeps
<1> QED BY <1>1, <1>2

(* A step on the vectors W, if these come out right.                       *)
LEMMA OnlyTouched ==
  ASSUME TypeOK, TypeOK', CopyInv, NEW W, \A u \in Uqids \ W : Untouched(u),
         g_vctr_uqid <= g_vctr_uqid', \A v \in Uqids \cap W : VctrOk(v)',
         \A k \in Keys : k[1] \in W => ChnkOk(k)'
  PROVE  CopyInv'
<1>0. g_vctr_uqid' \in Nat
  BY DEF TypeOK
<1>1. \A u \in Uqids \ W : VctrOk(u)' /\ \A k \in Keys : k[1] = u => ChnkOk(k)'
  BY <1>0, UntouchedOk
<1>2. \A k \in Keys : ChnkOk(k)'
  BY <1>1, KeyParts
<1>3. \A v \in Uqids : VctrOk(v)'
  BY <1>1
<1> QED BY <1>2, <1>3, CopyFromParts

(* A step that stores the row of v and leaves the others' chunks alone.    *)
LEMMA OthersUntouched ==
  ASSUME TypeOK, NEW v \in Uqids, NEW y, vctr' = [vctr EXCEPT ![v] = y],
         vctrs' \subseteq vctrs \cup {v}, half_deleted \subseteq half_deleted',
         \A k \in Keys : k[1] # v =>
           (k \in chnks' <=> k \in chnks) /\ chnk'[k] = chnk[k] /\ l2'[k] = l2[k]
  PROVE  \A u \in Uqids \ {v} : Untouched(u)
<1> SUFFICES ASSUME NEW u \in Uqids, u # v PROVE Untouched(u)
  OBVIOUS
<1>1. vctr'[u] = vctr[u] /\ Keeps(vctr[u], vctr[u])
  BY FieldsKeep DEF TypeOK
<1>2. u \in vctrs' => u \in vctrs
  OBVIOUS
<1> QED BY <1>1, <1>2 DEF Untouched, Live

-----------------------------------------------------------------------------
(* New vectors.                                                            *)

(* A new row is in order.                                                  *)
LEMMA NewRowOk ==
  ASSUME NEW q, NEW memo, NEW kills, NEW frees, NEW y,
         y = NewVctr(q, memo, kills, frees)
  PROVE  RowOk(y) /\ ~y.is_lma /\ y.num_writers = 0
<1>1. /\ y.num_elements = 0 /\ y.min_chnk_idx = 0 /\ y.is_lma = FALSE
      /\ y.num_writers = 0
  BY DEF NewVctr, ZeroVctr
<1> QED BY <1>1 DEF RowOk

(* Tying it changes nothing that matters here.                             *)
LEMMA TiedRowOk ==
  ASSUME NEW x \in VctrVal, RowOk(x), ~x.is_lma, x.num_writers = 0, NEW k
  PROVE  /\ RowOk([x EXCEPT !.nn_key = k]) /\ RowOk([x EXCEPT !.parent_key = k])
         /\ ~[x EXCEPT !.nn_key = k].is_lma /\ [x EXCEPT !.nn_key = k].num_writers = 0
         /\ ~[x EXCEPT !.parent_key = k].is_lma
         /\ [x EXCEPT !.parent_key = k].num_writers = 0
  BY DEF VctrVal, RowOk

(* A uqid that was never given out has neither chunks nor files.           *)
LEMMA NewUqidOk ==
  ASSUME TypeOK, CopyInv, NEW k \in Keys, k[1] > g_vctr_uqid,
         UNCHANGED <<chnks, l2>>
  PROVE  ChnkOk(k)'
<1>1. k[1] \in Nat /\ g_vctr_uqid \in Nat
  BY KeyParts DEF TypeOK, Uqids
<1>2. ~Reached(k)
  BY <1>1 DEF Reached
<1>3. k \notin chnks /\ l2[k].file = "none"
  BY <1>2 DEF CopyInv, KeysReached
<1> QED BY <1>3 DEF ChnkOk

(* vctr_add().                                                             *)
LEMMA AddCopy ==
  ASSUME TypeOK, TypeOK', CopyInv, VctrAdd
  PROVE  CopyInv'
<1>1. PICK q \in Qtypes, memo \in MemoLens, kills \in {Never} \cup KillIgnores,
           frees \in {Never} \cup FreeIgnores : vctr_add(q, memo, kills, frees)
  BY DEF VctrAdd
<1>2. PICK u : u = g_vctr_uqid + 1
  OBVIOUS
<1>3. PICK y : y = NewVctr(q, memo, kills, frees)
  OBVIOUS
<1>4. /\ u \in Uqids /\ g_vctr_uqid' = u
      /\ \/ UNCHANGED <<vctrs, vctr>>
         \/ vctrs' = vctrs \cup {u} /\ vctr' = [vctr EXCEPT ![u] = y]
      /\ UNCHANGED <<chnks, chnk, l2, half_deleted>>
  BY <1>1, <1>2, <1>3 DEF vctr_add, chnkTable, client
<1>5. g_vctr_uqid \in Nat /\ u > g_vctr_uqid
  BY <1>2 DEF TypeOK
<1>6. g_vctr_uqid <= g_vctr_uqid'
  BY <1>4, <1>5 DEF Uqids
<1>7. CASE UNCHANGED <<vctrs, vctr>>
  <2>1. \A w \in Uqids : Keeps(vctr[w], vctr[w])
    BY FieldsKeep DEF TypeOK
  <2>2. \A w \in Uqids : Untouched(w)
    BY <1>4, <1>7, <2>1 DEF Untouched, Live
  <2>3. PICK W : W = {}
    OBVIOUS
  <2> QED BY <1>6, <2>2, <2>3, OnlyTouched
<1>8. CASE vctrs' = vctrs \cup {u} /\ vctr' = [vctr EXCEPT ![u] = y]
  <2>1. RowOk(y) /\ ~y.is_lma /\ y.num_writers = 0
    BY <1>3, NewRowOk
  <2>2. \A w \in Uqids \ {u} : Untouched(w)
    BY <1>4, <1>8, OthersUntouched
  <2>3. VctrOk(u)'
    <3>1. vctr'[u] = y
      BY <1>4, <1>8 DEF TypeOK
    <3> QED BY <2>1, <3>1 DEF VctrOk, RowOk
  <2>4. \A k \in Keys : k[1] = u => ChnkOk(k)'
    BY <1>4, <1>5, NewUqidOk
  <2>5. PICK W : W = {u}
    OBVIOUS
  <2> QED BY <1>6, <2>2, <2>3, <2>4, <2>5, OnlyTouched
<1> QED BY <1>4, <1>7, <1>8

(* lVector.new() with has_nulls.                                           *)
LEMMA AddWithNnCopy ==
  ASSUME TypeOK, TypeOK', CopyInv, AddWithNn
  PROVE  CopyInv'
<1>1. PICK q \in Qtypes, memo \in MemoLens, kills \in {Never} \cup KillIgnores,
           frees \in {Never} \cup FreeIgnores : NewWithNn(q, memo, kills, frees)
  BY DEF AddWithNn
<1>2. PICK b, n : b = g_vctr_uqid + 1 /\ n = g_vctr_uqid + 2
  OBVIOUS
<1>3. PICK p, r : /\ p = NewVctr(q, memo, kills, frees)
                  /\ r = NewVctr("BL", memo, kills, frees)
  OBVIOUS
<1>4. /\ b \in Uqids /\ n \in Uqids /\ g_vctr_uqid' = n /\ vctrs' = vctrs \cup {b, n}
      /\ vctr' = Tied([vctr EXCEPT ![b] = p, ![n] = r], b, n)
      /\ UNCHANGED <<chnks, chnk, l2, half_deleted>>
  BY <1>1, <1>2, <1>3 DEF NewWithNn, rest, chnkTable, client
<1>5. g_vctr_uqid \in Nat /\ b > g_vctr_uqid /\ n > g_vctr_uqid /\ b # n
  BY <1>2 DEF TypeOK
<1>6. p \in VctrVal /\ r \in VctrVal
  <2>1. /\ q \in {"BL", "SC", "I4"} /\ memo \in Nat
        /\ kills \in Nat \cup {Never} /\ frees \in Nat \cup {Never}
    BY InputTypes
  <2> QED BY <1>3, <2>1, NewVctrType
<1>7. PICK y, z : /\ y = [p EXCEPT !.nn_key = n] /\ z = [r EXCEPT !.parent_key = b]
  OBVIOUS
<1>8. /\ RowOk(y) /\ ~y.is_lma /\ y.num_writers = 0
      /\ RowOk(z) /\ ~z.is_lma /\ z.num_writers = 0
  <2>1. /\ RowOk(p) /\ ~p.is_lma /\ p.num_writers = 0
        /\ RowOk(r) /\ ~r.is_lma /\ r.num_writers = 0
    BY <1>3, NewRowOk
  <2> QED BY <1>6, <1>7, <2>1, TiedRowOk
<1>9. vctr'[b] = y /\ vctr'[n] = z /\ \A u \in Uqids \ {b, n} : vctr'[u] = vctr[u]
  BY <1>4, <1>5, <1>7 DEF TypeOK, Tied
<1>10. \A u \in Uqids \ {b, n} : Untouched(u)
  <2> SUFFICES ASSUME NEW u \in Uqids \ {b, n} PROVE Untouched(u)
    OBVIOUS
  <2>1. vctr'[u] = vctr[u] /\ Keeps(vctr[u], vctr[u])
    BY <1>9, FieldsKeep DEF TypeOK
  <2> QED BY <1>4, <2>1 DEF Untouched, Live
<1>11. VctrOk(b)' /\ VctrOk(n)'
  BY <1>8, <1>9 DEF VctrOk, RowOk
<1>12. \A k \in Keys : k[1] = b \/ k[1] = n => ChnkOk(k)'
  BY <1>4, <1>5, NewUqidOk
<1>13. g_vctr_uqid <= g_vctr_uqid'
  BY <1>4, <1>5 DEF Uqids
<1>14. PICK W : W = {b, n}
  OBVIOUS
<1>15. /\ \A u \in Uqids \ W : Untouched(u)
       /\ \A v \in Uqids \cap W : VctrOk(v)'
       /\ \A k \in Keys : k[1] \in W => ChnkOk(k)'
  BY <1>10, <1>11, <1>12, <1>14
<1> QED BY <1>13, <1>15, OnlyTouched

-----------------------------------------------------------------------------
(* Growth.  A put, or the end of the vector, stores a row and chunks, and  *)
(* memo then takes from both.                                              *)

\* what a put has to see to before memo is run: row x for v, and the chunk
\* table (keys, c)
PutOk(v, x, keys, c) ==
  /\ x \in VctrVal /\ keys \subseteq Keys /\ c \in [Keys -> ChnkVal]
  /\ x.num_elements > 0 => x.max_chnk_idx = (x.num_elements - 1) \div MaxNumInChnk
  /\ x.memo_len = 0 /\ ~x.is_early_freeable => x.min_chnk_idx = 0
  /\ ~x.is_lma /\ (v \in Live => x.num_writers = 0)
  /\ \A k \in Keys : k[1] # v => (k \in keys <=> k \in chnks) /\ c[k] = chnk[k]
  /\ \A k \in Keys : k[1] = v =>
       /\ k \in keys \/ l2[k].file # "none" => /\ x.num_elements > 0
                                               /\ k[2] <= x.max_chnk_idx
       /\ k \in keys => /\ c[k].l2_exists <=> l2[k].file = "full"
                        /\ v \in Live => c[k].l1_mem \/ c[k].l2_exists

(* What memo deletes of it.                                                *)
LEMMA MemoLeaves ==
  ASSUME TypeOK, NEW v \in Uqids, NEW x \in VctrVal, NEW keys, keys \subseteq Keys,
         NEW c \in [Keys -> ChnkVal], NEW e, NEW m, StoreWithMemo(v, x, e, keys, c, m),
         NEW k \in Keys
  PROVE  /\ k \in chnks' => k \in keys
         /\ k[1] # v => (k \in chnks' <=> k \in keys) /\ chnk'[k] = c[k] /\ l2'[k] = l2[k]
         /\ k \in chnks' => chnk'[k] = c[k] /\ l2'[k] = l2[k]
         /\ l2'[k].file # "none" => l2[k].file # "none"
         /\ k \in keys /\ c[k].num_readers > 0 => k \in chnks'
         /\ k \in keys /\ k[1] = v /\ k[2] >= MemoMin(x) => k \in chnks'
         /\ chnk'[k].num_readers = c[k].num_readers
         /\ k[1] = v /\ x.min_chnk_idx <= k[2] /\ k[2] < MemoMin(x)
              /\ c[k].num_readers = 0 => k \notin chnks'
<1> DEFINE D == MemoDel(keys, c, v, x)
<1>1. D \subseteq ChnkIdxs /\ \A i \in D : c[<<v, i>>].num_readers = 0 /\ i < MemoMin(x)
  <2>1. x.min_chnk_idx \in Int /\ MemoMin(x) \in Int
    BY DEF VctrVal, MemoMin
  <2> QED BY <2>1, KeyParts DEF MemoDel, Keys
<1>2. /\ chnks' = keys \ KeysOf(v, D) /\ chnk' = ChnkAfterDel(c, v, D)
      /\ l2' = L2AfterDel(c, v, D, x.is_persist)
  BY DEF StoreWithMemo
<1>8. k \in keys /\ k[1] = v /\ x.min_chnk_idx <= k[2] /\ k[2] < MemoMin(x)
        /\ c[k].num_readers = 0 => k[2] \in D
  <2>1. x.min_chnk_idx \in Int /\ MemoMin(x) \in Int /\ k[2] \in Int /\ k = <<k[1], k[2]>>
    BY KeyParts DEF VctrVal, MemoMin, ChnkIdxs
  <2> QED BY <2>1 DEF MemoDel
<1> HIDE DEF D
<1>3. k \in KeysOf(v, D) <=> k[1] = v /\ k[2] \in D
  BY KeyInKeysOf
<1>4. /\ ~(k[1] = v /\ k[2] \in D) => chnk'[k] = c[k] /\ l2'[k] = l2[k]
      /\ l2'[k] \in {l2[k], NoFile} /\ chnk'[k] \in {c[k], ZeroChnk}
  BY <1>1, <1>2, DelLeaves
<1>9. ZeroChnk.num_readers = 0
  BY DEF ZeroChnk
<1>5. k[1] = v /\ k[2] \in D => c[k].num_readers = 0 /\ k[2] < MemoMin(x)
  BY <1>1, KeyParts
<1>6. NoFile.file = "none"
  BY DEF NoFile
<1>7. k[2] \in Int /\ MemoMin(x) \in Int
  BY KeyParts DEF VctrVal, MemoMin, ChnkIdxs
<1> QED BY <1>2, <1>3, <1>4, <1>5, <1>6, <1>7, <1>8, <1>9

(* The step keeps CopyInv.                                                 *)
LEMMA StoreCopy ==
  ASSUME TypeOK, TypeOK', CopyInv, UqidsGiven, NEW v \in vctrs, NEW x, NEW e \in BOOLEAN,
         NEW keys, NEW c, NEW m, PutOk(v, x, keys, c), StoreWithMemo(v, x, e, keys, c, m),
         UNCHANGED <<g_vctr_uqid, vctrs, half_deleted>>
  PROVE  CopyInv'
<1>0. /\ v \in Uqids /\ x \in VctrVal /\ keys \subseteq Keys /\ c \in [Keys -> ChnkVal]
  BY DEF PutOk, TypeOK
<1>1. PICK y : y = [x EXCEPT !.min_chnk_idx = MemoMin(x), !.is_eov = e]
  OBVIOUS
<1>2. vctr' = [vctr EXCEPT ![v] = y] /\ vctr'[v] = y
  BY <1>0, <1>1 DEF StoreWithMemo, TypeOK
<1>3. /\ y.num_elements = x.num_elements /\ y.max_chnk_idx = x.max_chnk_idx
      /\ y.memo_len = x.memo_len /\ y.is_early_freeable = x.is_early_freeable
      /\ y.min_chnk_idx = MemoMin(x) /\ y.is_lma = x.is_lma
      /\ y.num_writers = x.num_writers /\ y.is_eov = e
  BY <1>0, <1>1 DEF VctrVal
<1>4. \A k \in Keys : k[1] # v =>
        (k \in chnks' <=> k \in chnks) /\ chnk'[k] = chnk[k] /\ l2'[k] = l2[k]
  BY <1>0, MemoLeaves DEF PutOk
<1>5. \A u \in Uqids \ {v} : Untouched(u)
  BY <1>0, <1>2, <1>4, OthersUntouched
<1>6. VctrOk(v)'
  <2>1. x.memo_len = 0 /\ ~x.is_early_freeable => MemoMin(x) = 0
    BY <1>0 DEF PutOk, MemoMin, VctrVal
  <2>2. RowOk(y)
    BY <1>3, <2>1 DEF PutOk, RowOk
  <2>3. ~y.is_lma /\ (v \in Live' => y.num_writers = 0)
    BY <1>3 DEF PutOk, Live
  <2> QED BY <1>2, <2>2, <2>3 DEF VctrOk, RowOk
<1>7. ASSUME NEW k \in Keys, k[1] = v PROVE ChnkOk(k)'
  <2>1. /\ k \in chnks' => k \in keys /\ chnk'[k] = c[k] /\ l2'[k] = l2[k]
        /\ l2'[k].file # "none" => l2[k].file # "none"
    BY <1>0, MemoLeaves
  <2>2. /\ k \in keys \/ l2[k].file # "none" => /\ x.num_elements > 0
                                                /\ k[2] <= x.max_chnk_idx
        /\ k \in keys => /\ c[k].l2_exists <=> l2[k].file = "full"
                         /\ v \in Live => c[k].l1_mem \/ c[k].l2_exists
    BY <1>7 DEF PutOk
  <2>3. k \in chnks' \/ l2'[k].file # "none" => Reached(k)'
    BY <1>2, <1>3, <1>7, <2>1, <2>2 DEF Reached, UqidsGiven
  <2>4. Live' = Live /\ (v \in Live => vctr'[v].num_writers = 0)
    BY <1>2, <1>3 DEF Live, PutOk
  <2> QED BY <1>7, <2>1, <2>2, <2>3, <2>4 DEF ChnkOk
<1>8. PICK W : W = {v}
  OBVIOUS
<1>9. g_vctr_uqid <= g_vctr_uqid'
  BY DEF TypeOK
<1> QED BY <1>0, <1>5, <1>6, <1>7, <1>8, <1>9, OnlyTouched

(* A vector that is not at its end, as it is.                              *)
LEMMA UnfinishedOk ==
  ASSUME TypeOK, CopyInv, NEW v \in vctrs, ~vctr[v].is_eov
  PROVE  PutOk(v, vctr[v], chnks, chnk)
<1>0. v \in Uqids /\ vctr[v] \in VctrVal /\ VctrOk(v) /\ RowOk(vctr[v])
  BY CopyParts DEF TypeOK, CopyInv, RowsOk
<1>1. ~vctr[v].is_lma /\ (v \in Live => vctr[v].num_writers = 0)
  BY <1>0 DEF VctrOk, RowOk, VctrVal
<1>2. ASSUME NEW k \in Keys, k[1] = v
      PROVE  /\ k \in chnks \/ l2[k].file # "none" => /\ vctr[v].num_elements > 0
                                                      /\ k[2] <= vctr[v].max_chnk_idx
             /\ k \in chnks => /\ chnk[k].l2_exists <=> l2[k].file = "full"
                               /\ v \in Live => chnk[k].l1_mem \/ chnk[k].l2_exists
  <2>1. ChnkOk(k)
    BY CopyParts
  <2> QED BY <1>1, <1>2, <2>1 DEF ChnkOk, Reached
<1> QED BY <1>0, <1>1, <1>2 DEF PutOk, RowOk, TypeOK

(* vctr_eov().                                                             *)
LEMMA EovCopy ==
  ASSUME TypeOK, TypeOK', CopyInv, UqidsGiven, VctrEov
  PROVE  CopyInv'
<1>1. PICK v \in Uqids : vctr_eov(v)
  BY DEF VctrEov
<1> DEFINE e == ~MemoFails(chnks, chnk, v, vctr[v])
<1>2. /\ v \in vctrs /\ ~vctr[v].is_eov
      /\ StoreWithMemo(v, vctr[v], e, chnks, chnk, mem_used)
      /\ UNCHANGED <<g_vctr_uqid, vctrs, half_deleted>>
  BY <1>1 DEF vctr_eov, client
<1>3. e \in BOOLEAN
  OBVIOUS
<1> HIDE DEF e
<1> QED BY <1>2, <1>3, UnfinishedOk, StoreCopy

(* A chunk as it is made: in RAM, without a file.                          *)
LEMMA FreshChnkCopy ==
  ASSUME NEW x \in VctrVal, NEW n, NEW S
  PROVE  /\ FreshChnk(x).l1_mem = TRUE /\ FreshChnk(x).l2_exists = FALSE
         /\ [FreshChnk(x) EXCEPT !.num_elements = n, !.l1_data = S].l1_mem = TRUE
         /\ [FreshChnk(x) EXCEPT !.num_elements = n, !.l1_data = S].l2_exists = FALSE
  BY DEF FreshChnk, ZeroChnk

(* put_chunk makes the chunk after the last: not there, and no file of its *)
(* name is left from an earlier one.                                       *)
LEMMA PutChunkOk ==
  ASSUME TypeOK, CopyInv, NEW v \in vctrs, NEW n \in 1..MaxNumInChnk, ~vctr[v].is_eov,
         vctr[v].num_elements % MaxNumInChnk = 0,
         NEW i \in ChnkIdxs,
         i = IF vctr[v].num_elements = 0 THEN 0 ELSE vctr[v].max_chnk_idx + 1,
         NEW y, y = [vctr[v] EXCEPT !.num_elements = @ + n, !.max_chnk_idx = i],
         NEW c, c = [chnk EXCEPT ![<<v, i>>] =
                       [FreshChnk(vctr[v]) EXCEPT !.num_elements = n, !.l1_data = 0..(n - 1)]]
  PROVE  PutOk(v, y, chnks \cup {<<v, i>>}, c) /\ <<v, i>> \notin chnks
<1>1. PICK x : x = vctr[v]
  OBVIOUS
<1>2. PICK f : f = [FreshChnk(x) EXCEPT !.num_elements = n, !.l1_data = 0..(n - 1)]
  OBVIOUS
<1>3. /\ v \in Uqids /\ x \in VctrVal /\ PutOk(v, x, chnks, chnk) /\ n \in Nat /\ n > 0
      /\ <<v, i>> \in Keys /\ i \in Nat
  BY <1>1, UnfinishedOk, KeyParts DEF TypeOK, ChnkIdxs
<1>4. f \in ChnkVal /\ f.l1_mem = TRUE /\ f.l2_exists = FALSE
  <2>1. 0..(n - 1) \in SUBSET Slots
    BY BoundsAssumption DEF BoundsAssumption, Slots
  <2>2. f \in ChnkVal
    BY <1>2, <1>3, <2>1, FreshChnkType, ChnkFieldTypes
  <2>3. PICK S : S = 0..(n - 1)
    OBVIOUS
  <2>4. f = [FreshChnk(x) EXCEPT !.num_elements = n, !.l1_data = S]
    BY <1>2, <2>3, Zenon
  <2>5. f.l1_mem = TRUE /\ f.l2_exists = FALSE
    BY <1>3, <2>4, FreshChnkCopy, Zenon
  <2> QED BY <2>2, <2>5
<1>5. /\ y \in VctrVal /\ y.num_elements = x.num_elements + n /\ y.max_chnk_idx = i
      /\ y.min_chnk_idx = x.min_chnk_idx /\ y.memo_len = x.memo_len
      /\ y.is_early_freeable = x.is_early_freeable /\ y.is_lma = x.is_lma
      /\ y.num_writers = x.num_writers
  <2>1. x.num_elements + n \in Nat
    BY <1>3 DEF VctrVal
  <2>2. y \in VctrVal
    BY <1>1, <1>3, <2>1, VctrFieldTypes
  <2> QED BY <1>1, <1>3, <2>1, <2>2 DEF VctrVal
<1>6. i = (y.num_elements - 1) \div MaxNumInChnk
  <2>1. PICK t : t = x.num_elements
    OBVIOUS
  <2>2. MaxNumInChnk \in Nat /\ t \in Nat /\ n <= MaxNumInChnk /\ t % MaxNumInChnk = 0
    BY <1>1, <1>3, <2>1, BoundsAssumption DEF BoundsAssumption, VctrVal
  <2>3. i * MaxNumInChnk = t
    <3>1. CASE t = 0
      BY <1>1, <2>1, <2>2, <3>1
    <3>2. CASE t > 0
      <4>1. i = (t - 1) \div MaxNumInChnk + 1
        BY <1>1, <1>3, <2>1, <2>2, <3>2 DEF PutOk
      <4> QED BY <2>2, <3>2, <4>1, FullChnks
    <3> QED BY <2>2, <3>1, <3>2
  <2>4. PICK a : a = y.num_elements - 1
    OBVIOUS
  <2>5. a \in Nat /\ t <= a /\ a < t + MaxNumInChnk
    <3>1. PICK z : z = y.num_elements
      OBVIOUS
    <3>2. z = t + n /\ a = z - 1
      BY <1>5, <2>1, <2>4, <3>1, Zenon
    <3> QED BY <1>3, <2>2, <3>2
  <2>6. a \div MaxNumInChnk = i
    BY <1>3, <2>3, <2>5, ChnkIs
  <2> QED BY <2>4, <2>6, Zenon
<1>7. \A k \in Keys : k[1] = v /\ (k \in chnks \/ l2[k].file # "none") => k[2] < i
  BY <1>1, <1>3 DEF PutOk, VctrVal, Keys, ChnkIdxs
<1>8. <<v, i>> \notin chnks /\ l2[<<v, i>>].file = "none"
  BY <1>3, <1>7
<1>9. c = [chnk EXCEPT ![<<v, i>>] = f] /\ c \in [Keys -> ChnkVal]
  BY <1>1, <1>2, <1>3, <1>4 DEF TypeOK
<1>10. \A k \in Keys : c[k] = IF k = <<v, i>> THEN f ELSE chnk[k]
  BY <1>9 DEF TypeOK
<1>11. ASSUME NEW k \in Keys, k[1] = v, k # <<v, i>>
       PROVE  /\ k \in chnks \/ l2[k].file # "none" => k[2] <= i
              /\ k \in chnks => /\ c[k].l2_exists <=> l2[k].file = "full"
                                /\ v \in Live => c[k].l1_mem \/ c[k].l2_exists
  <2>1. k[2] \in Nat
    BY KeyParts DEF ChnkIdxs
  <2> QED BY <1>3, <1>7, <1>10, <1>11, <2>1 DEF PutOk
<1>12. ASSUME NEW k \in Keys, k[1] = v
       PROVE  /\ k \in chnks \cup {<<v, i>>} \/ l2[k].file # "none" =>
                   y.num_elements > 0 /\ k[2] <= y.max_chnk_idx
              /\ k \in chnks \cup {<<v, i>>} =>
                   /\ c[k].l2_exists <=> l2[k].file = "full"
                   /\ v \in Live => c[k].l1_mem \/ c[k].l2_exists
  <2>1. y.num_elements > 0
    BY <1>3, <1>5 DEF VctrVal
  <2>2. CASE k = <<v, i>>
    <3>1. c[k] = f /\ l2[k].file = "none" /\ k[2] = i
      BY <1>8, <1>10, <2>2
    <3>2. i <= i
      BY <1>3
    <3>3. c[k].l1_mem = TRUE /\ c[k].l2_exists = FALSE /\ k[2] <= y.max_chnk_idx
      BY <1>4, <1>5, <3>1, <3>2, Zenon
    <3> QED BY <2>1, <3>1, <3>3
  <2>3. CASE k # <<v, i>>
    BY <1>5, <1>11, <1>12, <2>1, <2>3
  <2> QED BY <2>2, <2>3
<1>13. \A k \in Keys : k[1] # v =>
         (k \in chnks \cup {<<v, i>>} <=> k \in chnks) /\ c[k] = chnk[k]
  BY <1>10
<1>14. chnks \cup {<<v, i>>} \subseteq Keys
  BY <1>3 DEF TypeOK
<1>15. /\ y.memo_len = 0 /\ ~y.is_early_freeable => y.min_chnk_idx = 0
       /\ ~y.is_lma /\ (v \in Live => y.num_writers = 0)
       /\ y.max_chnk_idx = (y.num_elements - 1) \div MaxNumInChnk
  <2>1. /\ x.memo_len = 0 /\ ~x.is_early_freeable => x.min_chnk_idx = 0
        /\ ~x.is_lma /\ (v \in Live => x.num_writers = 0)
    BY <1>3 DEF PutOk
  <2>2. y.max_chnk_idx = (y.num_elements - 1) \div MaxNumInChnk
    BY <1>5, <1>6, Zenon
  <2>3. y.memo_len = 0 /\ ~y.is_early_freeable => y.min_chnk_idx = 0
    BY <1>5, <2>1, Zenon
  <2>4. ~y.is_lma
    BY <1>5, <2>1, Zenon
  <2>5. v \in Live => y.num_writers = 0
    BY <1>5, <2>1, Zenon
  <2> QED BY <2>2, <2>3, <2>4, <2>5
<1> QED BY <1>5, <1>8, <1>9, <1>12, <1>13, <1>14, <1>15 DEF PutOk

(* vctr_put_chunk().                                                       *)
LEMMA PutChunkCopy ==
  ASSUME TypeOK, TypeOK', CopyInv, UqidsGiven, VctrPutChunk
  PROVE  CopyInv'
<1>1. PICK v \in Uqids, n \in 1..MaxNumInChnk, s \in Steals : vctr_put_chunk(v, n, s)
  BY DEF VctrPutChunk
<1> DEFINE x == vctr[v]
           i == IF x.num_elements = 0 THEN 0 ELSE x.max_chnk_idx + 1
           y == [x EXCEPT !.num_elements = @ + n, !.max_chnk_idx = i]
           keys == chnks \cup {<<v, i>>}
           c == [chnk EXCEPT ![<<v, i>>] =
                   [FreshChnk(x) EXCEPT !.num_elements = n, !.l1_data = 0..(n - 1)]]
           m == IF s THEN mem_used ELSE incr_mem_used(mem_used, 1)
           e == n < MaxNumInChnk /\ ~MemoFails(keys, c, v, y)
<1>2. /\ v \in vctrs /\ ~x.is_eov /\ x.num_elements % MaxNumInChnk = 0 /\ i \in ChnkIdxs
      /\ \/ StoreWithMemo(v, x, FALSE, chnks, chnk, mem_used)
         \/ StoreWithMemo(v, y, e, keys, c, m)
      /\ UNCHANGED <<g_vctr_uqid, vctrs, half_deleted>>
  BY <1>1, Zenon DEF vctr_put_chunk, client
<1>3. PutOk(v, x, chnks, chnk)
  BY <1>2, UnfinishedOk
<1>4. PutOk(v, y, keys, c)
  BY <1>2, PutChunkOk
<1>5. e \in BOOLEAN
  OBVIOUS
<1> HIDE DEF x, y, keys, c, m, e
<1> QED BY <1>2, <1>3, <1>4, <1>5, StoreCopy

\* chunk k as vctr_putn(v, n) leaves it in table c, before memo
Filled_n(c, v, n, k) ==
  LET S == SlotsFor(k[2], vctr[v].num_elements, n)
  IN  IF k[1] = v /\ S # {}
      THEN IF k \in chnks
           THEN /\ c[k].l1_mem = chnk[k].l1_mem /\ c[k].l2_exists = chnk[k].l2_exists
                /\ c[k].num_elements = chnk[k].num_elements + Cardinality(S)
                /\ c[k].l1_data = chnk[k].l1_data \cup S
                /\ c[k].num_readers = chnk[k].num_readers
                /\ c[k].num_free_ignore = chnk[k].num_free_ignore
           ELSE /\ c[k].l1_mem /\ ~c[k].l2_exists /\ c[k].num_elements = Cardinality(S)
                /\ c[k].l1_data = S /\ c[k].num_readers = 0
                /\ c[k].num_free_ignore = FreshLives(vctr[v])
      ELSE c[k] = chnk[k]

\* the chunks it makes
NewIdxs(v, n) ==
  {i \in ChnkIdxs : SlotsFor(i, vctr[v].num_elements, n) # {} /\ ~chnk_is(v, i)}

(* A put of n elements, seen chunk by chunk.                               *)
LEMMA PutnShape ==
  ASSUME TypeOK, NEW v \in Uqids, NEW n \in 1..(MaxNumInChnk + 1), vctr_putn(v, n)
  PROVE  \E y, keys, c, m :
           /\ StoreWithMemo(v, y, FALSE, keys, c, m)
           /\ y \in VctrVal /\ keys \subseteq Keys /\ c \in [Keys -> ChnkVal]
           /\ y = [vctr[v] EXCEPT !.num_elements = vctr[v].num_elements + n,
                     !.max_chnk_idx = (vctr[v].num_elements + n - 1) \div MaxNumInChnk]
           /\ m = incr_mem_used(mem_used, Cardinality(NewIdxs(v, n)))
           /\ \A k \in Keys :
                /\ k \in keys <=> \/ k \in chnks
                                  \/ /\ k[1] = v
                                     /\ SlotsFor(k[2], vctr[v].num_elements, n) # {}
                /\ Filled_n(c, v, n, k)
<1> DEFINE x == vctr[v]
           last == (x.num_elements + n - 1) \div MaxNumInChnk
           S(i) == SlotsFor(i, x.num_elements, n)
           Gets == {i \in ChnkIdxs : S(i) # {}}
           New  == {i \in Gets : ~chnk_is(v, i)}
           old(k) == IF k[2] \in New THEN FreshChnk(x) ELSE chnk[k]
           c == [k \in Keys |->
                   IF k \in KeysOf(v, Gets)
                   THEN [old(k) EXCEPT !.num_elements = @ + Cardinality(S(k[2])),
                                       !.l1_data = @ \cup S(k[2])]
                   ELSE chnk[k]]
           y == [x EXCEPT !.num_elements = @ + n, !.max_chnk_idx = last]
           keys == chnks \cup KeysOf(v, New)
           m == incr_mem_used(mem_used, Cardinality(New))
<1>1. StoreWithMemo(v, y, FALSE, keys, c, m)
  BY Zenon DEF vctr_putn
<1>2. x \in VctrVal /\ n \in Nat /\ n >= 1
  BY BoundsAssumption DEF TypeOK, BoundsAssumption
<1>3. /\ y \in VctrVal
      /\ y = [x EXCEPT !.num_elements = x.num_elements + n, !.max_chnk_idx = last]
  <2>1. x.num_elements + n \in Nat /\ x.num_elements + n - 1 \in Nat
    BY <1>2 DEF VctrVal
  <2>2. last \in Nat
    BY <2>1, Quotients
  <2> HIDE DEF last
  <2> QED BY <2>1, <2>2, <1>2, VctrFieldTypes
<1>4. keys \subseteq Keys
  BY DEF TypeOK, KeysOf, Keys
<1>5. ASSUME NEW k \in Keys
      PROVE  /\ k \in keys <=> k \in chnks \/ (k[1] = v /\ S(k[2]) # {})
             /\ Filled_n(c, v, n, k) /\ c[k] \in ChnkVal
  <2>1. /\ k[2] \in ChnkIdxs /\ k = <<k[1], k[2]>> /\ chnk[k] \in ChnkVal
        /\ S(k[2]) \subseteq Slots
    BY KeyParts DEF TypeOK, SlotsFor
  <2>2. k \in KeysOf(v, Gets) <=> k[1] = v /\ S(k[2]) # {}
    BY <2>1, KeyInKeysOf
  <2>3. k \in KeysOf(v, New) <=> k[1] = v /\ S(k[2]) # {} /\ k \notin chnks
    BY <2>1, KeyInKeysOf DEF chnk_is
  <2>4. c[k] = IF k \in KeysOf(v, Gets)
               THEN [old(k) EXCEPT !.num_elements = @ + Cardinality(S(k[2])),
                                   !.l1_data = @ \cup S(k[2])]
               ELSE chnk[k]
    OBVIOUS
  <2>5. k[1] = v /\ S(k[2]) # {} =>
          old(k) = IF k \in chnks THEN chnk[k] ELSE FreshChnk(x)
    BY <2>1 DEF chnk_is
  <2>6. FreshChnk(x) \in ChnkVal /\ Cardinality(S(k[2])) \in Nat
    BY <1>2, <2>1, FreshChnkType, SmallSets
  <2>7. /\ FreshChnk(x).num_elements = 0 /\ FreshChnk(x).l1_data = {}
        /\ FreshChnk(x).l1_mem = TRUE /\ FreshChnk(x).l2_exists = FALSE
        /\ FreshChnk(x).num_readers = 0
        /\ FreshChnk(x).num_free_ignore = FreshLives(x)
    BY DEF FreshChnk, ZeroChnk, FreshLives
  <2> HIDE DEF old, c, S, Gets
  <2>8. PICK o, s, d : o = old(k) /\ s = S(k[2]) /\ d = Cardinality(S(k[2]))
    OBVIOUS
  <2>9. CASE k[1] = v /\ S(k[2]) # {}
    <3>1. c[k] = [o EXCEPT !.num_elements = o.num_elements + d, !.l1_data = o.l1_data \cup s]
      BY <2>2, <2>4, <2>8, <2>9
    <3>2. o = IF k \in chnks THEN chnk[k] ELSE FreshChnk(x)
      BY <2>5, <2>8, <2>9
    <3>3. o \in ChnkVal /\ o.num_elements + d \in Nat /\ o.l1_data \cup s \in SUBSET Slots
      BY <2>1, <2>6, <2>8, <3>2 DEF ChnkVal
    <3>4. /\ c[k].num_elements = o.num_elements + d /\ c[k].l1_data = o.l1_data \cup s
          /\ c[k].l1_mem = o.l1_mem /\ c[k].l2_exists = o.l2_exists
          /\ c[k].num_readers = o.num_readers /\ c[k] \in ChnkVal
          /\ c[k].num_free_ignore = o.num_free_ignore
      <4>1. PICK e, w : e = o.num_elements + d /\ w = o.l1_data \cup s
        OBVIOUS
      <4>2. [o EXCEPT !.num_elements = e, !.l1_data = w] \in ChnkVal
        BY <3>3, <4>1, ChnkFieldTypes
      <4>3. c[k] = [o EXCEPT !.num_elements = e, !.l1_data = w]
        BY <3>1, <4>1
      <4>4. c[k] \in ChnkVal
        BY <4>2, <4>3
      <4>5. /\ c[k].num_elements = e /\ c[k].l1_data = w
            /\ c[k].l1_mem = o.l1_mem /\ c[k].l2_exists = o.l2_exists
            /\ c[k].num_readers = o.num_readers
            /\ c[k].num_free_ignore = o.num_free_ignore
        BY <3>3, <4>3 DEF ChnkVal
      <4> QED BY <4>1, <4>4, <4>5
    <3>5. k \in chnks => Filled_n(c, v, n, k)
      BY <2>8, <2>9, <3>2, <3>4 DEF Filled_n, S
    <3>6. k \notin chnks => Filled_n(c, v, n, k)
      <4> SUFFICES ASSUME k \notin chnks PROVE Filled_n(c, v, n, k)
        OBVIOUS
      <4>1. /\ c[k].num_elements = d /\ c[k].l1_data = s
            /\ c[k].l1_mem = TRUE /\ c[k].l2_exists = FALSE
            /\ c[k].num_readers = 0 /\ c[k].num_free_ignore = FreshLives(x)
        BY <2>6, <2>7, <2>8, <3>2, <3>4
      <4> QED BY <2>8, <2>9, <4>1 DEF Filled_n, S
    <3> QED BY <2>3, <2>9, <3>4, <3>5, <3>6
  <2>10. CASE ~(k[1] = v /\ S(k[2]) # {})
    <3>1. c[k] = chnk[k]
      BY <2>2, <2>4, <2>10
    <3> QED BY <2>1, <2>3, <2>10, <3>1 DEF Filled_n, S
  <2> QED BY <2>9, <2>10
<1>6. c \in [Keys -> ChnkVal]
  BY <1>5
<1>7. m = incr_mem_used(mem_used, Cardinality(NewIdxs(v, n)))
  <2>1. New = NewIdxs(v, n)
    BY DEF NewIdxs
  <2> QED BY <2>1
<1> HIDE DEF y, keys, c, m, S
<1> QED BY <1>1, <1>3, <1>4, <1>5, <1>6, <1>7 DEF S

(* The chunks a put of n elements to a vector of t gets to: from the last  *)
(* of the vector as it was to the last of the vector as it will be.        *)
LEMMA SlotsRange ==
  ASSUME NEW i \in Nat, NEW t \in Nat, NEW n \in Nat, n >= 1, SlotsFor(i, t, n) # {}
  PROVE  /\ i <= (t + n - 1) \div MaxNumInChnk
         /\ t > 0 => (t - 1) \div MaxNumInChnk <= i
<1>1. MaxNumInChnk \in Nat
  BY BoundsAssumption DEF BoundsAssumption
<1>2. PICK s \in Slots : i * MaxNumInChnk + s \in t..(t + n - 1)
  BY DEF SlotsFor
<1>3. PICK w : w = i * MaxNumInChnk
  OBVIOUS
<1>4. w \in Nat /\ s \in Nat /\ s < MaxNumInChnk
  BY <1>1, <1>3 DEF Slots
<1>5. PICK a : a = t + n - 1
  OBVIOUS
<1>6. a \in Nat /\ w <= a /\ t < w + MaxNumInChnk
  BY <1>1, <1>2, <1>3, <1>4, <1>5
<1>7. i <= a \div MaxNumInChnk
  BY <1>3, <1>6, ChnkBounds
<1>8. ASSUME t > 0 PROVE (t - 1) \div MaxNumInChnk <= i
  <2>1. t - 1 \in Nat /\ t - 1 < w + MaxNumInChnk
    BY <1>1, <1>4, <1>6, <1>8
  <2> QED BY <1>3, <2>1, ChnkBounds
<1> QED BY <1>5, <1>7, <1>8

(* A new chunk has no file of its name: the last chunk is there, and those *)
(* after it never were.                                                    *)
LEMMA PutnOk ==
  ASSUME TypeOK, CopyInv, NEW v \in vctrs, NEW n \in 1..(MaxNumInChnk + 1), ~vctr[v].is_eov,
         vctr[v].num_elements > 0 => chnk_is(v, vctr[v].max_chnk_idx),
         NEW y \in VctrVal, NEW keys, NEW c \in [Keys -> ChnkVal], keys \subseteq Keys,
         y = [vctr[v] EXCEPT !.num_elements = vctr[v].num_elements + n,
                !.max_chnk_idx = (vctr[v].num_elements + n - 1) \div MaxNumInChnk],
         \A k \in Keys :
           /\ k \in keys <=> \/ k \in chnks
                             \/ k[1] = v /\ SlotsFor(k[2], vctr[v].num_elements, n) # {}
           /\ Filled_n(c, v, n, k)
  PROVE  PutOk(v, y, keys, c)
<1>1. PICK x, t, last : /\ x = vctr[v] /\ t = vctr[v].num_elements
                        /\ last = (t + n - 1) \div MaxNumInChnk
  OBVIOUS
<1>2. /\ v \in Uqids /\ x \in VctrVal /\ PutOk(v, x, chnks, chnk)
      /\ MaxNumInChnk \in Nat /\ n \in Nat /\ n >= 1 /\ t \in Nat
  BY <1>1, UnfinishedOk, BoundsAssumption DEF TypeOK, BoundsAssumption, VctrVal
<1>3. PICK a : a = t + n - 1
  OBVIOUS
<1>4. a \in Nat /\ last = a \div MaxNumInChnk /\ last \in Nat /\ t + n \in Nat
  BY <1>1, <1>2, <1>3, ChnkOf
<1>5. y = [x EXCEPT !.num_elements = t + n, !.max_chnk_idx = last]
  BY <1>1
<1>6. /\ y.num_elements = t + n /\ y.max_chnk_idx = last
      /\ y.min_chnk_idx = x.min_chnk_idx /\ y.memo_len = x.memo_len
      /\ y.is_early_freeable = x.is_early_freeable /\ y.is_lma = x.is_lma
      /\ y.num_writers = x.num_writers
  BY <1>2, <1>5 DEF VctrVal
<1>7. /\ x.memo_len = 0 /\ ~x.is_early_freeable => x.min_chnk_idx = 0
      /\ ~x.is_lma /\ (v \in Live => x.num_writers = 0)
      /\ t > 0 => x.max_chnk_idx = (t - 1) \div MaxNumInChnk
  BY <1>1, <1>2 DEF PutOk
<1>8. /\ y.memo_len = 0 /\ ~y.is_early_freeable => y.min_chnk_idx = 0
      /\ ~y.is_lma /\ (v \in Live => y.num_writers = 0)
  BY <1>6, <1>7, Zenon
<1>9. y.max_chnk_idx = (y.num_elements - 1) \div MaxNumInChnk
  <2>1. PICK z : z = y.num_elements
    OBVIOUS
  <2>2. z = t + n
    BY <1>6, <2>1, Zenon
  <2>3. z - 1 = a
    BY <1>2, <1>3, <2>2
  <2> QED BY <1>4, <1>6, <2>1, <2>3, Zenon
<1>10. t > 0 => (t - 1) \div MaxNumInChnk <= last
  <2> SUFFICES ASSUME t > 0 PROVE (t - 1) \div MaxNumInChnk <= last
    OBVIOUS
  <2>1. PICK q : q = (t - 1) \div MaxNumInChnk
    OBVIOUS
  <2>2. q \in Nat /\ q * MaxNumInChnk <= t - 1
    BY <1>2, <2>1, ChnkOf
  <2>3. PICK w : w = q * MaxNumInChnk
    OBVIOUS
  <2>4. w \in Nat /\ w <= a
    BY <1>2, <1>3, <2>2, <2>3
  <2>5. q <= a \div MaxNumInChnk
    BY <1>4, <2>2, <2>3, <2>4, ChnkBounds
  <2> QED BY <1>4, <2>1, <2>5
<1>11. ASSUME NEW k \in Keys, k[1] # v
       PROVE  (k \in keys <=> k \in chnks) /\ c[k] = chnk[k]
  BY <1>11, Zenon DEF Filled_n
<1>12. ASSUME NEW k \in Keys, k[1] = v
       PROVE  /\ k \in keys \/ l2[k].file # "none" => k[2] <= last
              /\ k \in keys => /\ c[k].l2_exists <=> l2[k].file = "full"
                               /\ v \in Live => c[k].l1_mem \/ c[k].l2_exists
  <2>1. PICK S : S = SlotsFor(k[2], t, n)
    OBVIOUS
  <2>2. k \in keys <=> k \in chnks \/ S # {}
    BY <1>1, <1>12, <2>1
  <2>3. /\ S = {} => c[k] = chnk[k]
        /\ S # {} /\ k \in chnks => /\ c[k].l1_mem = chnk[k].l1_mem
                                    /\ c[k].l2_exists = chnk[k].l2_exists
        /\ S # {} /\ k \notin chnks => c[k].l1_mem /\ ~c[k].l2_exists
    <3>1. Filled_n(c, v, n, k)
      OBVIOUS
    <3> QED BY <1>1, <1>12, <2>1, <3>1 DEF Filled_n
  <2>4. k[2] \in Nat /\ k = <<v, k[2]>>
    BY <1>12, KeyParts DEF ChnkIdxs
  <2>5. S # {} => k[2] <= last /\ (t > 0 => x.max_chnk_idx <= k[2])
    BY <1>1, <1>2, <1>7, <2>1, <2>4, SlotsRange
  <2>6. /\ k \in chnks \/ l2[k].file # "none" => t > 0 /\ k[2] <= x.max_chnk_idx
        /\ k \in chnks => /\ chnk[k].l2_exists <=> l2[k].file = "full"
                          /\ v \in Live => chnk[k].l1_mem \/ chnk[k].l2_exists
    BY <1>1, <1>2, <1>12 DEF PutOk
  <2>7. x.max_chnk_idx \in Nat
    BY <1>2 DEF VctrVal
  <2>8. k \in keys \/ l2[k].file # "none" => k[2] <= last
    BY <1>4, <1>7, <1>10, <2>2, <2>4, <2>5, <2>6, <2>7
  <2>9. S # {} /\ k \notin chnks => l2[k].file = "none"
    <3> SUFFICES ASSUME S # {}, k \notin chnks, l2[k].file # "none" PROVE FALSE
      OBVIOUS
    <3>1. k[2] = x.max_chnk_idx /\ t > 0
      BY <2>4, <2>5, <2>6, <2>7
    <3>2. chnk_is(v, k[2])
      BY <1>1, <3>1
    <3> QED BY <2>4, <3>2 DEF chnk_is
  <2> QED BY <2>2, <2>3, <2>6, <2>8, <2>9
<1>13. y.num_elements > 0
  <2>1. t + n > 0
    BY <1>2
  <2> QED BY <1>6, <2>1, Zenon
<1>14. ASSUME NEW k \in Keys, k[1] = v
       PROVE  k \in keys \/ l2[k].file # "none" => y.num_elements > 0
                                                   /\ k[2] <= y.max_chnk_idx
  BY <1>6, <1>12, <1>13, <1>14, Zenon
<1>15. \A k \in Keys : k[1] = v =>
         /\ k \in keys \/ l2[k].file # "none" => y.num_elements > 0
                                                 /\ k[2] <= y.max_chnk_idx
         /\ k \in keys => /\ c[k].l2_exists <=> l2[k].file = "full"
                          /\ v \in Live => c[k].l1_mem \/ c[k].l2_exists
  BY <1>12, <1>14
<1>16. \A k \in Keys : k[1] # v => (k \in keys <=> k \in chnks) /\ c[k] = chnk[k]
  BY <1>11
<1> QED BY <1>8, <1>9, <1>15, <1>16, Zenon DEF PutOk

(* vctr_put1() and vctr_putn().                                            *)
LEMMA PutnCopy ==
  ASSUME TypeOK, TypeOK', CopyInv, UqidsGiven, VctrPutn
  PROVE  CopyInv'
<1>1. PICK v \in Uqids, n \in 1..(MaxNumInChnk + 1) : vctr_putn(v, n)
  BY DEF VctrPutn
<1>2. /\ v \in vctrs /\ ~vctr[v].is_eov
      /\ vctr[v].num_elements > 0 => chnk_is(v, vctr[v].max_chnk_idx)
      /\ UNCHANGED <<g_vctr_uqid, vctrs, half_deleted>>
  BY <1>1, Zenon DEF vctr_putn, client
<1>3. PICK y, keys, c, m :
           /\ StoreWithMemo(v, y, FALSE, keys, c, m)
           /\ y \in VctrVal /\ keys \subseteq Keys /\ c \in [Keys -> ChnkVal]
           /\ y = [vctr[v] EXCEPT !.num_elements = vctr[v].num_elements + n,
                     !.max_chnk_idx = (vctr[v].num_elements + n - 1) \div MaxNumInChnk]
           /\ \A k \in Keys :
                /\ k \in keys <=> \/ k \in chnks
                                  \/ /\ k[1] = v
                                     /\ SlotsFor(k[2], vctr[v].num_elements, n) # {}
                /\ Filled_n(c, v, n, k)
  BY <1>1, PutnShape
<1>4. PutOk(v, y, keys, c)
  BY <1>2, <1>3, PutnOk
<1> QED BY <1>2, <1>3, <1>4, StoreCopy

\* the chunk has a copy of its own, in RAM or on disk
HasCopy(c) == c.l1_mem \/ c.l2_exists

\* what becomes of the files, and their account, when the chunks D of v go; p
\* says whether the files persist, u whether the linear file goes as well
FilesDeleted(v, D, p, u) ==
  /\ l2' = L2AfterDel(chnk, v, D, p)
  /\ lma' = IF u THEN [lma EXCEPT ![v] = NoLma] ELSE lma
  /\ dsk_used' = DskAfterDel(IF u THEN decr_dsk_used(dsk_used, lma[v].size)
                             ELSE dsk_used, chnk, v, D, p)

\* vctr_early_free() seen chunk by chunk: the chunks D of v go, others may
\* lose a life
EarlyFreed(v, D, top) ==
  /\ D \subseteq ChnkIdxs /\ top \in Nat
  /\ \A i \in D : chnk_is(v, i) /\ chnk[<<v, i>>].num_readers = 0
  /\ vctr' = [vctr EXCEPT ![v] = [vctr[v] EXCEPT !.min_chnk_idx = top]]
  /\ mem_used' = MemAfterDel(mem_used, chnk, v, D)
  /\ FilesDeleted(v, D, FALSE, FALSE)
  /\ \A k \in Keys :
       LET gone == k[1] = v /\ k[2] \in D
       IN  /\ k \in chnks' <=> k \in chnks /\ ~gone
           /\ l2'[k].file # "none" => l2[k].file # "none"
           /\ ~gone => /\ l2'[k] = l2[k]
                       /\ chnk'[k].l1_mem = chnk[k].l1_mem
                       /\ chnk'[k].l2_exists = chnk[k].l2_exists
                       /\ chnk'[k].l1_data = chnk[k].l1_data
                       /\ chnk'[k].num_elements = chnk[k].num_elements
           /\ k[1] # v => chnk'[k] = chnk[k]
           /\ chnk'[k].num_readers = chnk[k].num_readers

\* and in which order: no chunk that has run out of lives is left before one
\* that goes, and no chunk that has lives keeps them before one of S, which
\* lose one
FreedInOrder(v, D, top, S) ==
  LET lives(i) == chnk[<<v, i>>].num_free_ignore
      Before(j) == {i \in Present(v) : vctr[v].min_chnk_idx <= i /\ i <= j}
  IN  /\ IF D = {} THEN top = vctr[v].min_chnk_idx
         ELSE top - 1 \in D /\ \A i \in D : vctr[v].min_chnk_idx <= i /\ i <= top - 1
      /\ \A j \in D : /\ lives(j) = 0
                       /\ \A i \in Before(j) :
                            lives(i) = 0 /\ HasCopy(chnk[<<v, i>>]) => i \in D
      /\ \A j \in S : /\ lives(j) > 0
                       /\ \A i \in Before(j) : lives(i) > 0 => i \in S
      /\ \A k \in Keys : ~(k[1] = v /\ k[2] \in D) =>
           chnk'[k].num_free_ignore = IF k[1] = v /\ k[2] \in S
                                      THEN chnk[k].num_free_ignore - 1
                                      ELSE chnk[k].num_free_ignore

(* That is what it does.                                                   *)
LEMMA EarlyFreeShape ==
  ASSUME TypeOK, NEW v \in Uqids, NEW ub \in Int, vctr_early_free(v, ub)
  PROVE  \E D, top, S : EarlyFreed(v, D, top) /\ FreedInOrder(v, D, top, S)
<1> DEFINE x == vctr[v]
           Spared == EarlyFreeSpared(v, ub)
           D == {i \in EarlyFreeRun(v, ub) \ Spared :
                   chnk_is(v, i) /\ (chnk[<<v, i>>].l1_mem \/ chnk[<<v, i>>].l2_exists)}
           c == [k \in Keys |-> IF k \in KeysOf(v, Spared)
                                THEN [chnk[k] EXCEPT !.num_free_ignore = @ - 1]
                                ELSE chnk[k]]
<1>1. /\ \E top \in 0..MaxChnks :
           /\ IF D = {} THEN top = x.min_chnk_idx
              ELSE top - 1 \in D /\ \A i \in D : i <= top - 1
           /\ vctr' = [vctr EXCEPT ![v].min_chnk_idx = top]
      /\ chnks' = chnks \ KeysOf(v, D)
      /\ chnk' = ChnkAfterDel(c, v, D) /\ l2' = L2AfterDel(c, v, D, FALSE)
      /\ mem_used' = MemAfterDel(mem_used, c, v, D)
      /\ dsk_used' = DskAfterDel(dsk_used, c, v, D, FALSE) /\ lma' = lma
  BY Zenon DEF vctr_early_free
<1>2. PICK top \in 0..MaxChnks :
        /\ IF D = {} THEN top = x.min_chnk_idx
           ELSE top - 1 \in D /\ \A i \in D : i <= top - 1
        /\ vctr' = [vctr EXCEPT ![v].min_chnk_idx = top]
  BY <1>1
<1>3. top \in Nat /\ vctr' = [vctr EXCEPT ![v] = [vctr[v] EXCEPT !.min_chnk_idx = top]]
  BY <1>2, BoundsAssumption DEF BoundsAssumption
<1>4. \A i \in D : /\ i \in ChnkIdxs /\ chnk_is(v, i) /\ chnk[<<v, i>>].num_readers = 0
                  /\ chnk[<<v, i>>].num_free_ignore = 0 /\ x.min_chnk_idx <= i
  <2> SUFFICES ASSUME NEW i \in D
               PROVE  /\ i \in ChnkIdxs /\ chnk_is(v, i) /\ chnk[<<v, i>>].num_readers = 0
                      /\ chnk[<<v, i>>].num_free_ignore = 0 /\ x.min_chnk_idx <= i
    OBVIOUS
  <2>1. chnk_is(v, i) /\ i \in EarlyFreeRun(v, ub) /\ i \notin Spared
    OBVIOUS
  <2>2. <<v, i>> \in Keys /\ chnk[<<v, i>>] \in ChnkVal /\ i \in ChnkIdxs
    BY <2>1 DEF chnk_is, TypeOK, Keys
  <2>3. chnk[<<v, i>>].num_free_ignore = 0
    BY <2>1, <2>2 DEF EarlyFreeSpared, ChnkVal
  <2>4. i \in x.min_chnk_idx .. i
    BY <2>1, <2>2 DEF EarlyFreeRun, Run, ChnkIdxs, TypeOK, VctrVal
  <2>5. i \in {j \in ChnkIdxs : chnk_is(v, j) /\ chnk[<<v, j>>].num_free_ignore = 0
                                  => chnk[<<v, j>>].num_readers = 0}
    BY <2>1, <2>4 DEF EarlyFreeRun, Run
  <2>6. x.min_chnk_idx <= i
    BY <2>4, <2>2 DEF ChnkIdxs, TypeOK, VctrVal
  <2> QED BY <2>1, <2>2, <2>3, <2>5, <2>6
<1>5. ASSUME NEW k \in Keys
      PROVE  /\ c[k].l1_mem = chnk[k].l1_mem /\ c[k].l2_exists = chnk[k].l2_exists
             /\ c[k].l1_data = chnk[k].l1_data
             /\ c[k].num_elements = chnk[k].num_elements
             /\ c[k] \in ChnkVal /\ (k[1] # v => c[k] = chnk[k])
  <2>1. chnk[k] \in ChnkVal
    BY DEF TypeOK
  <2>2. CASE k \notin KeysOf(v, Spared)
    BY <2>1, <2>2
  <2>3. CASE k \in KeysOf(v, Spared)
    <3>1. k[1] = v /\ k[2] \in Spared /\ k = <<v, k[2]>>
      BY <2>3, KeyInKeysOf, KeyParts
    <3>2. chnk[k].num_free_ignore > 0
      BY <3>1 DEF EarlyFreeSpared
    <3>3. PICK w : w = chnk[k].num_free_ignore - 1
      OBVIOUS
    <3>4. w \in Nat
      BY <2>1, <3>2, <3>3 DEF ChnkVal
    <3>5. c[k] = [chnk[k] EXCEPT !.num_free_ignore = w]
      BY <2>3, <3>3
    <3> HIDE DEF c, D, Spared
    <3>6. c[k] \in ChnkVal
      BY <2>1, <3>4, <3>5, ChnkFieldTypes
    <3> QED BY <2>1, <3>1, <3>5, <3>6 DEF ChnkVal
  <2> QED BY <2>2, <2>3
<1>6. c \in [Keys -> ChnkVal] /\ D \subseteq ChnkIdxs
  BY <1>4, <1>5
<1>9. ASSUME NEW j \in EarlyFreeRun(v, ub), NEW i \in Present(v), x.min_chnk_idx <= i, i <= j
      PROVE  i \in EarlyFreeRun(v, ub)
  <2>1. PICK lo : lo = x.min_chnk_idx
    OBVIOUS
  <2>2. lo \in Int /\ i \in Int /\ chnk_is(v, i) /\ j \in lo..ub
    BY <2>1 DEF EarlyFreeRun, Run, Present, ChnkIdxs, TypeOK, VctrVal
  <2>3. i \in lo..ub /\ \A h \in lo..i : h \in lo..j
    BY <1>9, <2>1, <2>2
  <2> QED BY <2>1, <2>3 DEF EarlyFreeRun, Run
<1>10. ASSUME NEW j \in D, NEW i \in Present(v), x.min_chnk_idx <= i, i <= j,
              chnk[<<v, i>>].num_free_ignore = 0, HasCopy(chnk[<<v, i>>])
       PROVE  i \in D
  <2>1. j \in EarlyFreeRun(v, ub)
    OBVIOUS
  <2>2. i \in EarlyFreeRun(v, ub) /\ chnk_is(v, i)
    BY <1>9, <1>10, <2>1 DEF Present
  <2>3. i \notin Spared
    BY <1>10 DEF EarlyFreeSpared
  <2> QED BY <1>10, <2>2, <2>3 DEF HasCopy
<1>11. ASSUME NEW j \in Spared
       PROVE  /\ chnk[<<v, j>>].num_free_ignore > 0
              /\ \A i \in Present(v) :
                   x.min_chnk_idx <= i /\ i <= j /\ chnk[<<v, i>>].num_free_ignore > 0
                   => i \in Spared
  <2>1. j \in EarlyFreeRun(v, ub) /\ chnk[<<v, j>>].num_free_ignore > 0
    BY DEF EarlyFreeSpared
  <2>2. ASSUME NEW i \in Present(v), x.min_chnk_idx <= i, i <= j,
               chnk[<<v, i>>].num_free_ignore > 0
        PROVE  i \in Spared
    <3>1. i \in EarlyFreeRun(v, ub) /\ chnk_is(v, i)
      BY <1>9, <2>1, <2>2 DEF Present
    <3> QED BY <2>2, <3>1 DEF EarlyFreeSpared
  <2> QED BY <2>1, <2>2
<1>12. \A k \in Keys : /\ c[k].num_readers = chnk[k].num_readers
                       /\ c[k].num_free_ignore = IF k[1] = v /\ k[2] \in Spared
                                                 THEN chnk[k].num_free_ignore - 1
                                                 ELSE chnk[k].num_free_ignore
  <2> SUFFICES ASSUME NEW k \in Keys
               PROVE  /\ c[k].num_readers = chnk[k].num_readers
                      /\ c[k].num_free_ignore = IF k[1] = v /\ k[2] \in Spared
                                                THEN chnk[k].num_free_ignore - 1
                                                ELSE chnk[k].num_free_ignore
    OBVIOUS
  <2>1. k \in KeysOf(v, Spared) <=> k[1] = v /\ k[2] \in Spared
    BY KeyInKeysOf
  <2>2. PICK w : w = chnk[k].num_free_ignore - 1
    OBVIOUS
  <2>3. c[k] = IF k \in KeysOf(v, Spared) THEN [chnk[k] EXCEPT !.num_free_ignore = w]
               ELSE chnk[k]
    BY <2>2
  <2>4. chnk[k] \in ChnkVal
    BY DEF TypeOK
  <2> HIDE DEF c, Spared
  <2> QED BY <2>1, <2>2, <2>3, <2>4 DEF ChnkVal
<1> HIDE DEF c, D, Spared
<1>7. ASSUME NEW k \in Keys
      PROVE  /\ k \in chnks' <=> k \in chnks /\ ~(k[1] = v /\ k[2] \in D)
             /\ ~(k[1] = v /\ k[2] \in D) => chnk'[k] = c[k] /\ l2'[k] = l2[k]
             /\ l2'[k].file # "none" => l2[k].file # "none"
             /\ chnk'[k].num_readers = chnk[k].num_readers
  <2>1. k \in KeysOf(v, D) <=> k[1] = v /\ k[2] \in D
    BY KeyInKeysOf
  <2>2. PICK p : p = FALSE
    OBVIOUS
  <2>3. l2' = L2AfterDel(c, v, D, p)
    BY <1>1, <2>2, Zenon
  <2>4. /\ ~(k[1] = v /\ k[2] \in D) => chnk'[k] = c[k] /\ l2'[k] = l2[k]
        /\ l2'[k] \in {l2[k], NoFile} /\ chnk'[k] \in {c[k], ZeroChnk}
    <3>1. chnk' = ChnkAfterDel(c, v, D)
      BY <1>1
    <3> QED BY <1>6, <2>3, <3>1, DelLeaves
  <2>5. NoFile.file = "none" /\ ZeroChnk.num_readers = 0
    BY DEF NoFile, ZeroChnk
  <2>6. k[1] = v /\ k[2] \in D => chnk[k].num_readers = 0
    BY <1>4, KeyParts
  <2>7. c[k].num_readers = chnk[k].num_readers
    BY <1>12
  <2> QED BY <1>1, <2>1, <2>4, <2>5, <2>6, <2>7
<1>8. EarlyFreed(v, D, top)
  <2>1. \A i \in D : chnk_is(v, i) /\ chnk[<<v, i>>].num_readers = 0
    BY <1>4
  <2>2. ASSUME NEW k \in Keys
        PROVE  /\ k \in chnks' <=> k \in chnks /\ ~(k[1] = v /\ k[2] \in D)
               /\ l2'[k].file # "none" => l2[k].file # "none"
               /\ ~(k[1] = v /\ k[2] \in D) =>
                     /\ l2'[k] = l2[k]
                     /\ chnk'[k].l1_mem = chnk[k].l1_mem
                     /\ chnk'[k].l2_exists = chnk[k].l2_exists
                     /\ chnk'[k].l1_data = chnk[k].l1_data
                     /\ chnk'[k].num_elements = chnk[k].num_elements
               /\ k[1] # v => chnk'[k] = chnk[k]
               /\ chnk'[k].num_readers = chnk[k].num_readers
    BY <1>5, <1>7
  <2>3. mem_used' = MemAfterDel(mem_used, chnk, v, D)
    <3>1. \A i \in D : c[<<v, i>>].l1_mem = chnk[<<v, i>>].l1_mem
      BY <1>4, <1>5, KeyParts
    <3>2. {i \in D : c[<<v, i>>].l1_mem} = {i \in D : chnk[<<v, i>>].l1_mem}
      BY <3>1
    <3> QED BY <1>1, <3>2 DEF MemAfterDel
  <2>4. FilesDeleted(v, D, FALSE, FALSE)
    <3>1. \A i \in D : c[<<v, i>>].l2_exists = chnk[<<v, i>>].l2_exists
      BY <1>4, <1>5, KeyParts
    <3>2. WithL2(c, v, D) = WithL2(chnk, v, D)
      BY <3>1 DEF WithL2
    <3>3. L2AfterDel(c, v, D, FALSE) = L2AfterDel(chnk, v, D, FALSE)
      BY <3>2, Zenon DEF L2AfterDel
    <3>4. DskAfterDel(dsk_used, c, v, D, FALSE) = DskAfterDel(dsk_used, chnk, v, D, FALSE)
      BY <3>2, Zenon DEF DskAfterDel
    <3> QED BY <1>1, <3>3, <3>4, Zenon DEF FilesDeleted
  <2> QED BY <1>3, <1>6, <2>1, <2>2, <2>3, <2>4, Zenon DEF EarlyFreed
<1>13. FreedInOrder(v, D, top, Spared)
  <2>1. IF D = {} THEN top = x.min_chnk_idx
        ELSE top - 1 \in D /\ \A i \in D : x.min_chnk_idx <= i /\ i <= top - 1
    BY <1>2, <1>4
  <2>2. \A j \in D : chnk[<<v, j>>].num_free_ignore = 0
    BY <1>4
  <2>3. \A k \in Keys : ~(k[1] = v /\ k[2] \in D) =>
          chnk'[k].num_free_ignore = IF k[1] = v /\ k[2] \in Spared
                                     THEN chnk[k].num_free_ignore - 1
                                     ELSE chnk[k].num_free_ignore
    BY <1>7, <1>12
  <2> QED BY <1>10, <1>11, <2>1, <2>2, <2>3 DEF FreedInOrder
<1> QED BY <1>8, <1>13

(* Its step keeps CopyInv: a vector it is called on has no linear file.    *)
LEMMA EarlyFreeCopy ==
  ASSUME TypeOK, TypeOK', CopyInv, UqidsGiven, VctrEarlyFree
  PROVE  CopyInv'
<1>0. PICK v \in Uqids : \E ub \in EarlyFreeArgs(v) : vctr_early_free(v, ub)
  BY DEF VctrEarlyFree
<1>1. PICK ub \in EarlyFreeArgs(v) : vctr_early_free(v, ub)
  BY <1>0
<1>2. /\ v \in vctrs /\ ~vctr[v].is_eov /\ vctr[v].num_elements > 0
      /\ vctr[v].is_early_freeable /\ UNCHANGED <<g_vctr_uqid, vctrs, half_deleted>>
  BY <1>1, Zenon DEF vctr_early_free, client
<1>3. PICK D, top : EarlyFreed(v, D, top)
  BY <1>1, EarlyFreeShape DEF EarlyFreeArgs
<1>4. PICK y : y = [vctr[v] EXCEPT !.min_chnk_idx = top]
  OBVIOUS
<1>5. /\ vctr[v] \in VctrVal /\ vctr' = [vctr EXCEPT ![v] = y] /\ vctr'[v] = y
  BY <1>3, <1>4 DEF TypeOK, EarlyFreed
<1>6. /\ y.num_elements = vctr[v].num_elements /\ y.max_chnk_idx = vctr[v].max_chnk_idx
      /\ y.is_eov = vctr[v].is_eov /\ y.is_lma = vctr[v].is_lma
      /\ y.num_writers = vctr[v].num_writers
      /\ y.is_early_freeable = vctr[v].is_early_freeable
  BY <1>4, <1>5 DEF VctrVal
<1>7. PutOk(v, vctr[v], chnks, chnk)
  BY <1>2, UnfinishedOk
<1>8. ASSUME NEW k \in Keys
      PROVE  /\ k \in chnks' => k \in chnks
             /\ k \in chnks' => /\ l2'[k] = l2[k]
                                /\ chnk'[k].l1_mem = chnk[k].l1_mem
                                /\ chnk'[k].l2_exists = chnk[k].l2_exists
             /\ l2'[k].file # "none" => l2[k].file # "none"
             /\ k[1] # v => /\ k \in chnks' <=> k \in chnks
                            /\ chnk'[k] = chnk[k] /\ l2'[k] = l2[k]
  BY <1>3 DEF EarlyFreed
<1>9. \A u \in Uqids \ {v} : Untouched(u)
  <2>1. \A k \in Keys : k[1] # v =>
          (k \in chnks' <=> k \in chnks) /\ chnk'[k] = chnk[k] /\ l2'[k] = l2[k]
    BY <1>8
  <2> QED BY <1>2, <1>5, <2>1, OthersUntouched
<1>10. VctrOk(v)'
  <2>0. ~vctr[v].is_lma /\ (v \in Live => vctr[v].num_writers = 0)
    BY <1>7 DEF PutOk
  <2>1. ~y.is_lma /\ (v \in Live => y.num_writers = 0) /\ y.is_early_freeable
    BY <1>2, <1>6, <2>0, Zenon
  <2>2. RowOk(vctr[v])
    BY <1>2 DEF CopyInv, RowsOk
  <2>3. RowOk(y)
    BY <1>6, <2>1, <2>2 DEF RowOk
  <2> QED BY <1>2, <1>5, <2>1, <2>3 DEF VctrOk, RowOk, Live
<1>11. ASSUME NEW k \in Keys, k[1] = v PROVE ChnkOk(k)'
  <2>1. /\ k \in chnks \/ l2[k].file # "none" => /\ vctr[v].num_elements > 0
                                                 /\ k[2] <= vctr[v].max_chnk_idx
        /\ k \in chnks => /\ chnk[k].l2_exists <=> l2[k].file = "full"
                          /\ v \in Live => chnk[k].l1_mem \/ chnk[k].l2_exists
        /\ v \in Live => vctr[v].num_writers = 0
    BY <1>7, <1>11 DEF PutOk
  <2>2. k \in chnks' \/ l2'[k].file # "none" => Reached(k)'
    BY <1>2, <1>5, <1>6, <1>8, <1>11, <2>1 DEF Reached, UqidsGiven
  <2>3. k \in chnks' => /\ k \in chnks /\ l2'[k] = l2[k]
                        /\ chnk'[k].l1_mem = chnk[k].l1_mem
                        /\ chnk'[k].l2_exists = chnk[k].l2_exists
    BY <1>8
  <2>4. Live' = Live /\ (v \in Live => vctr'[v].num_writers = 0)
    BY <1>2, <1>5, <1>6, <2>1 DEF Live
  <2> QED BY <1>11, <2>1, <2>2, <2>3, <2>4 DEF ChnkOk
<1>12. PICK W : W = {v}
  OBVIOUS
<1>13. g_vctr_uqid <= g_vctr_uqid'
  BY <1>2 DEF TypeOK
<1> QED BY <1>9, <1>10, <1>11, <1>12, <1>13, OnlyTouched

-----------------------------------------------------------------------------
(* The linear file.                                                        *)

(* A step on v that keeps the chunk table and what its row says of it.     *)
LEMMA SameRangeOk ==
  ASSUME TypeOK, TypeOK', CopyInv, NEW v \in vctrs, NEW y,
         vctr' = [vctr EXCEPT ![v] = y], RowOk(y), UNCHANGED <<g_vctr_uqid, vctrs, chnks,
                                                              half_deleted>>,
         vctr[v].num_elements > 0 => y.num_elements > 0,
         vctr[v].max_chnk_idx = y.max_chnk_idx,
         v \in Live => /\ y.is_lma => Present(v) = Idxs(y)
                       /\ y.num_writers > 0 => y.is_lma,
         \A k \in Keys : k[1] # v => chnk'[k] = chnk[k] /\ l2'[k] = l2[k],
         \A k \in Keys : k[1] = v =>
           /\ l2'[k].file # "none" => l2[k].file # "none"
           /\ k \in chnks => (chnk'[k].l2_exists <=> l2'[k].file = "full")
           /\ k \in chnks /\ v \in Live =>
                /\ chnk'[k].l1_mem \/ chnk'[k].l2_exists \/ y.is_lma
                /\ y.num_writers > 0 => ~chnk'[k].l1_mem /\ ~chnk'[k].l2_exists
  PROVE  CopyInv'
<1>0. v \in Uqids /\ vctr'[v] = y /\ Live' = Live /\ Present(v)' = Present(v)
  BY DEF TypeOK, Live, Present, chnk_is
<1>1. \A u \in Uqids \ {v} : Untouched(u)
  <2>1. \A k \in Keys : k[1] # v =>
          (k \in chnks' <=> k \in chnks) /\ chnk'[k] = chnk[k] /\ l2'[k] = l2[k]
    OBVIOUS
  <2> QED BY <1>0, <2>1, OthersUntouched
<1>2. VctrOk(v)'
  BY <1>0 DEF VctrOk, RowOk, Idxs
<1>3. ASSUME NEW k \in Keys, k[1] = v PROVE ChnkOk(k)'
  <2>1. k \in chnks' \/ l2'[k].file # "none" => Reached(k)
    BY <1>3 DEF CopyInv, KeysReached
  <2>2. Reached(k) => Reached(k)'
    BY <1>0, <1>3 DEF Reached
  <2> QED BY <1>0, <1>3, <2>1, <2>2 DEF ChnkOk
<1>4. PICK W : W = {v}
  OBVIOUS
<1>5. g_vctr_uqid <= g_vctr_uqid'
  BY DEF TypeOK
<1> QED BY <1>1, <1>2, <1>3, <1>4, <1>5, OnlyTouched

(* get_lma_write(): all chunks are dropped from RAM and disk, since the    *)
(* vector has all the chunks of its range.                                 *)
LEMMA GetLmaWriteCopy ==
  ASSUME TypeOK, TypeOK', CopyInv, GetLmaWrite
  PROVE  CopyInv'
<1>1. PICK v \in Uqids : get_lma_write(v)
  BY DEF GetLmaWrite
<1> DEFINE S == DropRun(v)
           L2 == {i \in S : chnk[<<v, i>>].l2_exists}
           f(k) == IF k \in KeysOf(v, S)
                   THEN [chnk[k] EXCEPT !.l1_mem = FALSE, !.l1_data = {},
                                        !.l2_exists = FALSE]
                   ELSE chnk[k]
           h(k) == IF k \in KeysOf(v, L2) THEN NoFile ELSE l2[k]
<1>2. /\ v \in vctrs /\ vctr[v].is_lma
      /\ vctr' = IF vctr[v].X THEN vctr
                 ELSE [vctr EXCEPT ![v].X = TRUE, ![v].num_writers = 1]
      /\ chnk' = [k \in Keys |-> f(k)] /\ l2' = [k \in Keys |-> h(k)]
      /\ UNCHANGED <<g_vctr_uqid, vctrs, chnks, half_deleted>>
  BY <1>1, Zenon DEF get_lma_write, client
<1>3. vctr \in [Uqids -> VctrVal] /\ vctr[v] \in VctrVal
  BY DEF TypeOK
<1>4. PICK y : y = IF vctr[v].X THEN vctr[v]
                   ELSE [vctr[v] EXCEPT !.X = TRUE, !.num_writers = 1]
  OBVIOUS
<1>5. vctr' = [vctr EXCEPT ![v] = y]
  BY <1>2, <1>3, <1>4
<1>6. /\ y.num_elements = vctr[v].num_elements /\ y.min_chnk_idx = vctr[v].min_chnk_idx
      /\ y.max_chnk_idx = vctr[v].max_chnk_idx /\ y.is_eov = vctr[v].is_eov
      /\ y.is_lma = vctr[v].is_lma /\ y.memo_len = vctr[v].memo_len
      /\ y.is_early_freeable = vctr[v].is_early_freeable
  BY <1>3, <1>4 DEF VctrVal
<1>7. RowOk(y)
  <2>1. RowOk(vctr[v])
    BY <1>2 DEF CopyInv, RowsOk
  <2> QED BY <1>6, <2>1 DEF RowOk
<1>8. v \in Live => Present(v) = Idxs(vctr[v]) /\ Idxs(y) = Idxs(vctr[v])
  BY <1>2, <1>6 DEF CopyInv, LmaWhole, Idxs
<1>9. v \in Live => S = Present(v)
  <2> SUFFICES ASSUME v \in Live PROVE S = Present(v)
    OBVIOUS
  <2>1. vctr[v].min_chnk_idx \in Int /\ vctr[v].max_chnk_idx \in Int
    BY <1>3 DEF VctrVal
  <2>2. S = {i \in Idxs(vctr[v]) : \A j \in vctr[v].min_chnk_idx .. i : j \in Present(v)}
    BY DEF DropRun, Run, Idxs, Present
  <2>3. \A i \in Idxs(vctr[v]) : \A j \in vctr[v].min_chnk_idx .. i : j \in Idxs(vctr[v])
    BY <2>1 DEF Idxs
  <2> QED BY <1>8, <2>2, <2>3
<1>10. ASSUME NEW k \in Keys
       PROVE  /\ k[1] # v => chnk'[k] = chnk[k] /\ l2'[k] = l2[k]
              /\ l2'[k].file # "none" => l2[k].file # "none"
              /\ k \in chnks => (chnk'[k].l2_exists <=> l2'[k].file = "full")
              /\ k \in chnks /\ k[1] = v /\ v \in Live =>
                   ~chnk'[k].l1_mem /\ ~chnk'[k].l2_exists
  <2>1. chnk'[k] = f(k) /\ l2'[k] = h(k) /\ chnk[k] \in ChnkVal
    BY <1>2 DEF TypeOK
  <2>2. k \in KeysOf(v, S) <=> k[1] = v /\ k[2] \in S
    BY KeyInKeysOf
  <2>3. k \in KeysOf(v, L2) <=> k[1] = v /\ k[2] \in S /\ chnk[k].l2_exists
    BY KeyInKeysOf, KeyParts
  <2>4. NoFile.file = "none"
    BY DEF NoFile
  <2>5. k \in chnks => (chnk[k].l2_exists <=> l2[k].file = "full")
    BY ChnkFacts
  <2>6. k \in KeysOf(v, S) => chnk'[k].l1_mem = FALSE /\ chnk'[k].l2_exists = FALSE
    BY <2>1 DEF ChnkVal
  <2>7. k \notin KeysOf(v, S) => chnk'[k] = chnk[k]
    BY <2>1
  <2>8. k \in chnks /\ k[1] = v /\ v \in Live => k \in KeysOf(v, S)
    <3>1. k \in chnks /\ k[1] = v => k[2] \in Present(v)
      BY KeyParts DEF Present, chnk_is
    <3> HIDE DEF S
    <3> QED BY <1>9, <2>2, <3>1
  <2>9. /\ k \in KeysOf(v, L2) => l2'[k] = NoFile
        /\ k \notin KeysOf(v, L2) => l2'[k] = l2[k]
    BY <2>1
  <2> HIDE DEF S, L2, f, h
  <2>10. k \in chnks => (chnk'[k].l2_exists <=> l2'[k].file = "full")
    BY <2>2, <2>3, <2>4, <2>5, <2>6, <2>7, <2>9
  <2>11. l2'[k].file # "none" => l2[k].file # "none"
    BY <2>4, <2>9
  <2> QED BY <2>2, <2>3, <2>6, <2>7, <2>8, <2>9, <2>10, <2>11
<1> HIDE DEF S, L2, f, h
<1>11. vctr[v].num_elements > 0 => y.num_elements > 0
  BY <1>6
<1>12. /\ \A k \in Keys : k[1] # v => chnk'[k] = chnk[k] /\ l2'[k] = l2[k]
       /\ \A k \in Keys : k[1] = v =>
           /\ l2'[k].file # "none" => l2[k].file # "none"
           /\ k \in chnks => (chnk'[k].l2_exists <=> l2'[k].file = "full")
           /\ k \in chnks /\ v \in Live =>
                /\ chnk'[k].l1_mem \/ chnk'[k].l2_exists \/ y.is_lma
                /\ y.num_writers > 0 => ~chnk'[k].l1_mem /\ ~chnk'[k].l2_exists
  BY <1>2, <1>6, <1>10
<1> QED BY <1>2, <1>5, <1>6, <1>7, <1>8, <1>11, <1>12, SameRangeOk

(* vctr_chnks_to_lma(): if all chunks could be copied, all were there.     *)
LEMMA ChnksToLmaCopy ==
  ASSUME TypeOK, TypeOK', CopyInv, ChnksToLma
  PROVE  CopyInv'
<1>1. PICK v \in Uqids : vctr_chnks_to_lma(v)
  BY DEF ChnksToLma
<1> DEFINE all == 0..vctr[v].max_chnk_idx
           S == Run(0, vctr[v].max_chnk_idx, FillsLma(v))
<1>2. PICK b : b = (S = all)
  OBVIOUS
<1>3. /\ v \in vctrs /\ ~vctr[v].is_lma /\ vctr[v].is_eov /\ vctr[v].memo_len = 0
      /\ ~vctr[v].is_early_freeable /\ vctr[v].num_elements > 0
      /\ vctr[v].num_writers = 0
      /\ vctr' = [vctr EXCEPT ![v].is_lma = b]
      /\ UNCHANGED <<g_vctr_uqid, vctrs, chnks, chnk, l2, half_deleted>>
  BY <1>1, <1>2, Zenon DEF vctr_chnks_to_lma, chnkTable, client
<1>4. vctr \in [Uqids -> VctrVal] /\ vctr[v] \in VctrVal /\ b \in BOOLEAN
  BY <1>2 DEF TypeOK
<1>5. PICK y : y = [vctr[v] EXCEPT !.is_lma = b]
  OBVIOUS
<1>6. vctr' = [vctr EXCEPT ![v] = y]
  BY <1>3, <1>4, <1>5
<1>7. /\ y.num_elements = vctr[v].num_elements /\ y.min_chnk_idx = vctr[v].min_chnk_idx
      /\ y.max_chnk_idx = vctr[v].max_chnk_idx /\ y.is_eov = vctr[v].is_eov
      /\ y.is_lma = b /\ y.memo_len = vctr[v].memo_len
      /\ y.is_early_freeable = vctr[v].is_early_freeable
      /\ y.num_writers = vctr[v].num_writers
  BY <1>4, <1>5 DEF VctrVal
<1>8. vctr[v].min_chnk_idx = 0 /\ vctr[v].max_chnk_idx \in Nat
  BY <1>3, <1>4 DEF CopyInv, RowsOk, RowOk, VctrVal
<1>9. RowOk(y)
  BY <1>3, <1>7, <1>8 DEF RowOk
<1>10. y.is_lma => Present(v) = Idxs(y)
  <2> SUFFICES ASSUME b PROVE Present(v) = all
    BY <1>7, <1>8 DEF Idxs
  <2>1. all \subseteq Present(v)
    <3>1. S \subseteq FillsLma(v)
      BY <1>8, RunInOk
    <3> QED BY <1>2, <3>1 DEF FillsLma
  <2>2. Present(v) \subseteq all
    <3> SUFFICES ASSUME NEW i \in Present(v) PROVE i \in all
      OBVIOUS
    <3>1. <<v, i>> \in chnks /\ <<v, i>> \in Keys /\ i \in Nat
      BY KeyParts DEF Present, chnk_is, ChnkIdxs
    <3>2. Reached(<<v, i>>)
      BY <3>1 DEF CopyInv, KeysReached
    <3> QED BY <1>3, <1>8, <3>1, <3>2 DEF Reached
  <2> QED BY <2>1, <2>2
<1> HIDE DEF S, all
<1>11. y.num_writers = 0
  BY <1>3, <1>7
<1>12. \A k \in Keys : k[1] = v =>
         /\ l2'[k].file # "none" => l2[k].file # "none"
         /\ k \in chnks => (chnk'[k].l2_exists <=> l2'[k].file = "full")
         /\ k \in chnks /\ v \in Live =>
                /\ chnk'[k].l1_mem \/ chnk'[k].l2_exists \/ y.is_lma
                /\ y.num_writers > 0 => ~chnk'[k].l1_mem /\ ~chnk'[k].l2_exists
  BY <1>3, <1>11, ChnkFacts
<1>13. /\ vctr[v].num_elements > 0 => y.num_elements > 0
       /\ vctr[v].max_chnk_idx = y.max_chnk_idx
       /\ v \in Live => (y.is_lma => Present(v) = Idxs(y)) /\ (y.num_writers > 0 => y.is_lma)
  BY <1>7, <1>10, <1>11
<1>14. \A k \in Keys : k[1] # v => chnk'[k] = chnk[k] /\ l2'[k] = l2[k]
  BY <1>3
<1> QED BY <1>3, <1>6, <1>9, <1>12, <1>13, <1>14, SameRangeOk

(* vctr_append(): the chunks of d stay as they are.                        *)
LEMMA AppendCopy ==
  ASSUME TypeOK, TypeOK', CopyInv, Append
  PROVE  CopyInv'
<1>1. PICK d \in Uqids, s \in Uqids : vctr_append(d, s)
  BY DEF Append
<1>2. PICK t : t = vctr[d].num_elements + vctr[s].num_elements
  OBVIOUS
<1>3. /\ d \in vctrs /\ vctr[d].is_eov /\ vctr[d].is_lma
      /\ vctr[d].num_writers = 0 /\ vctr[s].num_elements > 0
      /\ vctr' = [vctr EXCEPT ![d].num_elements = t]
      /\ UNCHANGED <<g_vctr_uqid, vctrs, chnks, chnk, l2, half_deleted>>
  BY <1>1, <1>2, Zenon DEF vctr_append, chnkTable, client
<1>4. /\ vctr \in [Uqids -> VctrVal] /\ vctr[d] \in VctrVal /\ vctr[s] \in VctrVal
      /\ t \in Nat /\ t > 0
  BY <1>2, <1>3 DEF TypeOK, VctrVal
<1>5. PICK y : y = [vctr[d] EXCEPT !.num_elements = t]
  OBVIOUS
<1>6. vctr' = [vctr EXCEPT ![d] = y]
  BY <1>3, <1>4, <1>5
<1>7. /\ y.num_elements = t /\ y.min_chnk_idx = vctr[d].min_chnk_idx
      /\ y.max_chnk_idx = vctr[d].max_chnk_idx /\ y.is_eov = vctr[d].is_eov
      /\ y.is_lma = vctr[d].is_lma /\ y.memo_len = vctr[d].memo_len
      /\ y.is_early_freeable = vctr[d].is_early_freeable
      /\ y.num_writers = vctr[d].num_writers
  BY <1>4, <1>5 DEF VctrVal
<1>8. RowOk(y)
  <2>1. RowOk(vctr[d])
    BY <1>3 DEF CopyInv, RowsOk
  <2> QED BY <1>3, <1>4, <1>7, <2>1 DEF RowOk
<1>9. \A k \in Keys : k[1] = d =>
         /\ l2'[k].file # "none" => l2[k].file # "none"
         /\ k \in chnks => (chnk'[k].l2_exists <=> l2'[k].file = "full")
         /\ k \in chnks /\ d \in Live =>
                /\ chnk'[k].l1_mem \/ chnk'[k].l2_exists \/ y.is_lma
                /\ y.num_writers > 0 => ~chnk'[k].l1_mem /\ ~chnk'[k].l2_exists
  BY <1>3, <1>7, ChnkFacts
<1>10. /\ vctr[d].num_elements > 0 => y.num_elements > 0
       /\ vctr[d].max_chnk_idx = y.max_chnk_idx
       /\ d \in Live => (y.is_lma => Present(d) = Idxs(y)) /\ (y.num_writers > 0 => y.is_lma)
  BY <1>3, <1>4, <1>7 DEF CopyInv, LmaWhole, Idxs
<1>11. \A k \in Keys : k[1] # d => chnk'[k] = chnk[k] /\ l2'[k] = l2[k]
  BY <1>3
<1> QED BY <1>3, <1>6, <1>8, <1>9, <1>10, <1>11, SameRangeOk

\* vctr_set_lma() seen chunk by chunk: v gets the chunks low..top, of n elements
LmaSet(v, n, low, top) ==
  /\ low \in Nat /\ top \in ChnkIdxs /\ low <= top
  /\ top * MaxNumInChnk < n /\ n <= top * MaxNumInChnk + MaxNumInChnk
  /\ vctr[v].memo_len = 0 => low = 0
  /\ vctr[v].memo_len > 0 => top + 1 - low <= vctr[v].memo_len
  /\ vctr' = [vctr EXCEPT ![v] =
                [vctr[v] EXCEPT !.num_elements = n, !.min_chnk_idx = low,
                   !.max_chnk_idx = top, !.is_eov = TRUE, !.is_lma = TRUE]]
  /\ \A k \in Keys :
       LET new == k[1] = v /\ k[2] \in low..top
       IN  /\ k \in chnks' <=> k \in chnks \/ new
           /\ new => /\ ~chnk'[k].l1_mem /\ ~chnk'[k].l2_exists
                     /\ chnk'[k].num_elements = IF k[2] < top THEN MaxNumInChnk
                                                ELSE n - top * MaxNumInChnk
                     /\ chnk'[k].num_readers = 0
                     /\ chnk'[k].num_free_ignore = FreshLives(vctr[v])
           /\ ~new => chnk'[k] = chnk[k]

(* That is what it does.                                                   *)
LEMMA SetLmaShape ==
  ASSUME TypeOK, NEW v \in Uqids, NEW n \in 1..MaxElems, vctr_set_lma(v, n)
  PROVE  \E low, top : LmaSet(v, n, low, top)
<1>1. PICK M, memo, lives :
        /\ M = MaxNumInChnk /\ memo = vctr[v].memo_len
        /\ lives = FreshLives(vctr[v])
  OBVIOUS
<1>2. PICK top : top = NumChnks(n) - 1
  OBVIOUS
<1>3. PICK low : low = IF memo > 0 /\ top + 1 > memo THEN top + 1 - memo ELSE 0
  OBVIOUS
<1> DEFINE num(i) == IF i < top THEN MaxNumInChnk ELSE n - top * MaxNumInChnk
           Made(i) == [ZeroChnk EXCEPT !.num_elements = num(i), !.num_free_ignore = lives]
           y == [vctr[v] EXCEPT !.num_elements = n, !.min_chnk_idx = low,
                   !.max_chnk_idx = top, !.is_eov = TRUE, !.is_lma = TRUE]
<1>4. /\ chnks' = chnks \cup KeysOf(v, low..top)
      /\ chnk' = [k \in Keys |-> IF k \in KeysOf(v, low..top) THEN Made(k[2]) ELSE chnk[k]]
      /\ vctr' = [vctr EXCEPT ![v] = y]
  BY <1>1, <1>2, <1>3, Zenon DEF vctr_set_lma, FreshLives
<1>5. /\ memo \in Nat /\ M \in Nat /\ M > 0 /\ MaxChnks \in Nat
      /\ n \in Nat /\ n >= 1 /\ n <= MaxChnks * M
  BY <1>1, BoundsAssumption DEF TypeOK, VctrVal, BoundsAssumption, MaxElems
<1>6. top \in Nat /\ top * M < n /\ n <= top * M + M
  <2>1. PICK a, q : a = n + M - 1 /\ q = a \div M
    OBVIOUS
  <2>2. a \in Nat /\ a >= M /\ top = q - 1
    BY <1>1, <1>2, <1>5, <2>1 DEF NumChnks
  <2>3. q \in Nat /\ q * M <= a /\ a < q * M + M
    BY <1>1, <2>1, <2>2, ChnkOf
  <2>4. q >= 1
    BY <1>5, <2>2, <2>3
  <2>5. PICK w : w = (q - 1) * M
    OBVIOUS
  <2>6. w + M = q * M /\ w \in Nat
    BY <1>5, <2>3, <2>4, <2>5
  <2> QED BY <1>5, <2>1, <2>2, <2>3, <2>4, <2>5, <2>6
<1>7. top \in ChnkIdxs
  <2>1. top < MaxChnks
    <3> SUFFICES ASSUME MaxChnks <= top PROVE FALSE
      BY <1>5, <1>6
    <3>1. MaxChnks * M <= top * M
      BY <1>5, <1>6
    <3> QED BY <1>5, <1>6, <3>1
  <2> QED BY <1>5, <1>6, <2>1 DEF ChnkIdxs
<1>8. low \in Nat /\ low <= top /\ (memo = 0 => low = 0) /\ (memo > 0 => top + 1 - low <= memo)
  BY <1>3, <1>5, <1>6
<1>9. ASSUME NEW k \in Keys
      PROVE  /\ k \in chnks' <=> k \in chnks \/ (k[1] = v /\ k[2] \in low..top)
             /\ k[1] = v /\ k[2] \in low..top =>
                  /\ ~chnk'[k].l1_mem /\ ~chnk'[k].l2_exists
                  /\ chnk'[k].num_elements = num(k[2])
                  /\ chnk'[k].num_readers = 0 /\ chnk'[k].num_free_ignore = lives
             /\ ~(k[1] = v /\ k[2] \in low..top) => chnk'[k] = chnk[k]
  <2>1. k \in KeysOf(v, low..top) <=> k[1] = v /\ k[2] \in low..top
    BY KeyInKeysOf
  <2>2. /\ Made(k[2]).l1_mem = FALSE /\ Made(k[2]).l2_exists = FALSE
        /\ Made(k[2]).num_elements = num(k[2])
        /\ Made(k[2]).num_readers = 0 /\ Made(k[2]).num_free_ignore = lives
    <3> HIDE DEF num
    <3> QED BY DEF ZeroChnk
  <2> HIDE DEF Made, num, y
  <2>3. chnk'[k] = IF k \in KeysOf(v, low..top) THEN Made(k[2]) ELSE chnk[k]
    BY <1>4
  <2> QED BY <1>4, <2>1, <2>2, <2>3
<1>10. LmaSet(v, n, low, top)
  <2>1. /\ vctr[v].memo_len = 0 => low = 0
        /\ vctr[v].memo_len > 0 => top + 1 - low <= vctr[v].memo_len
        /\ top * MaxNumInChnk < n /\ n <= top * MaxNumInChnk + MaxNumInChnk
    BY <1>1, <1>6, <1>8
  <2> QED BY <1>1, <1>4, <1>7, <1>8, <1>9, <2>1 DEF LmaSet
<1> QED BY <1>10

(* vctr_set_lma(): an empty vector has neither chunks nor files.           *)
LEMMA SetLmaCopy ==
  ASSUME TypeOK, TypeOK', CopyInv, UqidsGiven, SetLma
  PROVE  CopyInv'
<1>1. PICK v \in Uqids, n \in 1..MaxElems : vctr_set_lma(v, n)
  BY DEF SetLma
<1>2. /\ v \in vctrs /\ vctr[v].num_elements = 0 /\ vctr[v].num_writers = 0
      /\ UNCHANGED <<g_vctr_uqid, vctrs, l2, half_deleted>>
  BY <1>1, Zenon DEF vctr_set_lma, client
<1>3. PICK low, top : LmaSet(v, n, low, top)
  BY <1>1, SetLmaShape
<1>4. PICK y : y = [vctr[v] EXCEPT !.num_elements = n, !.min_chnk_idx = low,
                      !.max_chnk_idx = top, !.is_eov = TRUE, !.is_lma = TRUE]
  OBVIOUS
<1>5. /\ vctr[v] \in VctrVal /\ vctr' = [vctr EXCEPT ![v] = y] /\ vctr'[v] = y
      /\ n \in Nat /\ n > 0 /\ low \in Nat /\ top \in Nat /\ low <= top /\ top \in ChnkIdxs
      /\ vctr[v].memo_len = 0 => low = 0
  BY <1>3, <1>4, BoundsAssumption DEF TypeOK, LmaSet, ChnkIdxs, BoundsAssumption
<1>6. /\ y.num_elements = n /\ y.min_chnk_idx = low /\ y.max_chnk_idx = top
      /\ y.is_eov = TRUE /\ y.is_lma = TRUE /\ y.memo_len = vctr[v].memo_len
      /\ y.num_writers = vctr[v].num_writers
  BY <1>4, <1>5 DEF VctrVal
<1>7. ASSUME NEW k \in Keys
      PROVE  /\ k \in chnks' <=> k \in chnks \/ (k[1] = v /\ k[2] \in low..top)
             /\ k[1] = v /\ k[2] \in low..top => ~chnk'[k].l1_mem /\ ~chnk'[k].l2_exists
             /\ ~(k[1] = v /\ k[2] \in low..top) => chnk'[k] = chnk[k]
  BY <1>3 DEF LmaSet
<1>8. \A k \in Keys : k[1] = v => k \notin chnks /\ l2[k].file = "none"
  BY <1>2 DEF CopyInv, KeysReached, Reached
<1>9. \A u \in Uqids \ {v} : Untouched(u)
  <2>1. \A k \in Keys : k[1] # v =>
          (k \in chnks' <=> k \in chnks) /\ chnk'[k] = chnk[k] /\ l2'[k] = l2[k]
    BY <1>2, <1>7
  <2> QED BY <1>2, <1>5, <2>1, OthersUntouched
<1>10. VctrOk(v)'
  <2>1. RowOk(y)
    BY <1>5, <1>6 DEF RowOk
  <2>2. Present(v)' = low..top
    <3>1. \A i \in ChnkIdxs : <<v, i>> \in chnks' <=> i \in low..top
      BY <1>7, <1>8, KeyParts
    <3>2. low..top \subseteq ChnkIdxs
      BY <1>5, BoundsAssumption DEF ChnkIdxs, BoundsAssumption
    <3> QED BY <3>1, <3>2 DEF Present, chnk_is
  <2> QED BY <1>2, <1>5, <1>6, <2>1, <2>2 DEF VctrOk, RowOk, Idxs
<1>11. ASSUME NEW k \in Keys, k[1] = v PROVE ChnkOk(k)'
  <2>1. k \notin chnks /\ l2'[k].file = "none"
    BY <1>2, <1>8, <1>11
  <2>2. k \in chnks' => /\ k[2] \in low..top /\ ~chnk'[k].l1_mem /\ ~chnk'[k].l2_exists
    BY <1>7, <2>1
  <2>3. k \in chnks' => Reached(k)'
    BY <1>2, <1>5, <1>6, <1>11, <2>2 DEF Reached, UqidsGiven
  <2> QED BY <1>5, <1>6, <1>11, <2>1, <2>2, <2>3 DEF ChnkOk
<1>12. PICK W : W = {v}
  OBVIOUS
<1>13. g_vctr_uqid <= g_vctr_uqid'
  BY <1>2 DEF TypeOK
<1> QED BY <1>9, <1>10, <1>11, <1>12, <1>13, OnlyTouched

-----------------------------------------------------------------------------
(* Deletion.                                                               *)

\* the deletion of v seen chunk by chunk: its chunks D go and, unless some
\* are left, its row
Deleted(v, D) ==
  /\ D \subseteq ChnkIdxs /\ g_vctr_uqid' = g_vctr_uqid
  /\ \A i \in D : chnk_is(v, i) /\ chnk[<<v, i>>].num_readers = 0
  /\ mem_used' = MemAfterDel(mem_used, chnk, v, D)
  /\ \E p, u \in BOOLEAN : FilesDeleted(v, D, p, u)
  /\ \A u \in Uqids \ {v} : Keeps(vctr[u], vctr'[u]) /\ lma'[u] = lma[u]
  /\ \/ /\ vctrs' = vctrs \ {v} /\ half_deleted' = half_deleted
        /\ vctr[v].num_elements = 0 \/ D = Idxs(vctr[v])
     \/ /\ vctrs' = vctrs /\ half_deleted' = half_deleted \cup {v}
        /\ \E b \in BOOLEAN : \E x \in VctrVal :
             /\ Keeps(vctr[v], x) /\ (b => x.is_lma)
             /\ vctr'[v] = [x EXCEPT !.is_lma = b]
  /\ \A k \in Keys :
       LET gone == k[1] = v /\ k[2] \in D
       IN  /\ k \in chnks' <=> k \in chnks /\ ~gone
           /\ l2'[k].file # "none" => l2[k].file # "none"
           /\ ~gone => l2'[k] = l2[k] /\ chnk'[k] = chnk[k]
           /\ chnk'[k].num_readers = chnk[k].num_readers

(* Keeps is transitive.                                                    *)
LEMMA KeepsTwice ==
  ASSUME NEW x, NEW y, NEW z, Keeps(x, y), Keeps(y, z)
  PROVE  Keeps(x, z)
  BY DEF Keeps, KeepsRange

(* vctr_del() either does no more than untie v, or deletes.                *)
LEMMA VctrDelShape ==
  ASSUME TypeOK, NEW x \in [Uqids -> VctrVal], NEW v \in vctrs, vctr_del(x, v),
         \A u \in Uqids : Keeps(vctr[u], x[u])
  PROVE  \/ /\ \A u \in Uqids : Keeps(vctr[u], vctr'[u])
            /\ UNCHANGED <<g_vctr_uqid, vctrs, rest>>
         \/ \E D : Deleted(v, D)
<1> DEFINE val == x[v]
           y == IF val.nn_key # 0 THEN Untied(x, v) ELSE x
           Unlinks == val.is_lma /\ ~val.is_persist
           D == IF val.num_elements = 0 THEN {} ELSE DelRun(v, val)
           b == y[v].is_lma /\ ~Unlinks
           p == val.is_persist
<1>0. v \in Uqids
  BY DEF TypeOK
<1>1. y \in [Uqids -> VctrVal] /\ \A u \in Uqids : Keeps(vctr[u], y[u])
  <2>1. \A u \in Uqids : Keeps(x[u], y[u])
    <3>1. CASE val.nn_key # 0
      BY <1>0, <3>1, TieKeeps
    <3>2. CASE val.nn_key = 0
      BY <3>2, FieldsKeep
    <3> QED BY <3>1, <3>2
  <2>2. y \in [Uqids -> VctrVal]
    BY <1>0, UntieTypes
  <2> HIDE DEF y
  <2> QED BY <2>1, <2>2, KeepsTwice
<1>2. \A i \in D : i \in ChnkIdxs /\ chnk_is(v, i) /\ chnk[<<v, i>>].num_readers = 0
  <2>1. val.min_chnk_idx \in Int /\ val.max_chnk_idx \in Int
    BY <1>0 DEF VctrVal
  <2>2. D \subseteq Freeable(v)
    BY <2>1, RunInOk DEF DelRun
  <2> QED BY <2>2 DEF Freeable
<1>3. \/ vctr' = y /\ UNCHANGED <<g_vctr_uqid, vctrs, rest>>
      \/ /\ \/ /\ vctrs' = vctrs \ {v} /\ vctr' = [y EXCEPT ![v] = ZeroVctr]
               /\ UNCHANGED half_deleted /\ DelChnksDone(v, val)
            \/ /\ vctrs' = vctrs /\ vctr' = [y EXCEPT ![v].is_lma = b]
               /\ half_deleted' = half_deleted \cup {v}
         /\ chnks' = chnks \ KeysOf(v, D)
         /\ chnk' = ChnkAfterDel(chnk, v, D)
         /\ l2' = L2AfterDel(chnk, v, D, p)
         /\ lma' = [lma EXCEPT ![v] = NoLma] \/ lma' = lma
         /\ FilesDeleted(v, D, p, Unlinks)
         /\ mem_used' = MemAfterDel(mem_used, chnk, v, D)
         /\ UNCHANGED <<g_vctr_uqid>>
  BY Zenon DEF vctr_del, FilesDeleted
<1>4. /\ b \in BOOLEAN /\ (b => y[v].is_lma) /\ Unlinks \in BOOLEAN
      /\ p \in BOOLEAN
  BY <1>0 DEF VctrVal
<1> HIDE DEF y, D, b, p, Unlinks
<1>5. CASE vctr' = y /\ UNCHANGED <<g_vctr_uqid, vctrs, rest>>
  BY <1>1, <1>5
<1>8. DelChnksDone(v, val) => vctr[v].num_elements = 0 \/ D = Idxs(vctr[v])
  <2>1. Keeps(vctr[v], val)
    BY <1>0
  <2> QED BY <2>1 DEF DelChnksDone, Keeps, Idxs, D
<1>6. ASSUME \/ /\ vctrs' = vctrs \ {v} /\ vctr' = [y EXCEPT ![v] = ZeroVctr]
                /\ UNCHANGED half_deleted /\ DelChnksDone(v, val)
             \/ /\ vctrs' = vctrs /\ vctr' = [y EXCEPT ![v].is_lma = b]
                /\ half_deleted' = half_deleted \cup {v},
             chnks' = chnks \ KeysOf(v, D), chnk' = ChnkAfterDel(chnk, v, D),
             l2' = L2AfterDel(chnk, v, D, p), g_vctr_uqid' = g_vctr_uqid,
             FilesDeleted(v, D, p, Unlinks),
             mem_used' = MemAfterDel(mem_used, chnk, v, D),
             lma' = [lma EXCEPT ![v] = NoLma] \/ lma' = lma
      PROVE  Deleted(v, D)
  <2>1. ASSUME NEW k \in Keys
        PROVE  /\ k \in chnks' <=> k \in chnks /\ ~(k[1] = v /\ k[2] \in D)
               /\ l2'[k].file # "none" => l2[k].file # "none"
               /\ ~(k[1] = v /\ k[2] \in D) => l2'[k] = l2[k] /\ chnk'[k] = chnk[k]
               /\ chnk'[k].num_readers = chnk[k].num_readers
    <3>1. k \in KeysOf(v, D) <=> k[1] = v /\ k[2] \in D
      BY KeyInKeysOf
    <3>2. /\ ~(k[1] = v /\ k[2] \in D) => chnk'[k] = chnk[k] /\ l2'[k] = l2[k]
          /\ l2'[k] \in {l2[k], NoFile} /\ chnk'[k] \in {chnk[k], ZeroChnk}
      <4>1. chnk \in [Keys -> ChnkVal] /\ D \subseteq ChnkIdxs
        BY <1>2 DEF TypeOK
      <4>2. /\ ~(k[1] = v /\ k[2] \in D) => /\ ChnkAfterDel(chnk, v, D)[k] = chnk[k]
                                              /\ L2AfterDel(chnk, v, D, p)[k] = l2[k]
            /\ L2AfterDel(chnk, v, D, p)[k] \in {l2[k], NoFile}
            /\ ChnkAfterDel(chnk, v, D)[k] \in {chnk[k], ZeroChnk}
        BY <1>0, <4>1, DelLeaves
      <4> QED BY <1>6, <4>2
    <3>3. NoFile.file = "none" /\ ZeroChnk.num_readers = 0
      BY DEF NoFile, ZeroChnk
    <3>4. k[1] = v /\ k[2] \in D => chnk[k].num_readers = 0
      BY <1>2, KeyParts
    <3> QED BY <1>6, <3>1, <3>2, <3>3, <3>4
  <2>2. \A u \in Uqids \ {v} : Keeps(vctr[u], vctr'[u]) /\ lma'[u] = lma[u]
    BY <1>1, <1>6 DEF TypeOK
  <2>3. \/ /\ vctrs' = vctrs \ {v} /\ half_deleted' = half_deleted
           /\ vctr[v].num_elements = 0 \/ D = Idxs(vctr[v])
        \/ /\ vctrs' = vctrs /\ half_deleted' = half_deleted \cup {v}
           /\ \E e \in BOOLEAN : \E z \in VctrVal :
                /\ Keeps(vctr[v], z) /\ (e => z.is_lma)
                /\ vctr'[v] = [z EXCEPT !.is_lma = e]
    <3>1. CASE vctrs' = vctrs \ {v} /\ UNCHANGED half_deleted /\ DelChnksDone(v, val)
      BY <1>8, <3>1
    <3>2. CASE /\ vctrs' = vctrs /\ vctr' = [y EXCEPT ![v].is_lma = b]
               /\ half_deleted' = half_deleted \cup {v}
      <4>1. PICK z : z = y[v]
        OBVIOUS
      <4>2. z \in VctrVal /\ Keeps(vctr[v], z) /\ (b => z.is_lma)
        BY <1>0, <1>1, <1>4, <4>1
      <4>3. vctr'[v] = [z EXCEPT !.is_lma = b]
        BY <1>0, <1>1, <3>2, <4>1
      <4> QED BY <1>4, <3>2, <4>2, <4>3
    <3> QED BY <1>6, <3>1, <3>2
  <2>4. D \subseteq ChnkIdxs /\ \A i \in D : chnk_is(v, i) /\ chnk[<<v, i>>].num_readers = 0
    BY <1>2
  <2>5. \E q, u \in BOOLEAN : FilesDeleted(v, D, q, u)
    BY <1>4, <1>6, Zenon
  <2> QED BY <1>6, <2>1, <2>2, <2>3, <2>4, <2>5, Zenon DEF Deleted
<1>7. (vctr' = y /\ UNCHANGED <<g_vctr_uqid, vctrs, rest>>) \/ Deleted(v, D)
  BY <1>3, <1>6
<1> QED BY <1>5, <1>7

(* delete, kill and brk_nn_vec.                                            *)
LEMMA DeletionShape ==
  ASSUME TypeOK, Delete \/ Kill \/ BrkNnVec
  PROVE  \/ /\ \A u \in Uqids : Keeps(vctr[u], vctr'[u])
            /\ UNCHANGED <<g_vctr_uqid, vctrs, rest>>
         \/ \E v \in vctrs : \E D : Deleted(v, D)
<1>0. vctr \in [Uqids -> VctrVal] /\ \A u \in Uqids : Keeps(vctr[u], vctr[u])
  BY FieldsKeep DEF TypeOK
<1>1. CASE Delete
  <2>1. PICK v \in Uqids : delete(v)
    BY <1>1 DEF Delete
  <2> QED BY <1>0, <2>1, VctrDelShape DEF delete
<1>2. CASE Kill
  <2>1. PICK v \in Uqids : vctr_kill(v)
    BY <1>2 DEF Kill
  <2>2. CASE vctr[v].num_kill_ignore > 0
    <3>1. PICK n, y : n = vctr[v].num_kill_ignore - 1
                      /\ y = [vctr[v] EXCEPT !.num_kill_ignore = n]
      OBVIOUS
    <3>2. /\ vctr' = [vctr EXCEPT ![v] = y] /\ UNCHANGED <<g_vctr_uqid, vctrs, rest>>
      BY <2>1, <2>2, <3>1 DEF vctr_kill
    <3>3. Keeps(vctr[v], y)
      BY <1>0, <3>1, FieldsKeep
    <3>4. \A u \in Uqids : vctr'[u] = IF u = v THEN y ELSE vctr[u]
      BY <1>0, <3>2
    <3> QED BY <1>0, <3>2, <3>3, <3>4
  <2>3. CASE ~(vctr[v].num_kill_ignore > 0)
    BY <1>0, <2>1, <2>3, VctrDelShape DEF vctr_kill
  <2> QED BY <2>2, <2>3
<1>3. CASE BrkNnVec
  <2>1. PICK b \in Uqids, del_nn \in BOOLEAN : vctr_brk_nn_vec(b, del_nn)
    BY <1>3 DEF BrkNnVec
  <2>2. PICK n, x : n = vctr[b].nn_key /\ x = Untied(vctr, b)
    OBVIOUS
  <2>3. /\ n # 0 /\ n \in vctrs
        /\ vctr_del(x, n) \/ (vctr' = x /\ UNCHANGED <<g_vctr_uqid, vctrs, rest>>)
    BY <2>1, <2>2, Zenon DEF vctr_brk_nn_vec
  <2>4. x \in [Uqids -> VctrVal] /\ \A u \in Uqids : Keeps(vctr[u], x[u])
    BY <1>0, <2>2, <2>3, UntieTypes, TieKeeps
  <2> QED BY <2>3, <2>4, VctrDelShape
<1> QED BY <1>1, <1>2, <1>3

(* They keep CopyInv.                                                      *)
LEMMA DeletionCopy ==
  ASSUME TypeOK, TypeOK', CopyInv, Delete \/ Kill \/ BrkNnVec
  PROVE  CopyInv'
<1>1. CASE /\ \A u \in Uqids : Keeps(vctr[u], vctr'[u])
           /\ UNCHANGED <<g_vctr_uqid, vctrs, rest>>
  <2>1. SameTable /\ l2' = l2 /\ chnk' = chnk
    BY <1>1 DEF SameTable, TypeOK, rest, chnkTable, client
  <2> QED BY <2>1, QuietCopies
<1>2. ASSUME NEW v \in vctrs, NEW D, Deleted(v, D) PROVE CopyInv'
  <2>0. v \in Uqids /\ VctrOk(v) /\ \A k \in Keys : ChnkOk(k)
    BY CopyParts DEF TypeOK
  <2>1. \A u \in Uqids \ {v} : Untouched(u)
    <3> SUFFICES ASSUME NEW u \in Uqids, u # v PROVE Untouched(u)
      OBVIOUS
    <3>1. Keeps(vctr[u], vctr'[u]) /\ (u \in vctrs' => u \in vctrs)
      BY <1>2 DEF Deleted
    <3>2. u \in Live' => u \in Live
      BY <1>2 DEF Deleted, Live
    <3>3. \A k \in Keys : k[1] = u =>
            (k \in chnks' <=> k \in chnks) /\ chnk'[k] = chnk[k] /\ l2'[k] = l2[k]
      BY <1>2 DEF Deleted
    <3> QED BY <3>1, <3>2, <3>3 DEF Untouched
  <2>2. v \notin Live'
    BY <1>2 DEF Deleted, Live
  <2>3. v \in vctrs' => /\ RowOk(vctr'[v])
                        /\ vctr'[v].num_elements = vctr[v].num_elements
                        /\ vctr'[v].max_chnk_idx = vctr[v].max_chnk_idx
    <3> SUFFICES ASSUME v \in vctrs'
                 PROVE  /\ RowOk(vctr'[v])
                        /\ vctr'[v].num_elements = vctr[v].num_elements
                        /\ vctr'[v].max_chnk_idx = vctr[v].max_chnk_idx
      OBVIOUS
    <3>1. PICK b \in BOOLEAN, x \in VctrVal :
             /\ Keeps(vctr[v], x) /\ (b => x.is_lma)
             /\ vctr'[v] = [x EXCEPT !.is_lma = b]
      BY <1>2 DEF Deleted
    <3>2. PICK y : y = vctr'[v]
      OBVIOUS
    <3>3. /\ y.num_elements = x.num_elements /\ y.min_chnk_idx = x.min_chnk_idx
          /\ y.max_chnk_idx = x.max_chnk_idx /\ y.is_eov = x.is_eov /\ y.is_lma = b
          /\ y.memo_len = x.memo_len /\ y.is_early_freeable = x.is_early_freeable
      BY <3>1, <3>2 DEF VctrVal
    <3>4. RowOk(vctr[v])
      BY <2>0 DEF VctrOk
    <3>5. RowOk(x)
      BY <3>1, <3>4 DEF RowOk, Keeps
    <3>6. RowOk(y)
      BY <3>1, <3>3, <3>5 DEF RowOk
    <3> QED BY <3>1, <3>2, <3>3, <3>6 DEF Keeps
  <2>4. VctrOk(v)'
    BY <2>2, <2>3 DEF VctrOk, RowOk
  <2>5. ASSUME NEW k \in Keys, k[1] = v PROVE ChnkOk(k)'
    <3>1. /\ k \in chnks' => k \in chnks /\ l2'[k] = l2[k] /\ chnk'[k] = chnk[k]
          /\ l2'[k].file # "none" => l2[k].file # "none"
          /\ g_vctr_uqid' = g_vctr_uqid
      BY <1>2 DEF Deleted
    <3>2. ChnkOk(k)
      BY <2>0
    <3>3. Reached(k) => Reached(k)'
      BY <2>3, <2>5, <3>1 DEF Reached
    <3> QED BY <2>2, <2>5, <3>1, <3>2, <3>3 DEF ChnkOk
  <2>6. PICK W : W = {v}
    OBVIOUS
  <2>7. g_vctr_uqid <= g_vctr_uqid'
    BY <1>2 DEF Deleted, TypeOK
  <2> QED BY <2>1, <2>4, <2>5, <2>6, <2>7, OnlyTouched
<1> QED BY <1>1, <1>2, DeletionShape

-----------------------------------------------------------------------------
(* The whole specification.                                                *)

(* No vector, no chunk and no file: nothing to hold.                       *)
LEMMA InitCopy == Init => CopyInv
  BY KeyParts DEF Init, VctrInit, CopyInv, KeysReached, FilesKnown, RowsOk, LmaWhole,
     WriterHasOnlyCopy, DataHeld, Live, NoFile

(* Every step keeps CopyInv.                                               *)
LEMMA NextCopy ==
  ASSUME TypeOK, TypeOK', CopyInv, UqidsGiven, [Next]_vars
  PROVE  CopyInv'
<1>1. CASE GrowNext
  BY <1>1, AddCopy, PutnCopy, PutChunkCopy, EovCopy, EarlyFreeCopy DEF GrowNext
<1>2. CASE AccessNext
  BY <1>2, GetCopy, ReadersCopy, GetLmaWriteCopy, UngetLmaWriteCopy DEF AccessNext
<1>3. CASE TierNext
  BY <1>3, DropCopy, DropLmaCopy, MakeL1Copy, BackupCopy, UnprefetchCopy, ChnksToLmaCopy,
     LmaToChnksCopy, SetLmaCopy, SetLmaFailsCopy, AppendCopy DEF TierNext
<1>4. CASE LifeNext
  BY <1>4, AttributesCopy, AddWithNnCopy, DeletionCopy DEF LifeNext
<1>5. CASE UNCHANGED vars
  <2>1. /\ g_vctr_uqid' = g_vctr_uqid /\ vctrs' = vctrs /\ vctr' = vctr /\ chnks' = chnks
        /\ chnk' = chnk /\ l2' = l2 /\ half_deleted' = half_deleted
    BY <1>5 DEF vars, vctrTable, chnkTable, client
  <2> QED BY <2>1 DEF CopyInv, KeysReached, Reached, FilesKnown, RowsOk, RowOk, LmaWhole,
             Present, chnk_is, WriterHasOnlyCopy, DataHeld, Live
<1> QED BY <1>1, <1>2, <1>3, <1>4, <1>5 DEF Next

(* CopyInv is an invariant.                                                *)
LEMMA VctrCopyInv == Spec => []CopyInv
<1>1. TypeOK /\ UqidsGiven /\ CopyInv /\ [Next]_vars => CopyInv'
  BY NextType, NextCopy
<1>2. TypeOK /\ NnMutual /\ UqidsGiven => TypeOK /\ UqidsGiven
  OBVIOUS
<1> QED BY <1>1, InitCopy, VctrTypeOK, TiesAndUqids, PTL DEF Spec

(* While the linear file of a vector is written it is the only copy of the *)
(* vector's elements, whatever else is called meanwhile.                   *)
THEOREM VctrWriterHasOnlyCopy == Spec => []WriterHasOnlyCopy
<1>1. CopyInv => WriterHasOnlyCopy
  BY DEF CopyInv
<1> QED BY <1>1, VctrCopyInv, PTL

(* No sequence of drops, prefetches, linearisations and writes leaves a    *)
(* chunk of a vector without a copy of its elements.                       *)
THEOREM VctrDataHeld == Spec => []DataHeld
<1>1. CopyInv => DataHeld
  BY DEF CopyInv
<1> QED BY <1>1, VctrCopyInv, PTL

-----------------------------------------------------------------------------
(* No step takes a chunk that is being read out of the table, or takes     *)
(* elements from it: only the operations that add chunks, memo, early_free *)
(* and the deletions change the chunk table, the rest keep the chunks and  *)
(* their counts of elements.                                               *)

\* what ReadersProtect says of a step
ReadersKept ==
  \A k \in chnks : chnk[k].num_readers > 0 =>
    k \in chnks' /\ chnk'[k].num_elements >= chnk[k].num_elements

\* rows of a chunk with the same elements and lives, and with the same readers
SameCount(c, d) ==
  d.num_elements = c.num_elements /\ d.num_free_ignore = c.num_free_ignore
SameRow(c, d) == SameCount(c, d) /\ d.num_readers = c.num_readers

\* the chunks that are there stay, with the elements and lives they have
SameCounts == chnks' = chnks /\ \A k \in Keys : SameCount(chnk[k], chnk'[k])
SameRows   == chnks' = chnks /\ \A k \in Keys : SameRow(chnk[k], chnk'[k])

(* Rows that are the same count the same elements.                         *)
LEMMA RowsCounts ==
  ASSUME SameRows
  PROVE  SameCounts
  BY DEF SameRows, SameCounts, SameRow

(* Such a step keeps what is being read.                                   *)
LEMMA CountsKept ==
  ASSUME TypeOK, SameCounts
  PROVE  ReadersKept
<1>1. \A k \in chnks : k \in Keys /\ chnk[k].num_elements \in Nat
  BY DEF TypeOK, ChnkVal
<1> QED BY <1>1 DEF SameCounts, SameCount, ReadersKept

(* Changes to the other fields of a chunk's row.                           *)
LEMMA CountFields ==
  ASSUME NEW c \in ChnkVal, NEW a, NEW b, NEW d, NEW r
  PROVE  /\ SameRow(c, c)
         /\ SameRow(c, [c EXCEPT !.l1_mem = a, !.l1_data = b])
         /\ SameRow(c, [c EXCEPT !.l1_mem = a, !.l1_data = b, !.l2_exists = d])
         /\ SameRow(c, [c EXCEPT !.l2_exists = d])
         /\ SameRow(c, [c EXCEPT !.l1_data = b])
         /\ SameCount(c, [c EXCEPT !.num_readers = r])
         /\ [c EXCEPT !.num_readers = r].num_readers = r
  BY DEF ChnkVal, SameRow, SameCount

(* A step that changes one row.                                            *)
LEMMA CountsOfOne ==
  ASSUME TypeOK, chnks' = chnks, NEW j \in Keys, NEW c, chnk' = [chnk EXCEPT ![j] = c]
  PROVE  /\ SameCount(chnk[j], c) => SameCounts
         /\ SameRow(chnk[j], c) => SameRows
<1>1. \A k \in Keys : chnk'[k] = IF k = j THEN c ELSE chnk[k]
  BY DEF TypeOK
<1>2. \A k \in Keys : SameRow(chnk[k], chnk[k])
  BY DEF SameRow, SameCount
<1> QED BY <1>1, <1>2 DEF SameCounts, SameRows, SameRow

(* A reader gets a row with one more reader, and perhaps an L1.            *)
LEMMA GetDataCounts ==
  ASSUME TypeOK, NEW k \in Keys
  PROVE  /\ SameCount(chnk[k], chnk_get_data(k))
         /\ chnk_get_data(k).num_readers = chnk[k].num_readers + 1
         /\ SameRow(chnk[k], [chnk_get_data(k) EXCEPT !.num_readers = @ - 1])
<1>1. chnk[k] \in ChnkVal /\ l2[k].data \in SUBSET Slots
  BY DEF TypeOK, L2File
<1>2. PICK r, c : r = chnk[k].num_readers + 1 /\ c = [chnk[k] EXCEPT !.num_readers = r]
  OBVIOUS
<1>3. c \in ChnkVal /\ SameCount(chnk[k], c) /\ c.num_readers = r
  BY <1>1, <1>2 DEF ChnkVal, SameCount
<1>4. PICK d : d = chnk_get_data(k)
  OBVIOUS
<1>5. d = c \/ d = [c EXCEPT !.l1_mem = TRUE, !.l1_data = l2[k].data]
  BY <1>2, <1>4, Zenon DEF chnk_get_data, LoadL1
<1>6. d \in ChnkVal /\ SameCount(chnk[k], d) /\ d.num_readers = r
  BY <1>1, <1>3, <1>5 DEF ChnkVal, SameCount
<1>7. PICK e : e = [d EXCEPT !.num_readers = @ - 1]
  OBVIOUS
<1>8. SameCount(d, e) /\ e.num_readers = r - 1
  BY <1>6, <1>7 DEF ChnkVal, SameCount
<1>9. chnk[k].num_readers \in Nat
  BY <1>1 DEF ChnkVal
<1> QED BY <1>2, <1>4, <1>6, <1>7, <1>8, <1>9 DEF SameRow, SameCount

-----------------------------------------------------------------------------
(* Reading and writing.                                                    *)
LEMMA AccessCounts ==
  ASSUME TypeOK, AccessNext
  PROVE  SameCounts
<1>0. \A k \in Keys : chnk[k] \in ChnkVal
  BY DEF TypeOK
<1>00. chnks' = chnks /\ chnk' = chnk => SameCounts
  BY DEF SameCounts, SameCount
<1>1. CASE VctrGetChunk
  <2>1. PICK v \in Uqids, i \in ChnkIdxs : vctr_get_chunk(v, i)
    BY <1>1 DEF VctrGetChunk
  <2>2. /\ chnks' = chnks /\ <<v, i>> \in Keys
        /\ chnk' = [chnk EXCEPT ![<<v, i>>] = chnk_get_data(<<v, i>>)]
    BY <2>1, KeyParts DEF vctr_get_chunk
  <2> QED BY <2>2, CountsOfOne, GetDataCounts
<1>2. CASE ChnkIncrReaders \/ VctrUngetChunk
  <2>1. chnks' = chnks /\ \/ chnk' = chnk
                          \/ \E k \in Keys : \E r :
                               chnk' = [chnk EXCEPT ![k] = [chnk[k] EXCEPT !.num_readers = r]]
    <3>1. CASE ChnkIncrReaders
      <4>1. PICK v \in Uqids, i \in ChnkIdxs : chnk_incr_num_readers(v, i)
        BY <3>1 DEF ChnkIncrReaders
      <4>2. PICK k, r : k \in Keys /\ k = <<v, i>> /\ r = chnk[k].num_readers + 1
        BY KeyParts
      <4>3. chnks' = chnks /\ chnk' = [chnk EXCEPT ![k] = [chnk[k] EXCEPT !.num_readers = r]]
        BY <4>1, <4>2 DEF chnk_incr_num_readers, TypeOK
      <4> QED BY <4>2, <4>3
    <3>2. CASE VctrUngetChunk
      <4>1. PICK v \in Uqids, i \in ChnkIdxs : vctr_unget_chunk(v, i)
        BY <3>2 DEF VctrUngetChunk
      <4>2. PICK k, r : k \in Keys /\ k = <<v, i>> /\ r = chnk[k].num_readers - 1
        BY KeyParts
      <4>3. chnks' = chnks /\ \/ chnk' = chnk
                              \/ chnk' = [chnk EXCEPT ![k].num_readers = @ - 1]
        BY <4>1, <4>2, Zenon DEF vctr_unget_chunk
      <4>4. chnk' = [chnk EXCEPT ![k].num_readers = @ - 1] =>
              chnk' = [chnk EXCEPT ![k] = [chnk[k] EXCEPT !.num_readers = r]]
        BY <4>2 DEF TypeOK
      <4> QED BY <4>2, <4>3, <4>4
    <3> QED BY <1>2, <3>1, <3>2
  <2>2. ASSUME NEW k \in Keys, NEW r,
               chnk' = [chnk EXCEPT ![k] = [chnk[k] EXCEPT !.num_readers = r]]
        PROVE  SameCounts
    <3>1. PICK c : c = [chnk[k] EXCEPT !.num_readers = r]
      OBVIOUS
    <3>2. SameCount(chnk[k], c)
      BY <1>0, <3>1, CountFields
    <3> QED BY <2>1, <2>2, <3>1, <3>2, CountsOfOne
  <2> QED BY <1>00, <2>1, <2>2
<1>3. CASE VctrGetChunkLma \/ VctrGetLmaRead \/ VctrUngetLmaRead
  <2>1. chnks' = chnks /\ chnk' = chnk
    BY <1>3, Zenon DEF VctrGetChunkLma, VctrGetLmaRead, VctrUngetLmaRead,
       vctr_get_chunk_lma, vctr_get_lma_read, vctr_unget_lma_read, chnkTable
  <2> QED BY <1>00, <2>1
<1>4. CASE VctrGet1
  <2>1. PICK v \in Uqids, i \in ChnkIdxs : vctr_get1(v, i)
    BY <1>4 DEF VctrGet1
  <2>2. PICK k \in Keys : k = <<v, i>>
    BY KeyParts
  <2>3. /\ chnks' = chnks
        /\ \/ chnk' = chnk
           \/ chnk' = [chnk EXCEPT ![k] = chnk_get_data(k)]
           \/ chnk' = [chnk EXCEPT ![k] = [chnk_get_data(k) EXCEPT !.num_readers = @ - 1]]
    BY <2>1, <2>2, Zenon DEF vctr_get1
  <2> QED BY <1>00, <2>2, <2>3, CountsOfOne, GetDataCounts DEF SameRow
<1>5. CASE GetLmaWrite
  <2>1. PICK v \in Uqids : get_lma_write(v)
    BY <1>5 DEF GetLmaWrite
  <2> DEFINE S == DropRun(v)
             f(k) == [chnk[k] EXCEPT !.l1_mem = FALSE, !.l1_data = {}, !.l2_exists = FALSE]
  <2>2. /\ chnks' = chnks
        /\ chnk' = [k \in Keys |-> IF k \in KeysOf(v, S) THEN f(k) ELSE chnk[k]]
    BY <2>1, Zenon DEF get_lma_write
  <2>3. \A k \in Keys : SameCount(chnk[k], f(k)) /\ SameCount(chnk[k], chnk[k])
    BY <1>0, CountFields DEF SameRow
  <2> HIDE DEF f, S
  <2> QED BY <2>2, <2>3 DEF SameCounts
<1>6. CASE UngetLmaWrite
  <2>1. PICK v \in Uqids : vctr_unget_lma_write(v)
    BY <1>6 DEF UngetLmaWrite
  <2> DEFINE f(k) == [chnk[k] EXCEPT !.l1_data = {}]
  <2>2. /\ chnks' = chnks
        /\ chnk' = [k \in Keys |-> IF k[1] = v THEN f(k) ELSE chnk[k]]
    BY <2>1, Zenon DEF vctr_unget_lma_write
  <2>3. \A k \in Keys : SameCount(chnk[k], f(k)) /\ SameCount(chnk[k], chnk[k])
    BY <1>0, CountFields DEF SameRow
  <2> HIDE DEF f
  <2> QED BY <2>2, <2>3 DEF SameCounts
<1> QED BY <1>1, <1>2, <1>3, <1>4, <1>5, <1>6 DEF AccessNext

(* Making and dropping copies.                                             *)
LEMMA TierCounts ==
  ASSUME TypeOK, \/ DropL1 \/ DropL2 \/ DropLma \/ MakeL1 \/ MakeL2 \/ L1ToL2
                 \/ Unprefetch \/ ChnksToLma \/ LmaToChnks \/ SetLmaFails \/ Append
  PROVE  SameRows
<1>0. \A k \in Keys : chnk[k] \in ChnkVal
  BY DEF TypeOK
<1> DEFINE Dropped(k) == [chnk[k] EXCEPT !.l1_mem = FALSE, !.l1_data = {}]
           Bare(k)    == [chnk[k] EXCEPT !.l2_exists = FALSE]
           Loaded(k)  == LoadL1(chnk[k], k)
           Backed(k)  == [chnk[k] EXCEPT !.l2_exists = TRUE]
<1>00. \A k \in Keys : /\ SameRow(chnk[k], Dropped(k)) /\ SameRow(chnk[k], Bare(k))
                       /\ SameRow(chnk[k], Loaded(k)) /\ SameRow(chnk[k], Backed(k))
                       /\ SameRow(chnk[k], chnk[k])
  BY <1>0, CountFields DEF LoadL1
<1>1. CASE DropL1
  <2>1. PICK K : /\ chnks' = chnks
                 /\ chnk' = [k \in Keys |-> IF k \in K THEN Dropped(k) ELSE chnk[k]]
    BY <1>1, Zenon DEF DropL1, drop_l1, ChnkWith
  <2> HIDE DEF Dropped
  <2> QED BY <1>00, <2>1 DEF SameRows
<1>2. CASE DropL2
  <2>1. PICK K : /\ chnks' = chnks
                 /\ chnk' = [k \in Keys |-> IF k \in K THEN Bare(k) ELSE chnk[k]]
    BY <1>2, Zenon DEF DropL2, drop_l2, ChnkWith
  <2> HIDE DEF Bare
  <2> QED BY <1>00, <2>1 DEF SameRows
<1>3. CASE MakeL1
  <2>1. PICK K : /\ chnks' = chnks
                 /\ chnk' = [k \in Keys |-> IF k \in K THEN Loaded(k) ELSE chnk[k]]
    BY <1>3, Zenon DEF MakeL1, make_l1, ChnkWith
  <2> HIDE DEF Loaded
  <2> QED BY <1>00, <2>1 DEF SameRows
<1>4. CASE MakeL2 \/ L1ToL2
  <2>1. ASSUME NEW v, NEW D, WriteL2(v, D), chnks' = chnks PROVE SameRows
    <3>1. chnk' = [k \in Keys |-> IF k \in KeysOf(v, D) THEN Backed(k) ELSE chnk[k]]
      BY <2>1, Zenon DEF WriteL2, ChnkWith
    <3> HIDE DEF Backed
    <3> QED BY <1>00, <2>1, <3>1 DEF SameRows
  <2>2. ASSUME NEW v, NEW S, NEW N, make_l2(v, S, N) PROVE SameRows
    BY <2>1, <2>2, Zenon DEF make_l2
  <2>3. ASSUME NEW v, vctr_l1_to_l2(v) PROVE SameRows
    BY <2>1, <2>3, Zenon DEF vctr_l1_to_l2
  <2> QED BY <1>4, <2>2, <2>3, Zenon DEF MakeL2, L1ToL2, vctr_make_l2
<1>5. CASE Unprefetch
  <2>1. PICK v \in Uqids, i \in ChnkIdxs : unprefetch(v, i)
    BY <1>5 DEF Unprefetch
  <2>2. PICK k \in Keys : k = <<v, i>>
    BY KeyParts
  <2>3. PICK c : c = [chnk[k] EXCEPT !.l1_mem = FALSE, !.l1_data = {}, !.l2_exists = TRUE]
    OBVIOUS
  <2>4. chnks' = chnks /\ chnk' = [chnk EXCEPT ![k].l1_mem = FALSE, ![k].l1_data = {},
                                               ![k].l2_exists = TRUE]
    BY <2>1, <2>2, Zenon DEF unprefetch
  <2>5. chnk' = [chnk EXCEPT ![k] = c]
    BY <2>3, <2>4 DEF TypeOK
  <2>6. SameRow(chnk[k], c)
    BY <1>0, <2>3, CountFields
  <2> QED BY <2>4, <2>5, <2>6, CountsOfOne
<1>6. CASE DropLma \/ ChnksToLma \/ SetLmaFails \/ Append
  <2>1. chnks' = chnks /\ chnk' = chnk
    BY <1>6, Zenon DEF DropLma, ChnksToLma, SetLmaFails, Append, drop_lma,
       vctr_chnks_to_lma, set_lma_fails, vctr_append, chnkTable
  <2> QED BY <1>00, <2>1 DEF SameRows
<1>7. CASE LmaToChnks
  <2>1. PICK v \in Uqids, level \in 1..2 : vctr_lma_to_chnks(v, level)
    BY <1>7 DEF LmaToChnks
  <2> DEFINE Copied(k) == [chnk[k] EXCEPT !.l1_mem = TRUE, !.l1_data = FromLma(v, k[2])]
  <2>2. \A k \in Keys : SameRow(chnk[k], Copied(k))
    BY <1>0, CountFields
  <2>3. PICK K, L :
          /\ chnks' = chnks
          /\ chnk' = [k \in Keys |->
                        IF k \in K THEN IF chnk[k].l2_exists THEN Loaded(k) ELSE Copied(k)
                        ELSE IF k \in L THEN Backed(k) ELSE chnk[k]]
    BY <2>1, Zenon DEF vctr_lma_to_chnks
  <2> HIDE DEF Loaded, Copied, Backed
  <2> QED BY <1>00, <2>2, <2>3 DEF SameRows
<1> QED BY <1>1, <1>2, <1>3, <1>4, <1>5, <1>6, <1>7

-----------------------------------------------------------------------------
(* The operations that change which chunks there are.                      *)

(* vctr_set_lma() puts chunks on an empty vector, which has none.          *)
LEMMA SetLmaReaders ==
  ASSUME TypeOK, CopyInv, SetLma
  PROVE  ReadersKept
<1>1. PICK v \in Uqids, n \in 1..MaxElems : vctr_set_lma(v, n)
  BY DEF SetLma
<1>2. v \in vctrs /\ vctr[v].num_elements = 0
  BY <1>1, Zenon DEF vctr_set_lma
<1>3. PICK low, top : LmaSet(v, n, low, top)
  BY <1>1, SetLmaShape
<1>4. ASSUME NEW k \in chnks
      PROVE  k \in chnks' /\ chnk'[k].num_elements >= chnk[k].num_elements
  <2>1. k \in Keys /\ Reached(k) /\ chnk[k].num_elements \in Nat
    BY DEF CopyInv, KeysReached, TypeOK, ChnkVal
  <2>2. k[1] # v
    BY <1>2, <2>1 DEF Reached
  <2>3. k \in chnks' /\ chnk'[k] = chnk[k]
    BY <1>3, <2>1, <2>2 DEF LmaSet
  <2> QED BY <2>1, <2>3
<1> QED BY <1>4 DEF ReadersKept

(* A store of table (keys, c) in which no chunk lost readers or elements.  *)
LEMMA StoreReaders ==
  ASSUME TypeOK, NEW v \in Uqids, NEW x \in VctrVal, NEW keys, keys \subseteq Keys,
         NEW c \in [Keys -> ChnkVal], NEW e, NEW m, StoreWithMemo(v, x, e, keys, c, m),
         \A k \in chnks : /\ k \in keys /\ c[k].num_readers = chnk[k].num_readers
                          /\ c[k].num_elements >= chnk[k].num_elements
  PROVE  ReadersKept
<1>1. ASSUME NEW k \in Keys
      PROVE  /\ k \in keys /\ c[k].num_readers > 0 => k \in chnks'
             /\ k \in chnks' => chnk'[k] = c[k]
  BY MemoLeaves, Zenon
<1>2. \A k \in chnks : k \in Keys
  BY DEF TypeOK
<1> QED BY <1>1, <1>2 DEF ReadersKept

(* vctr_putn(), vctr_put_chunk() and vctr_eov(), with what memo deletes.   *)
LEMMA PutReaders ==
  ASSUME TypeOK, CopyInv, VctrPutn \/ VctrPutChunk \/ VctrEov
  PROVE  ReadersKept
<1>0. /\ \A v \in Uqids : vctr[v] \in VctrVal
      /\ \A k \in chnks : /\ k \in Keys /\ chnk[k] \in ChnkVal
                          /\ chnk[k].num_elements \in Nat
      /\ chnks \subseteq Keys /\ chnk \in [Keys -> ChnkVal]
      /\ \A k \in chnks : chnk[k].num_elements >= chnk[k].num_elements
  BY DEF TypeOK, ChnkVal
<1>1. CASE VctrPutn
  <2>1. PICK v \in Uqids, n \in 1..(MaxNumInChnk + 1) : vctr_putn(v, n)
    BY <1>1 DEF VctrPutn
  <2>2. PICK y, keys, c, m :
           /\ StoreWithMemo(v, y, FALSE, keys, c, m)
           /\ y \in VctrVal /\ keys \subseteq Keys /\ c \in [Keys -> ChnkVal]
           /\ \A k \in Keys : (k \in chnks => k \in keys) /\ Filled_n(c, v, n, k)
    BY <2>1, PutnShape
  <2>3. ASSUME NEW k \in chnks
        PROVE  /\ k \in keys /\ c[k].num_readers = chnk[k].num_readers
               /\ c[k].num_elements >= chnk[k].num_elements
    <3>1. PICK S : S = SlotsFor(k[2], vctr[v].num_elements, n)
      OBVIOUS
    <3>2. Cardinality(S) \in Nat
      <4>1. S \subseteq Slots /\ IsFiniteSet(Slots)
        BY <3>1, BoundsAssumption, FS_Interval DEF SlotsFor, Slots
      <4> QED BY <4>1, FS_Subset, FS_CardinalityType
    <3>3. \/ c[k] = chnk[k]
          \/ /\ c[k].num_elements = chnk[k].num_elements + Cardinality(S)
             /\ c[k].num_readers = chnk[k].num_readers
      BY <1>0, <2>2, <3>1 DEF Filled_n
    <3> QED BY <1>0, <2>2, <3>2, <3>3
  <2>4. PICK e : e = FALSE
    OBVIOUS
  <2>5. StoreWithMemo(v, y, e, keys, c, m)
    BY <2>2, <2>4
  <2> QED BY <2>2, <2>3, <2>5, StoreReaders
<1>2. CASE VctrPutChunk
  <2>1. PICK v \in Uqids, n \in 1..MaxNumInChnk, s \in Steals : vctr_put_chunk(v, n, s)
    BY <1>2 DEF VctrPutChunk
  <2>2. PICK f : f = FALSE
    OBVIOUS
  <2> DEFINE x == vctr[v]
             i == IF x.num_elements = 0 THEN 0 ELSE x.max_chnk_idx + 1
             y == [x EXCEPT !.num_elements = @ + n, !.max_chnk_idx = i]
             keys == chnks \cup {<<v, i>>}
             c == [chnk EXCEPT ![<<v, i>>] =
                     [FreshChnk(x) EXCEPT !.num_elements = n, !.l1_data = 0..(n - 1)]]
             m == IF s THEN mem_used ELSE incr_mem_used(mem_used, 1)
             e == n < MaxNumInChnk /\ ~MemoFails(keys, c, v, y)
  <2>3. /\ v \in vctrs /\ ~x.is_eov /\ x.num_elements % MaxNumInChnk = 0 /\ i \in ChnkIdxs
        /\ \/ StoreWithMemo(v, x, f, chnks, chnk, mem_used)
           \/ StoreWithMemo(v, y, e, keys, c, m)
    BY <2>1, <2>2, Zenon DEF vctr_put_chunk
  <2>4. PutOk(v, y, keys, c) /\ <<v, i>> \notin chnks
    BY <2>3, PutChunkOk
  <2>5. ASSUME NEW k \in chnks
        PROVE  k \in keys /\ c[k] = chnk[k]
    BY <1>0, <2>4
  <2> HIDE DEF x, i, y, keys, c, m, e
  <2>6. CASE StoreWithMemo(v, x, f, chnks, chnk, mem_used)
    BY <1>0, <2>6, StoreReaders DEF x
  <2>7. CASE StoreWithMemo(v, y, e, keys, c, m)
    <3>1. y \in VctrVal /\ keys \subseteq Keys /\ c \in [Keys -> ChnkVal]
      BY <2>4 DEF PutOk
    <3> QED BY <1>0, <2>5, <2>7, <3>1, StoreReaders
  <2> QED BY <2>3, <2>6, <2>7
<1>3. CASE VctrEov
  <2>1. PICK v \in Uqids : vctr_eov(v)
    BY <1>3 DEF VctrEov
  <2>2. PICK e : StoreWithMemo(v, vctr[v], e, chnks, chnk, mem_used)
    BY <2>1, Zenon DEF vctr_eov
  <2> QED BY <1>0, <2>2, StoreReaders
<1> QED BY <1>1, <1>2, <1>3

(* vctr_early_free() ends at a chunk that should go and has readers.       *)
LEMMA EarlyFreeReaders ==
  ASSUME TypeOK, VctrEarlyFree
  PROVE  ReadersKept
<1>0. PICK v \in Uqids : \E ub \in EarlyFreeArgs(v) : vctr_early_free(v, ub)
  BY DEF VctrEarlyFree
<1>1. PICK ub \in EarlyFreeArgs(v) : vctr_early_free(v, ub)
  BY <1>0
<1>2. PICK D, top : EarlyFreed(v, D, top)
  BY <1>1, EarlyFreeShape DEF EarlyFreeArgs
<1>3. ASSUME NEW k \in chnks, chnk[k].num_readers > 0
      PROVE  k \in chnks' /\ chnk'[k].num_elements >= chnk[k].num_elements
  <2>1. k \in Keys /\ k = <<k[1], k[2]>> /\ chnk[k].num_elements \in Nat
    BY KeyParts DEF TypeOK, ChnkVal
  <2>2. ~(k[1] = v /\ k[2] \in D)
    BY <1>2, <1>3, <2>1 DEF EarlyFreed
  <2>3. k \in chnks' /\ chnk'[k].num_elements = chnk[k].num_elements
    BY <1>2, <2>1, <2>2 DEF EarlyFreed
  <2> QED BY <2>1, <2>3
<1> QED BY <1>3 DEF ReadersKept

(* A deletion stops at a chunk that has readers.                           *)
LEMMA DeletionReaders ==
  ASSUME TypeOK, Delete \/ Kill \/ BrkNnVec
  PROVE  ReadersKept
<1>1. CASE UNCHANGED rest
  <2>1. SameCounts
    BY <1>1 DEF rest, chnkTable, SameCounts, SameCount
  <2> QED BY <2>1, CountsKept
<1>2. ASSUME NEW v \in vctrs, NEW D, Deleted(v, D) PROVE ReadersKept
  <2>1. ASSUME NEW k \in chnks, chnk[k].num_readers > 0
        PROVE  k \in chnks' /\ chnk'[k].num_elements >= chnk[k].num_elements
    <3>1. k \in Keys /\ k = <<k[1], k[2]>> /\ chnk[k].num_elements \in Nat
      BY KeyParts DEF TypeOK, ChnkVal
    <3>2. ~(k[1] = v /\ k[2] \in D)
      BY <1>2, <2>1, <3>1 DEF Deleted
    <3>3. k \in chnks' /\ chnk'[k] = chnk[k]
      BY <1>2, <3>1, <3>2 DEF Deleted
    <3> QED BY <3>1, <3>3
  <2> QED BY <2>1 DEF ReadersKept
<1> QED BY <1>1, <1>2, DeletionShape

(* New vectors and attributes leave the chunk table alone.                 *)
LEMMA AttributeCounts ==
  ASSUME TypeOK, \/ VctrAdd \/ VctrPersist \/ VctrSetMemo \/ SetKillable \/ SetFreeable
                 \/ SetError \/ SetNnVec \/ AddWithNn
  PROVE  SameRows
<1>1. chnks' = chnks /\ chnk' = chnk
  BY Zenon DEF VctrAdd, VctrPersist, VctrSetMemo, SetKillable, SetFreeable, SetError,
     SetNnVec, AddWithNn, vctr_add, vctr_persist, vctr_set_memo, vctr_set_num_kill_ignore,
     vctr_set_early_freeable, vctr_set_error, set_nn_vec, NewWithNn, rest, chnkTable
<1>2. \A k \in Keys : SameRow(chnk[k], chnk[k])
  BY DEF SameRow, SameCount
<1> QED BY <1>1, <1>2 DEF SameRows

-----------------------------------------------------------------------------
(* What a reader holds stays: memo, early_free, delete, kill and the       *)
(* deletion of an nn vector leave a chunk with readers in the table, and   *)
(* no operation takes elements from it.                                    *)
THEOREM VctrReadersProtect == Spec => ReadersProtect
<1>0. SameRows => SameCounts
  BY RowsCounts
<1>1. ASSUME TypeOK, CopyInv, Next PROVE ReadersKept
  <2>1. CASE GrowNext
    BY <1>0, <1>1, <2>1, AttributeCounts, CountsKept, PutReaders, EarlyFreeReaders DEF GrowNext
  <2>2. CASE AccessNext
    BY <1>1, <2>2, AccessCounts, CountsKept
  <2>3. CASE TierNext
    BY <1>0, <1>1, <2>3, TierCounts, CountsKept, SetLmaReaders DEF TierNext
  <2>4. CASE LifeNext
    BY <1>0, <1>1, <2>4, AttributeCounts, CountsKept, DeletionReaders DEF LifeNext
  <2> QED BY <1>1, <2>1, <2>2, <2>3, <2>4 DEF Next
<1>2. TypeOK /\ CopyInv /\ [Next]_vars =>
        [\A k \in chnks : chnk[k].num_readers > 0 =>
           k \in chnks' /\ chnk'[k].num_elements >= chnk[k].num_elements]_vars
  BY <1>1, Zenon DEF ReadersKept
<1> QED BY <1>2, VctrTypeOK, VctrCopyInv, PTL DEF Spec, ReadersProtect

-----------------------------------------------------------------------------
(* What the copies hold.  The chunks of a vector that has not ended have   *)
(* the elements its row says they have, so that a put writes where the     *)
(* last one stopped; from this, and from CopyInv, every copy of a chunk is *)
(* current (where EarlyBackup is FALSE).                                   *)

\* chunk k has as many elements as the row of its vector says it has
Fit(k) ==
  chnk[k].num_elements = IF k[2] < vctr[k[1]].max_chnk_idx THEN MaxNumInChnk
                         ELSE vctr[k[1]].num_elements - k[2] * MaxNumInChnk

\* append adds elements to a vector that has ended, and no chunk
AllFit(k)  == k \in chnks /\ k[1] \in vctrs => Fit(k)
OpenFit(k) ==
  k \in chnks /\ k[1] \in vctrs /\ ~vctr[k[1]].is_eov =>
    /\ Fit(k)
    /\ EarlyBackup \/ ~chnk[k].l2_exists \/ chnk[k].num_elements = MaxNumInChnk

\* what CopiesCurrent says of chunk k
Copies(k) ==
  /\ chnk[k].l1_mem => Filled(chnk[k]) \subseteq chnk[k].l1_data
  /\ chnk[k].l2_exists => l2[k].file = "full" /\ Filled(chnk[k]) \subseteq l2[k].data
  /\ vctr[k[1]].is_lma => {k[2]} \X Filled(chnk[k]) \subseteq lma[k[1]].data
Current(k) == k \in chnks /\ k[1] \in Live => Copies(k)

DataInv == \A k \in Keys : OpenFit(k) /\ (EarlyBackup \/ Current(k))

\* what a step must do for chunk k
Stays(k) == OpenFit(k)' /\ (EarlyBackup \/ Current(k)') /\ (AllFit(k) => AllFit(k)')

\* elements and chunks of a vector are as before; it may have ended
SameGrowth(x, y) ==
  /\ y.num_elements = x.num_elements /\ y.max_chnk_idx = x.max_chnk_idx
  /\ x.is_eov => y.is_eov

\* a chunk that was already there, of a vector that did not grow
SameSize(k) ==
  k \in chnks' =>
    /\ k \in chnks /\ chnk'[k].num_elements = chnk[k].num_elements
    /\ k[1] \in vctrs' => k[1] \in vctrs /\ SameGrowth(vctr[k[1]], vctr'[k[1]])

\* no copy has been made: those that are left are as they were
NoNewCopy(k) ==
  k \in chnks' =>
    /\ chnk'[k].l1_mem => chnk[k].l1_mem /\ chnk'[k].l1_data = chnk[k].l1_data
    /\ chnk'[k].l2_exists => chnk[k].l2_exists /\ l2'[k] = l2[k]
    /\ k[1] \in Live' =>
         /\ k[1] \in Live
         /\ vctr'[k[1]].is_lma =>
              vctr[k[1]].is_lma /\ lma[k[1]].data \subseteq lma'[k[1]].data

(* DataInv gives CopiesCurrent and, where nothing was appended,            *)
(* ElemsMatchChnks.                                                        *)
LEMMA CurrentParts ==
  ASSUME TypeOK
  PROVE  /\ ~EarlyBackup /\ DataInv => CopiesCurrent
         /\ (\A k \in Keys : AllFit(k)) => ElemsMatchChnks
<1>1. ASSUME ~EarlyBackup, DataInv PROVE CopiesCurrent
  <2>1. \A k \in chnks : k[1] \in Live => Copies(k)
    BY <1>1 DEF DataInv, Current, TypeOK
  <2> QED BY <2>1, Zenon DEF CopiesCurrent, Copies
<1>2. ASSUME \A k \in Keys : AllFit(k) PROVE ElemsMatchChnks
  <2> SUFFICES ASSUME NEW v \in Live, NEW i \in Present(v)
               PROVE  chnk[<<v, i>>].num_elements =
                        IF i < vctr[v].max_chnk_idx THEN MaxNumInChnk
                        ELSE vctr[v].num_elements - i * MaxNumInChnk
    BY DEF ElemsMatchChnks
  <2>1. PICK k \in chnks : k = <<v, i>> /\ k[1] = v /\ k[2] = i
    BY DEF Present, chnk_is
  <2>2. k \in Keys /\ v \in vctrs
    BY DEF TypeOK, Live
  <2> QED BY <1>2, <2>1, <2>2 DEF AllFit, Fit
<1> QED BY <1>1, <1>2

(* A chunk of the same size stays right if its copies do and a new backup  *)
(* is one of a chunk that is complete.                                     *)
LEMMA SizedStays ==
  ASSUME TypeOK, DataInv, NEW k \in Keys, SameSize(k), EarlyBackup \/ Current(k)',
         k \in chnks' => \/ EarlyBackup \/ ~chnk'[k].l2_exists \/ chnk[k].l2_exists
                         \/ vctr[k[1]].is_eov \/ chnk[k].num_elements = MaxNumInChnk
  PROVE  Stays(k)
<1>0. OpenFit(k)
  BY DEF DataInv
<1>1. ASSUME k \in chnks', k[1] \in vctrs', Fit(k) PROVE Fit(k)'
  BY <1>1 DEF SameSize, SameGrowth, Fit
<1>2. OpenFit(k)'
  BY <1>0, <1>1 DEF OpenFit, SameSize, SameGrowth
<1>3. AllFit(k) => AllFit(k)'
  BY <1>1 DEF AllFit, SameSize
<1> QED BY <1>2, <1>3 DEF Stays

(* Copies that are left are current.                                       *)
LEMMA LeftCurrent ==
  ASSUME DataInv, NEW k \in Keys, NoNewCopy(k),
         k \in chnks' => k \in chnks /\ chnk'[k].num_elements = chnk[k].num_elements
  PROVE  EarlyBackup \/ Current(k)'
<1> SUFFICES ASSUME ~EarlyBackup, k \in chnks', k[1] \in Live' PROVE Copies(k)'
  BY DEF Current
<1>1. Copies(k)
  BY DEF DataInv, Current, NoNewCopy
<1>2. Filled(chnk'[k]) = Filled(chnk[k])
  BY DEF Filled
<1>3. vctr'[k[1]].is_lma => {k[2]} \X Filled(chnk[k]) \subseteq lma'[k[1]].data
  BY <1>1 DEF Copies, NoNewCopy
<1>4. /\ chnk'[k].l1_mem => Filled(chnk[k]) \subseteq chnk'[k].l1_data
      /\ chnk'[k].l2_exists => l2'[k].file = "full" /\ Filled(chnk[k]) \subseteq l2'[k].data
  BY <1>1 DEF Copies, NoNewCopy
<1> QED BY <1>2, <1>3, <1>4, Zenon DEF Copies

(* A step that makes no copy and lets no vector grow.                      *)
LEMMA QuietStays ==
  ASSUME TypeOK, DataInv, NEW k \in Keys, SameSize(k), NoNewCopy(k)
  PROVE  Stays(k)
<1>1. EarlyBackup \/ Current(k)'
  BY LeftCurrent DEF SameSize
<1> QED BY <1>1, SizedStays DEF NoNewCopy

(* Rows that are kept, kept in chunk k's vector.                           *)
LEMMA KeptRow ==
  ASSUME NEW u, Keeps(vctr[u], vctr'[u])
  PROVE  /\ SameGrowth(vctr[u], vctr'[u])
         /\ vctr'[u].is_lma = vctr[u].is_lma
  BY DEF Keeps, SameGrowth

(* Chunks and files as they were, rows too or nearly so.                   *)
LEMMA KeptStays ==
  ASSUME TypeOK, DataInv, UNCHANGED <<vctrs, chnks, half_deleted, l2, lma>>,
         \A v \in vctrs : Keeps(vctr[v], vctr'[v]),
         \A k \in Keys : /\ chnk'[k].num_elements = chnk[k].num_elements
                         /\ chnk'[k].l1_mem = chnk[k].l1_mem
                         /\ chnk'[k].l1_data = chnk[k].l1_data
                         /\ chnk'[k].l2_exists = chnk[k].l2_exists
  PROVE  \A k \in Keys : Stays(k)
<1> SUFFICES ASSUME NEW k \in Keys PROVE Stays(k)
  OBVIOUS
<1>1. Live' = Live /\ Live \subseteq vctrs
  BY DEF Live
<1>2. k[1] \in vctrs => /\ SameGrowth(vctr[k[1]], vctr'[k[1]])
                        /\ vctr'[k[1]].is_lma = vctr[k[1]].is_lma
  BY KeptRow
<1>3. SameSize(k)
  BY <1>2 DEF SameSize
<1>4. NoNewCopy(k)
  BY <1>1, <1>2 DEF NoNewCopy
<1> QED BY <1>3, <1>4, QuietStays

-----------------------------------------------------------------------------
(* The operations that make no copy.                                       *)

(* Attributes, ties and readers.                                           *)
LEMMA LightStays ==
  ASSUME TypeOK, DataInv,
         \/ VctrPersist \/ VctrSetMemo \/ SetKillable \/ SetFreeable \/ SetError
         \/ SetNnVec \/ ChnkIncrReaders \/ VctrGetChunkLma \/ VctrUngetChunk
         \/ VctrGetLmaRead \/ VctrUngetLmaRead
  PROVE  \A k \in Keys : Stays(k)
<1>1. /\ SameTable /\ UNCHANGED <<l2, lma>>
      /\ \A k \in Keys : /\ chnk'[k].num_elements = chnk[k].num_elements
                         /\ chnk'[k].l1_mem = chnk[k].l1_mem
                         /\ chnk'[k].l1_data = chnk[k].l1_data
                         /\ chnk'[k].l2_exists = chnk[k].l2_exists
  BY AttributesKeep, ReadersKeep
<1> QED BY <1>1, KeptStays DEF SameTable

(* vctr_set_lma() failing at the file: the vector has no linear file yet.  *)
LEMMA SetLmaFailsStays ==
  ASSUME TypeOK, DataInv, SetLmaFails
  PROVE  \A k \in Keys : Stays(k)
<1>1. /\ UNCHANGED <<vctrs, vctr, chnks, chnk, l2, half_deleted>>
      /\ \A v \in Uqids : vctr[v].is_lma => lma'[v] = lma[v]
  BY SetLmaFailsKeeps DEF vctrTable, chnkTable, client
<1> SUFFICES ASSUME NEW k \in Keys PROVE Stays(k)
  OBVIOUS
<1>2. k[1] \in Uqids
  BY KeyParts
<1>3. SameSize(k) /\ NoNewCopy(k)
  BY <1>1, <1>2 DEF SameSize, SameGrowth, NoNewCopy, Live
<1> QED BY <1>3, QuietStays

(* A new vector has no chunks.                                             *)
LEMMA AddStays ==
  ASSUME TypeOK, CopyInv, DataInv, VctrAdd \/ AddWithNn
  PROVE  \A k \in Keys : Stays(k)
<1>1. /\ UNCHANGED <<chnks, chnk, l2, lma, half_deleted>>
      /\ \E N : /\ \A u \in N : u > g_vctr_uqid
                /\ vctrs' = vctrs \cup N
                /\ \A u \in Uqids \ N : vctr'[u] = vctr[u]
  <2>1. CASE VctrAdd
    <3>1. PICK u, y : /\ u = g_vctr_uqid + 1
                      /\ \/ UNCHANGED <<vctrs, vctr>>
                         \/ /\ vctrs' = vctrs \cup {u}
                            /\ vctr' = [vctr EXCEPT ![u] = y]
                      /\ UNCHANGED <<chnks, chnk, l2, lma, half_deleted>>
      BY <2>1, Zenon DEF VctrAdd, vctr_add, chnkTable, client
    <3>2. PICK N : N = IF UNCHANGED <<vctrs, vctr>> THEN {} ELSE {u}
      OBVIOUS
    <3>3. /\ \A w \in N : w > g_vctr_uqid
          /\ vctrs' = vctrs \cup N
          /\ \A w \in Uqids \ N : vctr'[w] = vctr[w]
      BY <3>1, <3>2 DEF TypeOK
    <3> QED BY <3>1, <3>3
  <2>2. CASE AddWithNn
    <3>0. PICK q \in Qtypes, memo \in MemoLens, kills \in {Never} \cup KillIgnores,
               frees \in {Never} \cup FreeIgnores : NewWithNn(q, memo, kills, frees)
      BY <2>2 DEF AddWithNn
    <3>01. PICK b, n, p, r : /\ b = g_vctr_uqid + 1 /\ n = g_vctr_uqid + 2
                             /\ p = NewVctr(q, memo, kills, frees)
                             /\ r = NewVctr("BL", memo, kills, frees)
      OBVIOUS
    <3>1. /\ vctrs' = vctrs \cup {b, n} /\ b \in Uqids /\ n \in Uqids
          /\ vctr' = Tied([vctr EXCEPT ![b] = p, ![n] = r], b, n)
          /\ UNCHANGED <<chnks, chnk, l2, lma, half_deleted>>
      BY <3>0, <3>01 DEF NewWithNn, rest, chnkTable, client
    <3>2. PICK N : N = {b, n}
      OBVIOUS
    <3>3. /\ \A w \in N : w > g_vctr_uqid
          /\ vctrs' = vctrs \cup N
          /\ \A w \in Uqids \ N : vctr'[w] = vctr[w]
      BY <3>01, <3>1, <3>2 DEF TypeOK, Tied
    <3> QED BY <3>1, <3>3
  <2> QED BY <2>1, <2>2
<1>2. PICK N : /\ \A u \in N : u > g_vctr_uqid
               /\ vctrs' = vctrs \cup N
               /\ \A u \in Uqids \ N : vctr'[u] = vctr[u]
  BY <1>1
<1> SUFFICES ASSUME NEW k \in Keys PROVE Stays(k)
  OBVIOUS
<1>3. k \in chnks => k[1] \in Uqids /\ k[1] \notin N
  <2>1. k \in chnks => k[1] <= g_vctr_uqid
    BY DEF CopyInv, KeysReached, Reached
  <2>2. k[1] \in Uqids /\ k[1] \in Nat /\ g_vctr_uqid \in Nat
    BY KeyParts DEF TypeOK, Uqids
  <2> QED BY <1>2, <2>1, <2>2
<1>4. k \in chnks => vctr'[k[1]] = vctr[k[1]] /\ (k[1] \in vctrs' => k[1] \in vctrs)
  BY <1>2, <1>3
<1>5. SameSize(k)
  BY <1>1, <1>4 DEF SameSize, SameGrowth
<1>6. NoNewCopy(k)
  BY <1>1, <1>4 DEF NoNewCopy, Live
<1> QED BY <1>5, <1>6, QuietStays

(* Chunks and their copies are dropped, the rows are as they were.         *)
LEMMA DroppedStays ==
  ASSUME TypeOK, DataInv, UNCHANGED <<vctrTable, lma, half_deleted>>, SameCounts,
         NEW k \in Keys,
         chnk'[k].l1_mem => chnk[k].l1_mem /\ chnk'[k].l1_data = chnk[k].l1_data,
         chnk'[k].l2_exists => chnk[k].l2_exists /\ l2'[k] = l2[k]
  PROVE  Stays(k)
<1>1. vctrs' = vctrs /\ vctr' = vctr /\ Live' = Live /\ lma' = lma
  BY DEF vctrTable, Live
<1>2. SameSize(k)
  BY <1>1 DEF SameSize, SameGrowth, SameCounts, SameCount
<1>3. NoNewCopy(k)
  BY <1>1 DEF NoNewCopy, SameCounts, SameCount
<1> QED BY <1>2, <1>3, QuietStays

(* drop_mem.                                                               *)
LEMMA DropStays ==
  ASSUME TypeOK, DataInv, DropL1 \/ DropL2 \/ DropLma
  PROVE  \A k \in Keys : Stays(k)
<1>0. \A k \in Keys : chnk[k] \in ChnkVal
  BY DEF TypeOK
<1>1. CASE DropL1
  <2>0. SameCounts
    BY <1>1, TierCounts, RowsCounts
  <2> DEFINE f(k) == [chnk[k] EXCEPT !.l1_mem = FALSE, !.l1_data = {}]
  <2>1. PICK K : /\ chnk' = [k \in Keys |-> IF k \in K THEN f(k) ELSE chnk[k]]
                 /\ UNCHANGED <<vctrTable, l2, lma, half_deleted>>
    BY <1>1, Zenon DEF DropL1, drop_l1, ChnkWith, client
  <2>2. ASSUME NEW k \in Keys
        PROVE  /\ chnk'[k].l1_mem => chnk[k].l1_mem /\ chnk'[k].l1_data = chnk[k].l1_data
               /\ chnk'[k].l2_exists => chnk[k].l2_exists
    BY <1>0, <2>1 DEF ChnkVal
  <2> QED BY <2>0, <2>1, <2>2, DroppedStays
<1>2. CASE DropL2
  <2>0. SameCounts
    BY <1>2, TierCounts, RowsCounts
  <2> DEFINE f(k) == [chnk[k] EXCEPT !.l2_exists = FALSE]
  <2>1. PICK K : /\ chnk' = [k \in Keys |-> IF k \in K THEN f(k) ELSE chnk[k]]
                 /\ l2' = [k \in Keys |-> IF k \in K THEN NoFile ELSE l2[k]]
                 /\ UNCHANGED <<vctrTable, lma, half_deleted>>
    BY <1>2, Zenon DEF DropL2, drop_l2, ChnkWith, client
  <2>2. ASSUME NEW k \in Keys
        PROVE  /\ chnk'[k].l1_mem => chnk[k].l1_mem /\ chnk'[k].l1_data = chnk[k].l1_data
               /\ chnk'[k].l2_exists => chnk[k].l2_exists /\ l2'[k] = l2[k]
    BY <1>0, <2>1 DEF ChnkVal
  <2> QED BY <2>0, <2>1, <2>2, DroppedStays
<1>3. CASE DropLma
  <2>1. PICK v \in Uqids : drop_lma(v)
    BY <1>3 DEF DropLma
  <2>2. PICK y : y = [vctr[v] EXCEPT !.is_lma = FALSE]
    OBVIOUS
  <2>3. /\ vctr' = [vctr EXCEPT ![v] = y] /\ lma' = [lma EXCEPT ![v] = NoLma]
        /\ UNCHANGED <<vctrs, chnks, chnk, l2, half_deleted>>
    BY <2>1, <2>2 DEF drop_lma, chnkTable, client
  <2>4. ~y.is_lma /\ SameGrowth(vctr[v], y)
    BY <2>2 DEF SameGrowth, TypeOK, VctrVal
  <2>5. ASSUME NEW k \in Keys PROVE Stays(k)
    <3>1. /\ k[1] \in Uqids /\ Live' = Live
          /\ vctr'[k[1]] = IF k[1] = v THEN y ELSE vctr[k[1]]
          /\ k[1] # v => lma'[k[1]] = lma[k[1]]
      BY <2>3, KeyParts DEF TypeOK, Live
    <3>2. SameSize(k)
      BY <2>3, <2>4, <3>1 DEF SameSize, SameGrowth
    <3>3. NoNewCopy(k)
      BY <2>3, <2>4, <3>1 DEF NoNewCopy
    <3> QED BY <3>2, <3>3, QuietStays
  <2> QED BY <2>5
<1> QED BY <1>1, <1>2, <1>3

(* get_lma_write() drops the L1 and L2 of every chunk it gets to.          *)
LEMMA GetLmaWriteStays ==
  ASSUME TypeOK, DataInv, GetLmaWrite
  PROVE  \A k \in Keys : Stays(k)
<1>0. SameCounts /\ \A k \in Keys : chnk[k] \in ChnkVal
  BY AccessCounts DEF TypeOK, AccessNext
<1>1. PICK v \in Uqids : get_lma_write(v)
  BY DEF GetLmaWrite
<1> DEFINE S == DropRun(v)
           L2 == {i \in S : chnk[<<v, i>>].l2_exists}
           f(k) == [chnk[k] EXCEPT !.l1_mem = FALSE, !.l1_data = {}, !.l2_exists = FALSE]
<1>2. /\ vctr' = vctr \/ vctr' = [vctr EXCEPT ![v].X = TRUE, ![v].num_writers = 1]
      /\ chnk' = [k \in Keys |-> IF k \in KeysOf(v, S) THEN f(k) ELSE chnk[k]]
      /\ l2' = [k \in Keys |-> IF k \in KeysOf(v, L2) THEN NoFile ELSE l2[k]]
      /\ UNCHANGED <<vctrs, lma, half_deleted>>
  BY <1>1, Zenon DEF get_lma_write, client
<1>3. ASSUME NEW k \in Keys PROVE Stays(k)
  <2>1. /\ SameGrowth(vctr[k[1]], vctr'[k[1]])
        /\ vctr'[k[1]].is_lma = vctr[k[1]].is_lma
    <3>1. k[1] \in Uqids /\ vctr \in [Uqids -> VctrVal] /\ vctr[k[1]] \in VctrVal
      BY KeyParts DEF TypeOK
    <3>2. PICK y : y = [vctr[v] EXCEPT !.X = TRUE, !.num_writers = 1]
      OBVIOUS
    <3>3. /\ SameGrowth(vctr[v], y) /\ y.is_lma = vctr[v].is_lma
          /\ SameGrowth(vctr[k[1]], vctr[k[1]])
      BY <3>1, <3>2 DEF SameGrowth, VctrVal
    <3>4. vctr' = vctr \/ vctr' = [vctr EXCEPT ![v] = y]
      BY <1>2, <3>1, <3>2
    <3>5. vctr'[k[1]] = vctr[k[1]] \/ (k[1] = v /\ vctr'[v] = y)
      BY <3>1, <3>4
    <3> QED BY <3>3, <3>5
  <2>2. k \notin KeysOf(v, S) => k \notin KeysOf(v, L2)
    <3>1. L2 \subseteq S
      OBVIOUS
    <3> HIDE DEF S, L2
    <3> QED BY <3>1, KeyInKeysOf
  <2>3. /\ chnk'[k].l1_mem => chnk[k].l1_mem /\ chnk'[k].l1_data = chnk[k].l1_data
        /\ chnk'[k].l2_exists => chnk[k].l2_exists /\ l2'[k] = l2[k]
    <3>1. CASE k \in KeysOf(v, S)
      BY <1>0, <1>2, <3>1 DEF ChnkVal
    <3>2. CASE k \notin KeysOf(v, S)
      BY <1>2, <2>2, <3>2
    <3> QED BY <3>1, <3>2
  <2>4. SameSize(k)
    BY <1>0, <1>2, <2>1 DEF SameSize, SameCounts, SameCount
  <2>5. NoNewCopy(k)
    BY <1>0, <1>2, <2>1, <2>3 DEF NoNewCopy, SameCounts, SameCount, Live
  <2> QED BY <2>4, <2>5, QuietStays
<1> QED BY <1>3

(* vctr_early_free().                                                      *)
LEMMA EarlyFreeStays ==
  ASSUME TypeOK, DataInv, VctrEarlyFree
  PROVE  \A k \in Keys : Stays(k)
<1>0. PICK v \in Uqids : \E ub \in EarlyFreeArgs(v) : vctr_early_free(v, ub)
  BY DEF VctrEarlyFree
<1>1. PICK ub \in EarlyFreeArgs(v) : vctr_early_free(v, ub)
  BY <1>0
<1>2. UNCHANGED <<vctrs, lma, half_deleted>>
  BY <1>1, Zenon DEF vctr_early_free, client
<1>3. PICK D, top : EarlyFreed(v, D, top)
  BY <1>1, EarlyFreeShape DEF EarlyFreeArgs
<1>4. PICK y : y = [vctr[v] EXCEPT !.min_chnk_idx = top]
  OBVIOUS
<1>5. vctr' = [vctr EXCEPT ![v] = y]
  BY <1>3, <1>4 DEF EarlyFreed
<1>6. SameGrowth(vctr[v], y) /\ y.is_lma = vctr[v].is_lma
  BY <1>4 DEF SameGrowth, TypeOK, VctrVal
<1>7. ASSUME NEW k \in Keys PROVE Stays(k)
  <2>1. /\ k[1] \in Uqids /\ vctr'[k[1]] = IF k[1] = v THEN y ELSE vctr[k[1]]
    BY <1>5, KeyParts DEF TypeOK
  <2>2. k \in chnks' => /\ k \in chnks /\ l2'[k] = l2[k]
                        /\ chnk'[k].num_elements = chnk[k].num_elements
                        /\ chnk'[k].l1_mem = chnk[k].l1_mem
                        /\ chnk'[k].l1_data = chnk[k].l1_data
                        /\ chnk'[k].l2_exists = chnk[k].l2_exists
    BY <1>3 DEF EarlyFreed
  <2>3. SameSize(k)
    BY <1>2, <1>6, <2>1, <2>2 DEF SameSize, SameGrowth
  <2>4. NoNewCopy(k)
    BY <1>2, <1>6, <2>1, <2>2 DEF NoNewCopy, Live
  <2> QED BY <2>3, <2>4, QuietStays
<1> QED BY <1>7

(* delete, kill and brk_nn_vec.  What is left of a vector whose deletion   *)
(* stops half way is not read.                                             *)
LEMMA DeletionStays ==
  ASSUME TypeOK, DataInv, Delete \/ Kill \/ BrkNnVec
  PROVE  \A k \in Keys : Stays(k)
<1>1. CASE /\ \A u \in Uqids : Keeps(vctr[u], vctr'[u])
           /\ UNCHANGED <<g_vctr_uqid, vctrs, rest>>
  <2>1. UNCHANGED <<vctrs, chnks, half_deleted, l2, lma, chnk>>
    BY <1>1 DEF rest, chnkTable, client
  <2>2. \A v \in vctrs : Keeps(vctr[v], vctr'[v])
    BY <1>1 DEF TypeOK
  <2> QED BY <2>1, <2>2, KeptStays
<1>2. ASSUME NEW v \in vctrs, NEW D, Deleted(v, D), NEW k \in Keys PROVE Stays(k)
  <2>1. k \in chnks' => k \in chnks /\ l2'[k] = l2[k] /\ chnk'[k] = chnk[k]
    BY <1>2 DEF Deleted
  <2>2. k[1] \in vctrs' => k[1] \in vctrs /\ SameGrowth(vctr[k[1]], vctr'[k[1]])
    <3>1. k[1] \in Uqids /\ (k[1] \in vctrs' => k[1] \in vctrs)
      BY <1>2, KeyParts DEF Deleted
    <3>2. CASE k[1] # v
      BY <1>2, <3>1, <3>2, KeptRow DEF Deleted
    <3>3. CASE k[1] = v /\ v \in vctrs'
      <4>1. PICK b \in BOOLEAN, x \in VctrVal :
               Keeps(vctr[v], x) /\ vctr'[v] = [x EXCEPT !.is_lma = b]
        BY <1>2, <3>3 DEF Deleted
      <4>2. PICK y : y = vctr'[v]
        OBVIOUS
      <4>3. y.num_elements = x.num_elements /\ y.max_chnk_idx = x.max_chnk_idx
            /\ y.is_eov = x.is_eov
        BY <4>1, <4>2 DEF VctrVal
      <4> QED BY <3>1, <3>3, <4>1, <4>2, <4>3 DEF Keeps, SameGrowth
    <3> QED BY <3>1, <3>2, <3>3
  <2>3. SameSize(k)
    BY <2>1, <2>2 DEF SameSize
  <2>4. k[1] \in Live' => k[1] \in Live /\ k[1] # v
    BY <1>2 DEF Deleted, Live
  <2>5. NoNewCopy(k)
    BY <1>2, <2>1, <2>4, KeyParts DEF NoNewCopy, Deleted, Keeps
  <2> QED BY <2>3, <2>5, QuietStays
<1> QED BY <1>1, <1>2, DeletionShape

-----------------------------------------------------------------------------
(* The operations that make a copy, each from one that is current.         *)

(* A step that only makes, or drops, copies in RAM and files of chunks.    *)
LEMMA MadeStays ==
  ASSUME TypeOK, DataInv, UNCHANGED <<vctrTable, lma, half_deleted>>, SameCounts,
         NEW k \in Keys,
         ~EarlyBackup /\ k \in chnks /\ k[1] \in Live /\ Copies(k) =>
           /\ chnk'[k].l1_mem => Filled(chnk[k]) \subseteq chnk'[k].l1_data
           /\ chnk'[k].l2_exists =>
                l2'[k].file = "full" /\ Filled(chnk[k]) \subseteq l2'[k].data,
         k \in chnks => \/ EarlyBackup \/ ~chnk'[k].l2_exists \/ chnk[k].l2_exists
                        \/ vctr[k[1]].is_eov \/ chnk[k].num_elements = MaxNumInChnk
  PROVE  Stays(k)
<1>1. /\ vctrs' = vctrs /\ vctr' = vctr /\ Live' = Live /\ lma' = lma /\ chnks' = chnks
      /\ chnk'[k].num_elements = chnk[k].num_elements
  BY DEF vctrTable, Live, SameCounts, SameCount
<1>2. SameSize(k)
  BY <1>1 DEF SameSize, SameGrowth
<1>3. ASSUME ~EarlyBackup, k \in chnks, k[1] \in Live PROVE Copies(k)'
  <2>1. Copies(k)
    BY <1>3 DEF DataInv, Current
  <2>2. Filled(chnk'[k]) = Filled(chnk[k])
    BY <1>1 DEF Filled
  <2>3. vctr'[k[1]].is_lma => {k[2]} \X Filled(chnk[k]) \subseteq lma'[k[1]].data
    BY <1>1, <2>1 DEF Copies
  <2> QED BY <1>3, <2>1, <2>2, <2>3, Zenon DEF Copies
<1>4. EarlyBackup \/ Current(k)'
  BY <1>1, <1>3 DEF Current
<1> QED BY <1>1, <1>2, <1>4, SizedStays

(* A reader gets L1, if need be from L2.                                   *)
LEMMA GetStays ==
  ASSUME TypeOK, DataInv, VctrGetChunk \/ VctrGet1
  PROVE  \A k \in Keys : Stays(k)
<1>0. SameCounts /\ \A k \in Keys : chnk[k] \in ChnkVal /\ l2[k] \in L2File
  BY AccessCounts DEF TypeOK, AccessNext
<1>1. ASSUME NEW j \in Keys, UNCHANGED <<vctrTable, l2, lma, half_deleted>>,
             \/ chnk' = [chnk EXCEPT ![j] = chnk_get_data(j)]
             \/ chnk' = [chnk EXCEPT ![j] = [chnk_get_data(j) EXCEPT !.num_readers = @ - 1]]
      PROVE  \A k \in Keys : Stays(k)
  <2>1. PICK d : d = chnk_get_data(j)
    OBVIOUS
  <2>2. PICK r, c, e : /\ r = chnk[j].num_readers + 1
                       /\ c = [chnk[j] EXCEPT !.num_readers = r]
                       /\ e = l2[j].data
    OBVIOUS
  <2>3. d = c \/ (chnk[j].l2_exists /\ d = [c EXCEPT !.l1_mem = TRUE, !.l1_data = e])
    BY <1>0, <2>1, <2>2 DEF chnk_get_data, LoadL1, ChnkVal
  <2>4. PICK m : m = d.num_readers - 1
    OBVIOUS
  <2>5. PICK f : f = chnk'[j]
    OBVIOUS
  <2>6. f = d \/ f = [d EXCEPT !.num_readers = m]
    BY <1>1, <2>1, <2>4, <2>5 DEF TypeOK
  <2>7. c \in ChnkVal /\ e \in SUBSET Slots
    BY <1>0, <2>2 DEF ChnkVal, L2File
  <2>8. /\ f.l2_exists = chnk[j].l2_exists
        /\ \/ f.l1_mem = chnk[j].l1_mem /\ f.l1_data = chnk[j].l1_data
           \/ chnk[j].l2_exists /\ f.l1_data = l2[j].data
    <3>1. /\ c.l2_exists = chnk[j].l2_exists /\ c.l1_mem = chnk[j].l1_mem
          /\ c.l1_data = chnk[j].l1_data
      BY <1>0, <2>2 DEF ChnkVal
    <3>2. /\ d \in ChnkVal /\ d.l2_exists = chnk[j].l2_exists
          /\ \/ d.l1_mem = chnk[j].l1_mem /\ d.l1_data = chnk[j].l1_data
             \/ chnk[j].l2_exists /\ d.l1_data = l2[j].data
      BY <2>2, <2>3, <2>7, <3>1 DEF ChnkVal
    <3>3. f.l2_exists = d.l2_exists /\ f.l1_mem = d.l1_mem /\ f.l1_data = d.l1_data
      BY <2>6, <3>2 DEF ChnkVal
    <3> QED BY <3>2, <3>3
  <2>9. ASSUME NEW k \in Keys PROVE Stays(k)
    <3>1. k # j => chnk'[k] = chnk[k]
      BY <1>1 DEF TypeOK
    <3>2. Copies(k) => /\ chnk'[k].l1_mem => Filled(chnk[k]) \subseteq chnk'[k].l1_data
                       /\ chnk'[k].l2_exists => /\ l2'[k].file = "full"
                                                /\ Filled(chnk[k]) \subseteq l2'[k].data
      BY <1>1, <2>5, <2>8, <3>1 DEF Copies
    <3>3. chnk'[k].l2_exists = chnk[k].l2_exists
      BY <2>5, <2>8, <3>1
    <3> QED BY <1>0, <1>1, <3>2, <3>3, MadeStays
  <2> QED BY <2>9
<1>2. CASE VctrGetChunk
  <2>1. PICK v \in Uqids, i \in ChnkIdxs : vctr_get_chunk(v, i)
    BY <1>2 DEF VctrGetChunk
  <2>2. PICK j \in Keys : j = <<v, i>>
    BY KeyParts
  <2>3. /\ UNCHANGED <<vctrTable, l2, lma, half_deleted>>
        /\ chnk' = [chnk EXCEPT ![j] = chnk_get_data(j)]
    BY <2>1, <2>2, Zenon DEF vctr_get_chunk
  <2> QED BY <1>1, <2>3
<1>3. CASE VctrGet1
  <2>1. PICK v \in Uqids, i \in ChnkIdxs : vctr_get1(v, i)
    BY <1>3 DEF VctrGet1
  <2>2. PICK j \in Keys : j = <<v, i>>
    BY KeyParts
  <2>3. /\ UNCHANGED <<g_vctr_uqid, vctrs, chnks, l2, lma, half_deleted>>
        /\ \/ vctr' = [vctr EXCEPT ![v] = get_lma_X_nX(vctr[v])] /\ chnk' = chnk
           \/ /\ vctr' = vctr
              /\ \/ chnk' = [chnk EXCEPT ![j] = chnk_get_data(j)]
                 \/ chnk' = [chnk EXCEPT ![j] =
                               [chnk_get_data(j) EXCEPT !.num_readers = @ - 1]]
    BY <2>1, <2>2, Zenon DEF vctr_get1, client
  <2>4. CASE vctr' = [vctr EXCEPT ![v] = get_lma_X_nX(vctr[v])] /\ chnk' = chnk
    <3>1. Keeps(vctr[v], get_lma_X_nX(vctr[v]))
      BY FieldsKeep DEF TypeOK
    <3>2. \A u \in vctrs : Keeps(vctr[u], vctr'[u])
      BY <2>4, <3>1, KeepRow
    <3> QED BY <2>3, <2>4, <3>2, KeptStays
  <2>5. CASE vctr' = vctr
    BY <1>1, <2>3, <2>4, <2>5 DEF vctrTable
  <2> QED BY <2>3, <2>4, <2>5
<1> QED BY <1>2, <1>3

(* The client has written to the linear file: no other copy is there.      *)
LEMMA UngetLmaWriteStays ==
  ASSUME TypeOK, CopyInv, DataInv, UngetLmaWrite
  PROVE  \A k \in Keys : Stays(k)
<1>0. SameCounts /\ \A k \in Keys : chnk[k] \in ChnkVal /\ l2[k] \in L2File
  BY AccessCounts DEF TypeOK, AccessNext
<1>1. PICK v \in Uqids : vctr_unget_lma_write(v)
  BY DEF UngetLmaWrite
<1>2. PICK y : y = [vctr[v] EXCEPT !.num_writers = 0, !.X = FALSE]
  OBVIOUS
<1>3. /\ vctr' = [vctr EXCEPT ![v] = y] /\ vctr[v].num_writers = 1 /\ v \in vctrs
      /\ chnk' = [k \in Keys |-> IF k[1] = v THEN [chnk[k] EXCEPT !.l1_data = {}]
                                ELSE chnk[k]]
      /\ l2' = [k \in Keys |-> IF k[1] = v THEN [l2[k] EXCEPT !.data = {}] ELSE l2[k]]
      /\ UNCHANGED <<vctrs, chnks, lma, half_deleted>>
  BY <1>1, <1>2 DEF vctr_unget_lma_write, client
<1>4. \A u \in vctrs : Keeps(vctr[u], vctr'[u])
  <2>1. Keeps(vctr[v], y)
    BY <1>2, FieldsKeep DEF TypeOK
  <2> QED BY <1>3, <2>1, KeepRow
<1>5. ASSUME NEW k \in Keys PROVE Stays(k)
  <2>1. /\ chnk'[k].l1_mem = chnk[k].l1_mem /\ chnk'[k].l2_exists = chnk[k].l2_exists
        /\ k[1] # v => chnk'[k] = chnk[k] /\ l2'[k] = l2[k]
    BY <1>0, <1>3 DEF ChnkVal
  <2>2. k[1] \in vctrs => /\ SameGrowth(vctr[k[1]], vctr'[k[1]])
                          /\ vctr'[k[1]].is_lma = vctr[k[1]].is_lma
    BY <1>4, KeptRow
  <2>3. SameSize(k)
    BY <1>0, <1>3, <2>2 DEF SameSize, SameCounts, SameCount
  <2>4. k \in chnks /\ k[1] = v /\ v \in Live => ~chnk[k].l1_mem /\ ~chnk[k].l2_exists
    BY <1>3, ChnkFacts
  <2>5. k[1] \in Live => NoNewCopy(k)
    BY <1>3, <2>1, <2>2, <2>4 DEF NoNewCopy, Live
  <2>6. k \in chnks' => k \in chnks /\ chnk'[k].num_elements = chnk[k].num_elements
    BY <2>3 DEF SameSize
  <2>7. k[1] \notin Live => Current(k)'
    BY <1>3 DEF Current, Live
  <2>8. EarlyBackup \/ Current(k)'
    BY <2>5, <2>6, <2>7, LeftCurrent
  <2> QED BY <2>1, <2>3, <2>8, SizedStays
<1> QED BY <1>5

(* make_mem at level 1: L1 from a full file, which is L2.                  *)
LEMMA MakeL1Stays ==
  ASSUME TypeOK, CopyInv, DataInv, MakeL1
  PROVE  \A k \in Keys : Stays(k)
<1>0. SameCounts /\ \A k \in Keys : chnk[k] \in ChnkVal
  BY TierCounts, RowsCounts DEF TypeOK
<1>1. PICK v \in Uqids : \E S \in Named(v, CanMakeL1(v)) : make_l1(v, S)
  BY DEF MakeL1
<1>2. PICK S \in Named(v, CanMakeL1(v)) : make_l1(v, S)
  BY <1>1
<1> DEFINE D == {i \in S : ~chnk[<<v, i>>].l1_mem}
           f(k) == IF k \in KeysOf(v, D)
                   THEN [chnk[k] EXCEPT !.l1_mem = TRUE, !.l1_data = l2[k].data]
                   ELSE chnk[k]
<1>3. /\ chnk' = [k \in Keys |-> f(k)]
      /\ UNCHANGED <<vctrTable, l2, lma, half_deleted>>
  BY <1>2 DEF make_l1, ChnkWith, client, LoadL1
<1>4. S \subseteq CanMakeL1(v)
  BY NamedPresent DEF CanMakeL1, Present
<1>5. ASSUME NEW k \in Keys PROVE Stays(k)
  <2>1. chnk'[k] = f(k)
    BY <1>3
  <2>2. chnk'[k].l2_exists = chnk[k].l2_exists
    BY <1>0, <2>1 DEF ChnkVal
  <2>3. ASSUME k \in chnks, Copies(k)
        PROVE  /\ chnk'[k].l1_mem => Filled(chnk[k]) \subseteq chnk'[k].l1_data
               /\ chnk'[k].l2_exists => /\ l2'[k].file = "full"
                                        /\ Filled(chnk[k]) \subseteq l2'[k].data
    <3>1. CASE k \notin KeysOf(v, D)
      BY <1>3, <2>1, <2>3, <3>1 DEF Copies
    <3>2. CASE k \in KeysOf(v, D)
      <4>1. k[1] = v /\ k[2] \in D /\ k = <<v, k[2]>>
        BY <3>2, KeyInKeysOf, KeyParts
      <4>2. l2[k].file = "full"
        BY <1>4, <4>1 DEF CanMakeL1
      <4>3. chnk[k].l2_exists
        BY <2>3, <4>2, ChnkFacts
      <4>4. chnk'[k].l1_data = l2[k].data
        BY <1>0, <2>1, <3>2 DEF ChnkVal
      <4> QED BY <1>3, <2>3, <4>3, <4>4 DEF Copies
    <3> QED BY <3>1, <3>2
  <2> HIDE DEF f
  <2> QED BY <1>0, <1>3, <2>2, <2>3, MadeStays
<1> QED BY <1>5

(* Chunk k is written to its file, if it is one of the chunks D of v, all  *)
(* in RAM and all complete.                                                *)
LEMMA WriteStays ==
  ASSUME TypeOK, DataInv, UNCHANGED <<vctrTable, lma, half_deleted>>, SameCounts,
         NEW v \in Uqids, NEW D, MayBackUp(v, D), NEW k \in Keys,
         \A i \in D : chnk[<<v, i>>].l1_mem,
         k \in KeysOf(v, D) => l2'[k].file = "full" /\ l2'[k].data = chnk[k].l1_data,
         k \notin KeysOf(v, D) => /\ chnk'[k].l2_exists = chnk[k].l2_exists
                                  /\ chnk[k].l2_exists => l2'[k] = l2[k],
         chnk'[k].l1_mem => chnk[k].l1_mem /\ chnk'[k].l1_data = chnk[k].l1_data
  PROVE  Stays(k)
<1>1. k \in KeysOf(v, D) =>
        /\ chnk[k].l1_mem
        /\ EarlyBackup \/ vctr[k[1]].is_eov \/ chnk[k].num_elements = MaxNumInChnk
  <2>1. k \in KeysOf(v, D) => k[1] = v /\ k[2] \in D /\ k = <<v, k[2]>>
    BY KeyInKeysOf, KeyParts
  <2> QED BY <2>1 DEF MayBackUp, Finished
<1>2. Copies(k) => /\ chnk'[k].l1_mem => Filled(chnk[k]) \subseteq chnk'[k].l1_data
                   /\ chnk'[k].l2_exists => /\ l2'[k].file = "full"
                                            /\ Filled(chnk[k]) \subseteq l2'[k].data
  BY <1>1 DEF Copies
<1>3. \/ EarlyBackup \/ ~chnk'[k].l2_exists \/ chnk[k].l2_exists
      \/ vctr[k[1]].is_eov \/ chnk[k].num_elements = MaxNumInChnk
  BY <1>1
<1> QED BY <1>2, <1>3, MadeStays

(* chnk_make_mem() at level 2.                                             *)
LEMMA MakeL2StepStays ==
  ASSUME TypeOK, DataInv, SameCounts, NEW v \in Uqids, NEW S, S \subseteq CanMakeL2(v),
         NEW Null, Null \subseteq NoL1L2(v), make_l2(v, S, Null)
  PROVE  \A k \in Keys : Stays(k)
<1> DEFINE D == {i \in S : ~chnk[<<v, i>>].l2_exists}
           f(k) == IF k \in KeysOf(v, D) THEN [chnk[k] EXCEPT !.l2_exists = TRUE]
                   ELSE chnk[k]
           h(k) == IF k \in KeysOf(v, D) THEN [file |-> "full", data |-> chnk[k].l1_data]
                   ELSE l2[k]
           g(k) == IF k \in KeysOf(v, Null) THEN [file |-> "empty", data |-> {}]
                   ELSE L2With(v, D)[k]
<1>1. /\ WriteL2(v, D) /\ l2' = [k \in Keys |-> g(k)] /\ MayBackUp(v, D)
      /\ UNCHANGED <<vctrTable, lma, half_deleted>>
  BY DEF make_l2, client
<1>2. chnk' = [k \in Keys |-> f(k)] /\ \A k \in Keys : L2With(v, D)[k] = h(k)
  BY <1>1 DEF WriteL2, ChnkWith, L2With
<1>3. \A i \in D : i \in ChnkIdxs /\ chnk[<<v, i>>].l1_mem
  BY DEF CanMakeL2, Present
<1>4. ASSUME NEW k \in Keys PROVE Stays(k)
  <2>1. chnk'[k] = f(k) /\ l2'[k] = g(k) /\ chnk[k] \in ChnkVal
    BY <1>1, <1>2 DEF TypeOK
  <2>2. k \in KeysOf(v, Null) => k \notin KeysOf(v, D) /\ ~chnk[k].l2_exists
    <3> SUFFICES ASSUME k \in KeysOf(v, Null)
                 PROVE  k \notin KeysOf(v, D) /\ ~chnk[k].l2_exists
      OBVIOUS
    <3>1. k[1] = v /\ k[2] \in Null /\ k = <<v, k[2]>>
      BY KeyInKeysOf, KeyParts
    <3>2. ~chnk[k].l1_mem /\ ~chnk[k].l2_exists
      BY <3>1 DEF NoL1L2, CanMakeL2, Present
    <3>3. k[2] \notin D
      BY <1>3, <3>1, <3>2
    <3> HIDE DEF D
    <3> QED BY <3>2, <3>3, KeyInKeysOf
  <2>3. /\ k \in KeysOf(v, D) => l2'[k].file = "full" /\ l2'[k].data = chnk[k].l1_data
        /\ k \notin KeysOf(v, D) => /\ chnk'[k].l2_exists = chnk[k].l2_exists
                                    /\ chnk[k].l2_exists => l2'[k] = l2[k]
    <3>1. k \notin KeysOf(v, Null) => l2'[k] = h(k)
      BY <1>2, <2>1
    <3> HIDE DEF D
    <3>2. CASE k \in KeysOf(v, D)
      BY <2>2, <3>1, <3>2
    <3>3. CASE k \notin KeysOf(v, D)
      BY <2>1, <2>2, <3>1, <3>3
    <3> QED BY <3>2, <3>3
  <2>4. chnk'[k].l1_mem => chnk[k].l1_mem /\ chnk'[k].l1_data = chnk[k].l1_data
    BY <2>1 DEF ChnkVal
  <2> HIDE DEF D
  <2> QED BY <1>1, <1>3, <2>3, <2>4, WriteStays
<1> QED BY <1>4

(* make_mem at level 2 and l1_to_l2.                                       *)
LEMMA BackupStays ==
  ASSUME TypeOK, DataInv, MakeL2 \/ L1ToL2
  PROVE  \A k \in Keys : Stays(k)
<1>0. /\ \A v \in Uqids : vctr[v].min_chnk_idx \in Int /\ vctr[v].max_chnk_idx \in Int
      /\ SameCounts
  BY TierCounts, RowsCounts DEF TypeOK, VctrVal
<1>1. CASE MakeL2
  <2>1. PICK v \in Uqids : \/ vctr_make_l2(v)
                           \/ \E i \in CanMakeL2(v) : make_l2(v, {i}, {})
                           \/ \E i \in NoL1L2(v) : make_l2(v, {}, {i})
    BY <1>1 DEF MakeL2
  <2>2. CASE vctr_make_l2(v)
    <3> DEFINE S == Run(vctr[v].min_chnk_idx, vctr[v].max_chnk_idx, CanMakeL2(v))
               Null == {i \in Idxs(vctr[v]) \cap NoL1L2(v) :
                          vctr[v].min_chnk_idx .. (i - 1) \subseteq S}
    <3>1. make_l2(v, S, Null)
      BY <2>2 DEF vctr_make_l2
    <3>2. S \subseteq CanMakeL2(v) /\ Null \subseteq NoL1L2(v)
      BY <1>0, RunInOk
    <3> HIDE DEF S, Null
    <3> QED BY <1>0, <3>1, <3>2, MakeL2StepStays
  <2>3. CASE \E i \in CanMakeL2(v) : make_l2(v, {i}, {})
    BY <1>0, <2>3, MakeL2StepStays
  <2>4. CASE \E i \in NoL1L2(v) : make_l2(v, {}, {i})
    BY <1>0, <2>4, MakeL2StepStays
  <2> QED BY <2>1, <2>2, <2>3, <2>4
<1>2. CASE L1ToL2
  <2>1. PICK v \in Uqids : vctr_l1_to_l2(v)
    BY <1>2 DEF L1ToL2
  <2> DEFINE S == Run(vctr[v].min_chnk_idx, vctr[v].max_chnk_idx, CanL1ToL2(v))
             D == {i \in S : l2[<<v, i>>].file = "none"}
             f(k) == IF k \in KeysOf(v, D) THEN [chnk[k] EXCEPT !.l2_exists = TRUE]
                     ELSE chnk[k]
             h(k) == IF k \in KeysOf(v, D)
                     THEN [file |-> "full", data |-> chnk[k].l1_data] ELSE l2[k]
  <2>2. /\ WriteL2(v, D) /\ l2' = L2With(v, D) /\ MayBackUp(v, D)
        /\ UNCHANGED <<vctrTable, lma, half_deleted>>
    BY <2>1 DEF vctr_l1_to_l2, client
  <2>3. chnk' = [k \in Keys |-> f(k)] /\ l2' = [k \in Keys |-> h(k)]
    BY <2>2 DEF WriteL2, ChnkWith, L2With
  <2>4. \A i \in D : chnk[<<v, i>>].l1_mem
    <3>1. S \subseteq CanL1ToL2(v)
      BY <1>0, RunInOk
    <3> QED BY <3>1 DEF CanL1ToL2, Present
  <2>5. ASSUME NEW k \in Keys PROVE Stays(k)
    <3>1. chnk'[k] = f(k) /\ l2'[k] = h(k) /\ chnk[k] \in ChnkVal
      BY <2>3 DEF TypeOK
    <3>2. /\ k \in KeysOf(v, D) => l2'[k].file = "full" /\ l2'[k].data = chnk[k].l1_data
          /\ k \notin KeysOf(v, D) => /\ chnk'[k].l2_exists = chnk[k].l2_exists
                                      /\ chnk[k].l2_exists => l2'[k] = l2[k]
          /\ chnk'[k].l1_mem => chnk[k].l1_mem /\ chnk'[k].l1_data = chnk[k].l1_data
      <4> HIDE DEF D
      <4>1. CASE k \in KeysOf(v, D)
        <5>1. l2'[k].file = "full" /\ l2'[k].data = chnk[k].l1_data
          BY <3>1, <4>1
        <5>2. chnk'[k].l1_mem = chnk[k].l1_mem /\ chnk'[k].l1_data = chnk[k].l1_data
          BY <3>1, <4>1 DEF ChnkVal
        <5> QED BY <4>1, <5>1, <5>2
      <4>2. CASE k \notin KeysOf(v, D)
        BY <3>1, <4>2
      <4> QED BY <4>1, <4>2
    <3> HIDE DEF D
    <3> QED BY <1>0, <2>2, <2>4, <3>2, WriteStays
  <2> QED BY <2>5
<1> QED BY <1>1, <1>2

(* unprefetch.                                                             *)
LEMMA UnprefetchStays ==
  ASSUME TypeOK, DataInv, Unprefetch
  PROVE  \A k \in Keys : Stays(k)
<1>1. PICK v \in Uqids, i \in ChnkIdxs : unprefetch(v, i)
  BY DEF Unprefetch
<1>2. PICK q \in Keys : q = <<v, i>>
  BY KeyParts
<1>3. PICK D : D = IF chnk[q].l2_exists THEN {} ELSE {i}
  OBVIOUS
<1> DEFINE h(k) == IF k \in KeysOf(v, D)
                   THEN [file |-> "full", data |-> chnk[k].l1_data] ELSE l2[k]
<1>4. /\ chnk[q].l1_mem /\ MayBackUp(v, D)
      /\ chnk' = [chnk EXCEPT ![q].l1_mem = FALSE, ![q].l1_data = {},
                              ![q].l2_exists = TRUE]
      /\ l2' = L2With(v, D) /\ UNCHANGED <<vctrTable, lma, half_deleted>>
  BY <1>1, <1>2, <1>3, Zenon DEF unprefetch, client
<1>5. SameCounts /\ chnk \in [Keys -> ChnkVal]
  BY TierCounts, RowsCounts DEF TypeOK
<1>6. ASSUME NEW k \in Keys PROVE Stays(k)
  <2>1. l2'[k] = h(k)
    BY <1>4 DEF L2With
  <2>2. k # q => chnk'[k] = chnk[k]
    BY <1>4, <1>5
  <2>3. chnk'[q].l1_mem = FALSE /\ chnk'[q].l2_exists = TRUE
    BY <1>4, <1>5 DEF ChnkVal
  <2>4. k \notin KeysOf(v, D) => chnk'[k].l2_exists = chnk[k].l2_exists
    <3>1. CASE k = q /\ ~chnk[q].l2_exists
      BY <1>2, <1>3, <3>1, KeyInKeysOf
    <3>2. CASE ~(k = q /\ ~chnk[q].l2_exists)
      BY <1>5, <2>2, <2>3, <3>2 DEF ChnkVal
    <3> QED BY <3>1, <3>2
  <2>5. \A j \in D : chnk[<<v, j>>].l1_mem
    BY <1>2, <1>3, <1>4
  <2>6. /\ k \in KeysOf(v, D) => l2'[k].file = "full" /\ l2'[k].data = chnk[k].l1_data
        /\ k \notin KeysOf(v, D) => l2'[k] = l2[k]
    BY <2>1
  <2>7. chnk'[k].l1_mem => chnk[k].l1_mem /\ chnk'[k].l1_data = chnk[k].l1_data
    BY <2>2, <2>3
  <2> HIDE DEF h
  <2> QED BY <1>4, <1>5, <2>4, <2>5, <2>6, <2>7, WriteStays
<1> QED BY <1>6

(* vctr_lma_to_chnks(): L1 or L2 from the linear file.                     *)
LEMMA LmaToChnksStays ==
  ASSUME TypeOK, DataInv, LmaToChnks
  PROVE  \A k \in Keys : Stays(k)
<1>0. SameCounts /\ \A k \in Keys : chnk[k] \in ChnkVal
  BY TierCounts, RowsCounts DEF TypeOK
<1>1. PICK v \in Uqids, level \in 1..2 : vctr_lma_to_chnks(v, level)
  BY DEF LmaToChnks
<1> DEFINE Here(k) == FromLma(v, k[2])
<1>2. PICK L1, L2 :
        /\ \A i \in L2 : i \notin L1
        /\ chnk' = [k \in Keys |->
                      IF k \in KeysOf(v, L1)
                      THEN IF chnk[k].l2_exists THEN LoadL1(chnk[k], k)
                           ELSE [chnk[k] EXCEPT !.l1_mem = TRUE, !.l1_data = Here(k)]
                      ELSE IF k \in KeysOf(v, L2)
                      THEN [chnk[k] EXCEPT !.l2_exists = TRUE]
                      ELSE chnk[k]]
        /\ l2' = [k \in Keys |-> IF k \in KeysOf(v, L2)
                                 THEN [file |-> "full", data |-> Here(k)] ELSE l2[k]]
        /\ vctr[v].is_lma /\ vctr[v].is_eov
        /\ UNCHANGED <<vctrTable, lma, half_deleted>>
  <2> DEFINE S == Run(0, NumChnks(vctr[v].num_elements) - 1, Present(v))
             L1 == {i \in S : ~chnk[<<v, i>>].l1_mem
                               /\ (chnk[<<v, i>>].l2_exists \/ level = 1)}
             L2 == {i \in S : ~chnk[<<v, i>>].l1_mem
                               /\ ~chnk[<<v, i>>].l2_exists /\ level = 2}
  <2>1. \A i \in L2 : i \notin L1
    OBVIOUS
  <2>2. /\ chnk' = [k \in Keys |->
                      IF k \in KeysOf(v, L1)
                      THEN IF chnk[k].l2_exists THEN LoadL1(chnk[k], k)
                           ELSE [chnk[k] EXCEPT !.l1_mem = TRUE, !.l1_data = Here(k)]
                      ELSE IF k \in KeysOf(v, L2)
                      THEN [chnk[k] EXCEPT !.l2_exists = TRUE]
                      ELSE chnk[k]]
        /\ l2' = [k \in Keys |-> IF k \in KeysOf(v, L2)
                                 THEN [file |-> "full", data |-> Here(k)] ELSE l2[k]]
        /\ vctr[v].is_lma /\ vctr[v].is_eov
        /\ UNCHANGED <<vctrTable, lma, half_deleted>>
    BY <1>1, Zenon DEF vctr_lma_to_chnks, client
  <2> HIDE DEF S, L1, L2, Here
  <2> QED BY <2>1, <2>2, Zenon
<1>3. ASSUME NEW k \in Keys PROVE Stays(k)
  <2>1. k[1] = v /\ Copies(k) => Filled(chnk[k]) \subseteq Here(k)
    <3> SUFFICES ASSUME k[1] = v, Copies(k), NEW s \in Filled(chnk[k])
                 PROVE  s \in Here(k)
      OBVIOUS
    <3>1. <<k[2], s>> \in lma[v].data
      BY <1>2 DEF Copies
    <3>2. k = <<v, k[2]>>
      BY KeyParts
    <3> QED BY <3>1, <3>2 DEF FromLma
  <2> HIDE DEF Here
  <2>2. PICK a, e : a = Here(k) /\ e = l2[k].data
    OBVIOUS
  <2>3. k \in KeysOf(v, L1) \/ k \in KeysOf(v, L2) => k[1] = v /\ vctr[k[1]].is_eov
    BY <1>2, KeyInKeysOf
  <2>4. CASE k \in KeysOf(v, L1)
    <3>1. k \notin KeysOf(v, L2)
      BY <1>2, <2>4, KeyInKeysOf
    <3>2. chnk'[k] = IF chnk[k].l2_exists
                     THEN [chnk[k] EXCEPT !.l1_mem = TRUE, !.l1_data = e]
                     ELSE [chnk[k] EXCEPT !.l1_mem = TRUE, !.l1_data = a]
      BY <1>2, <2>2, <2>4 DEF LoadL1
    <3>3. /\ chnk'[k].l2_exists = chnk[k].l2_exists /\ l2'[k] = l2[k]
          /\ chnk'[k].l1_data = IF chnk[k].l2_exists THEN e ELSE a
      BY <1>0, <1>2, <3>1, <3>2 DEF ChnkVal
    <3>4. Copies(k) => /\ chnk'[k].l1_mem => Filled(chnk[k]) \subseteq chnk'[k].l1_data
                       /\ chnk'[k].l2_exists => /\ l2'[k].file = "full"
                                                /\ Filled(chnk[k]) \subseteq l2'[k].data
      BY <2>1, <2>2, <2>3, <2>4, <3>3 DEF Copies
    <3> QED BY <1>0, <1>2, <2>3, <2>4, <3>4, MadeStays
  <2>5. CASE k \notin KeysOf(v, L1) /\ k \in KeysOf(v, L2)
    <3>1. /\ chnk'[k] = [chnk[k] EXCEPT !.l2_exists = TRUE]
          /\ l2'[k] = [file |-> "full", data |-> a]
      BY <1>2, <2>2, <2>5
    <3>2. /\ chnk'[k].l1_mem = chnk[k].l1_mem /\ chnk'[k].l1_data = chnk[k].l1_data
      BY <1>0, <3>1 DEF ChnkVal
    <3>3. l2'[k].file = "full" /\ l2'[k].data = a
      BY <3>1
    <3>4. Copies(k) => /\ chnk'[k].l1_mem => Filled(chnk[k]) \subseteq chnk'[k].l1_data
                       /\ chnk'[k].l2_exists => /\ l2'[k].file = "full"
                                                /\ Filled(chnk[k]) \subseteq l2'[k].data
      BY <2>1, <2>2, <2>3, <2>5, <3>2, <3>3 DEF Copies
    <3> QED BY <1>0, <1>2, <2>3, <2>5, <3>4, MadeStays
  <2>6. CASE k \notin KeysOf(v, L1) /\ k \notin KeysOf(v, L2)
    <3>1. chnk'[k] = chnk[k] /\ l2'[k] = l2[k]
      BY <1>2, <2>6
    <3>2. Copies(k) => /\ chnk'[k].l1_mem => Filled(chnk[k]) \subseteq chnk'[k].l1_data
                       /\ chnk'[k].l2_exists => /\ l2'[k].file = "full"
                                                /\ Filled(chnk[k]) \subseteq l2'[k].data
      BY <3>1 DEF Copies
    <3> QED BY <1>0, <1>2, <3>1, <3>2, MadeStays
  <2> QED BY <2>4, <2>5, <2>6
<1> QED BY <1>3

(* Only the row and the linear file of v change, or those of d in append.  *)
LEMMA LmaStays ==
  ASSUME TypeOK, DataInv, NEW k \in Keys,
         UNCHANGED <<vctrs, chnks, chnk, l2, half_deleted>>,
         ~EarlyBackup /\ k \in chnks /\ k[1] \in Live /\ Copies(k) /\ vctr'[k[1]].is_lma
           => {k[2]} \X Filled(chnk[k]) \subseteq lma'[k[1]].data
  PROVE  EarlyBackup \/ Current(k)'
<1> SUFFICES ASSUME ~EarlyBackup, k \in chnks, k[1] \in Live PROVE Copies(k)'
  BY DEF Current, Live
<1>1. Copies(k)
  BY DEF DataInv, Current
<1>2. vctr'[k[1]].is_lma => {k[2]} \X Filled(chnk[k]) \subseteq lma'[k[1]].data
  BY <1>1
<1> QED BY <1>1, <1>2, Zenon DEF Copies

(* vctr_chnks_to_lma(): the linear file from L1, or else L2.               *)
LEMMA ChnksToLmaStays ==
  ASSUME TypeOK, CopyInv, DataInv, ChnksToLma
  PROVE  \A k \in Keys : Stays(k)
<1>1. PICK v \in Uqids : vctr_chnks_to_lma(v)
  BY DEF ChnksToLma
<1>2. PICK top, S : top = vctr[v].max_chnk_idx /\ S = Run(0, top, FillsLma(v))
  OBVIOUS
<1>3. PICK b, f : /\ b = (S = 0..top)
                  /\ f = [size |-> vctr[v].num_elements,
                          data |-> {p \in ChnkIdxs \X Slots :
                                      p[1] \in S /\ p[2] \in Given(v, p[1])}]
  OBVIOUS
<1>4. PICK y : y = [vctr[v] EXCEPT !.is_lma = b]
  OBVIOUS
<1>5. /\ v \in vctrs /\ vctr' = [vctr EXCEPT ![v] = y] /\ lma' = [lma EXCEPT ![v] = f]
      /\ UNCHANGED <<vctrs, chnks, chnk, l2, half_deleted>>
  <2>1. /\ v \in vctrs /\ vctr' = [vctr EXCEPT ![v].is_lma = b]
        /\ lma' = [lma EXCEPT ![v] = f]
        /\ UNCHANGED <<vctrs, chnks, chnk, l2, half_deleted>>
    BY <1>1, <1>2, <1>3, Zenon DEF vctr_chnks_to_lma, chnkTable, client
  <2> QED BY <1>4, <2>1 DEF TypeOK
<1>6. SameGrowth(vctr[v], y) /\ (y.is_lma <=> S = 0..top) /\ top \in Nat
  BY <1>2, <1>3, <1>4 DEF SameGrowth, TypeOK, VctrVal
<1>7. ASSUME NEW k \in Keys PROVE Stays(k)
  <2>1. /\ k[1] \in Uqids /\ vctr'[k[1]] = IF k[1] = v THEN y ELSE vctr[k[1]]
        /\ lma'[k[1]] = IF k[1] = v THEN f ELSE lma[k[1]]
    BY <1>5, KeyParts DEF TypeOK
  <2>2. ASSUME k \in chnks, Copies(k), y.is_lma, k[1] = v
        PROVE  {k[2]} \X Filled(chnk[k]) \subseteq f.data
    <3>1. k = <<v, k[2]>> /\ k[2] \in ChnkIdxs /\ chnk[k] \in ChnkVal /\ l2[k] \in L2File
      BY <2>2, KeyParts DEF TypeOK
    <3>2. k[2] \in 0..top
      BY <1>2, <1>5, <1>6, <2>2, <3>1 DEF CopyInv, KeysReached, Reached, ChnkIdxs
    <3>3. k[2] \in FillsLma(v)
      <4>1. S \subseteq FillsLma(v)
        BY <1>2, <1>6, RunInOk
      <4> QED BY <1>6, <2>2, <3>2, <4>1
    <3>4. chnk[k].l1_mem \/ chnk[k].l2_exists
      BY <3>1, <3>3 DEF FillsLma
    <3>5. Given(v, k[2]) = (IF chnk[k].l1_mem THEN chnk[k].l1_data ELSE l2[k].data)
                             \cap Filled(chnk[k])
      BY <3>1 DEF Given
    <3>6. ASSUME NEW s \in Filled(chnk[k]) PROVE s \in Slots /\ s \in Given(v, k[2])
      BY <2>2, <3>1, <3>4, <3>5, <3>6 DEF Copies, ChnkVal, L2File
    <3>7. f.data = {p \in ChnkIdxs \X Slots : p[1] \in S /\ p[2] \in Given(v, p[1])}
      BY <1>3
    <3> QED BY <1>6, <2>2, <3>1, <3>2, <3>6, <3>7
  <2>3. k \in chnks /\ k[1] \in Live /\ Copies(k) /\ vctr'[k[1]].is_lma
           => {k[2]} \X Filled(chnk[k]) \subseteq lma'[k[1]].data
    BY <2>1, <2>2 DEF Copies
  <2>4. EarlyBackup \/ Current(k)'
    BY <1>5, <2>3, LmaStays
  <2>5. SameSize(k)
    BY <1>5, <1>6, <2>1 DEF SameSize, SameGrowth
  <2> QED BY <1>5, <2>4, <2>5, SizedStays
<1> QED BY <1>7

(* vctr_append(): the linear file grows; chunks do not.                    *)
LEMMA AppendKeeps ==
  ASSUME TypeOK, DataInv, Append
  PROVE  DataInv'
<1>1. PICK d \in Uqids, s \in Uqids : vctr_append(d, s)
  BY DEF Append
<1>2. PICK y, f :
        /\ vctr' = [vctr EXCEPT ![d] = y] /\ lma' = [lma EXCEPT ![d] = f]
        /\ y.is_eov /\ (y.is_lma <=> vctr[d].is_lma) /\ lma[d].data \subseteq f.data
        /\ UNCHANGED <<vctrs, chnks, chnk, l2, half_deleted>>
  <2>1. PICK n, z : /\ n = vctr[d].num_elements + vctr[s].num_elements
                    /\ z = lma[d].size + vctr[s].num_elements - 1
    OBVIOUS
  <2>2. PICK y : y = [vctr[d] EXCEPT !.num_elements = n]
    OBVIOUS
  <2>3. PICK f : f = [size |-> lma[d].size + lma[s].size,
                      data |-> lma[d].data \cup
                        {p \in ChnkIdxs \X Slots :
                           p[1] * MaxNumInChnk + p[2] \in lma[d].size .. z}]
    OBVIOUS
  <2>4. /\ vctr' = [vctr EXCEPT ![d] = y] /\ lma' = [lma EXCEPT ![d] = f]
        /\ vctr[d].is_eov /\ UNCHANGED <<vctrs, chnks, chnk, l2, half_deleted>>
    BY <1>1, <2>1, <2>2, <2>3 DEF vctr_append, chnkTable, client, TypeOK
  <2>5. y.is_eov /\ (y.is_lma <=> vctr[d].is_lma)
    BY <2>2, <2>4 DEF TypeOK, VctrVal
  <2>6. lma[d].data \subseteq f.data
    BY <2>3
  <2> QED BY <2>4, <2>5, <2>6
<1>3. ASSUME NEW k \in Keys PROVE OpenFit(k)' /\ (EarlyBackup \/ Current(k)')
  <2>1. /\ k[1] \in Uqids /\ vctr'[k[1]] = IF k[1] = d THEN y ELSE vctr[k[1]]
        /\ lma'[k[1]] = IF k[1] = d THEN f ELSE lma[k[1]]
    BY <1>2, KeyParts DEF TypeOK
  <2>2. k \in chnks /\ k[1] \in Live /\ Copies(k) /\ vctr'[k[1]].is_lma
           => {k[2]} \X Filled(chnk[k]) \subseteq lma'[k[1]].data
    BY <1>2, <2>1 DEF Copies
  <2>3. EarlyBackup \/ Current(k)'
    BY <1>2, <2>2, LmaStays
  <2>4. OpenFit(k)'
    BY <1>2, <2>1 DEF DataInv, OpenFit, Fit
  <2> QED BY <2>3, <2>4
<1> QED BY <1>3 DEF DataInv

(* vctr_set_lma(): chunks that are only in the linear file.                *)
LEMMA SetLmaStays ==
  ASSUME TypeOK, CopyInv, DataInv, SetLma
  PROVE  \A k \in Keys : Stays(k)
<1>1. PICK v \in Uqids, n \in 1..MaxElems : vctr_set_lma(v, n)
  BY DEF SetLma
<1>2. PICK low, top : LmaSet(v, n, low, top)
  BY <1>1, SetLmaShape
<1>3. PICK y, f : /\ y = [vctr[v] EXCEPT !.num_elements = n, !.min_chnk_idx = low,
                            !.max_chnk_idx = top, !.is_eov = TRUE, !.is_lma = TRUE]
                  /\ f = [size |-> n, data |-> {p \in ChnkIdxs \X Slots :
                                                  p[1] * MaxNumInChnk + p[2] < n}]
  OBVIOUS
<1>4. /\ v \in vctrs /\ vctr[v].num_elements = 0 /\ lma' = [lma EXCEPT ![v] = f]
      /\ UNCHANGED <<vctrs, l2, half_deleted>>
  BY <1>1, <1>3, Zenon DEF vctr_set_lma, client
<1>5. /\ vctr' = [vctr EXCEPT ![v] = y] /\ y.num_elements = n /\ y.max_chnk_idx = top
      /\ y.is_eov
  BY <1>2, <1>3 DEF LmaSet, TypeOK, VctrVal
<1>6. /\ MaxNumInChnk \in Nat \ {0} /\ top \in Nat /\ low \in Nat /\ n \in Nat
      /\ top * MaxNumInChnk \in Nat
      /\ top * MaxNumInChnk < n /\ n <= top * MaxNumInChnk + MaxNumInChnk
  BY <1>2, BoundsAssumption DEF LmaSet, ChnkIdxs, BoundsAssumption, MaxElems
<1>7. ASSUME NEW k \in Keys PROVE Stays(k)
  <2>1. /\ k[1] \in Uqids /\ k[2] \in ChnkIdxs /\ k[2] \in Nat
        /\ vctr'[k[1]] = IF k[1] = v THEN y ELSE vctr[k[1]]
        /\ lma'[k[1]] = IF k[1] = v THEN f ELSE lma[k[1]]
    BY <1>4, <1>5, KeyParts DEF TypeOK, ChnkIdxs
  <2>2. CASE k[1] # v
    <3>1. (k \in chnks' <=> k \in chnks) /\ chnk'[k] = chnk[k]
      BY <1>2, <2>2 DEF LmaSet
    <3>2. SameSize(k)
      BY <1>4, <2>1, <2>2, <3>1 DEF SameSize, SameGrowth
    <3>3. NoNewCopy(k)
      BY <1>4, <2>1, <2>2, <3>1 DEF NoNewCopy, Live
    <3> QED BY <3>2, <3>3, QuietStays
  <2>3. CASE k[1] = v
    <3>1. k \notin chnks
      BY <1>4, <2>3 DEF CopyInv, KeysReached, Reached
    <3>2. k \in chnks' => /\ k[2] <= top
                          /\ ~chnk'[k].l1_mem /\ ~chnk'[k].l2_exists
                          /\ chnk'[k].num_elements = IF k[2] < top THEN MaxNumInChnk
                                                     ELSE n - top * MaxNumInChnk
      BY <1>2, <1>6, <2>1, <2>3, <3>1 DEF LmaSet
    <3>3. k \in chnks' => Fit(k)'
      <4>1. k[2] <= top /\ ~(k[2] < top) => k[2] = top
        BY <1>6, <2>1
      <4> QED BY <1>5, <2>1, <2>3, <3>2, <4>1 DEF Fit
    <3>4. PICK w : w = k[2] * MaxNumInChnk
      OBVIOUS
    <3>5. w \in Nat /\ (k[2] < top => w + MaxNumInChnk <= top * MaxNumInChnk)
      BY <1>6, <2>1, <3>4, ChnksInOrder
    <3>6. k \in chnks' => {k[2]} \X Filled(chnk'[k]) \subseteq f.data
      <4> SUFFICES ASSUME k \in chnks', NEW s \in Filled(chnk'[k])
                   PROVE  <<k[2], s>> \in f.data
        OBVIOUS
      <4>1. s \in Slots /\ w + s < n
        <5>1. CASE k[2] < top
          BY <1>6, <3>2, <3>5, <5>1 DEF Filled, Slots
        <5>2. CASE k[2] = top
          BY <1>6, <3>2, <3>4, <3>5, <5>2 DEF Filled, Slots
        <5> QED BY <1>6, <2>1, <3>2, <5>1, <5>2
      <4>2. f.data = {p \in ChnkIdxs \X Slots : p[1] * MaxNumInChnk + p[2] < n}
        BY <1>3
      <4> QED BY <2>1, <3>4, <4>1, <4>2
    <3>7. Current(k)'
      BY <2>1, <2>3, <3>2, <3>6, Zenon DEF Current, Copies
    <3> QED BY <1>5, <2>1, <2>3, <3>3, <3>7 DEF Stays, OpenFit, AllFit
  <2> QED BY <2>2, <2>3
<1> QED BY <1>7

-----------------------------------------------------------------------------
(* Growth.                                                                 *)

\* a chunk of a vector that has not ended, with row c, when the vector has n
\* elements and its last chunk is chunk last
Good(k, c, n, last) ==
  /\ c.num_elements = IF k[2] < last THEN MaxNumInChnk ELSE n - k[2] * MaxNumInChnk
  /\ EarlyBackup \/ ~c.l2_exists \/ c.num_elements = MaxNumInChnk
  /\ EarlyBackup \/ k[1] \notin Live \/
       /\ c.l1_mem => Filled(c) \subseteq c.l1_data
       /\ c.l2_exists => l2[k].file = "full" /\ Filled(c) \subseteq l2[k].data

(* A put, stored after memo, is right if the chunks of v before memo are.  *)
LEMMA StoreStays ==
  ASSUME TypeOK, DataInv, NEW v \in vctrs, NEW x \in VctrVal, NEW keys, keys \subseteq Keys,
         NEW c \in [Keys -> ChnkVal], NEW e \in BOOLEAN, NEW m,
         StoreWithMemo(v, x, e, keys, c, m), UNCHANGED <<vctrs, lma, half_deleted>>,
         ~x.is_lma,
         \A k \in Keys : k[1] # v => (k \in keys <=> k \in chnks) /\ c[k] = chnk[k],
         \A k \in keys : k[1] = v => Good(k, c[k], x.num_elements, x.max_chnk_idx)
  PROVE  \A k \in Keys : Stays(k)
<1> SUFFICES ASSUME NEW k \in Keys PROVE Stays(k)
  OBVIOUS
<1>0. v \in Uqids /\ k[1] \in Uqids /\ Live' = Live
  BY KeyParts DEF TypeOK, Live
<1>1. /\ k \in chnks' => k \in keys /\ chnk'[k] = c[k] /\ l2'[k] = l2[k]
      /\ k[1] # v => (k \in chnks' <=> k \in keys) /\ chnk'[k] = c[k] /\ l2'[k] = l2[k]
  BY <1>0, MemoLeaves
<1>2. PICK z, y : z = MemoMin(x) /\ y = [x EXCEPT !.min_chnk_idx = z, !.is_eov = e]
  OBVIOUS
<1>3. vctr' = [vctr EXCEPT ![v] = y]
  BY <1>2, Zenon DEF StoreWithMemo
<1>4. /\ y.num_elements = x.num_elements /\ y.max_chnk_idx = x.max_chnk_idx
      /\ y.is_lma = x.is_lma
  BY <1>2 DEF VctrVal
<1>5. vctr'[k[1]] = IF k[1] = v THEN y ELSE vctr[k[1]]
  BY <1>0, <1>3 DEF TypeOK
<1>6. CASE k[1] # v
  <2>1. SameSize(k)
    BY <1>1, <1>5, <1>6 DEF SameSize, SameGrowth
  <2>2. NoNewCopy(k)
    BY <1>0, <1>1, <1>5, <1>6 DEF NoNewCopy
  <2> QED BY <2>1, <2>2, QuietStays
<1>7. CASE k[1] = v
  <2> USE DEF Good
  <2>1. k \in chnks' => Fit(k)'
    BY <1>1, <1>4, <1>5, <1>7 DEF Fit
  <2>2. k \in chnks' => EarlyBackup \/ ~chnk'[k].l2_exists
                                    \/ chnk'[k].num_elements = MaxNumInChnk
    BY <1>1, <1>7
  <2>3. EarlyBackup \/ Current(k)'
    <3> SUFFICES ASSUME ~EarlyBackup, k \in chnks', v \in Live PROVE Copies(k)'
      BY <1>0, <1>7 DEF Current
    <3>1. /\ c[k].l1_mem => Filled(c[k]) \subseteq c[k].l1_data
          /\ c[k].l2_exists => l2[k].file = "full" /\ Filled(c[k]) \subseteq l2[k].data
      BY <1>1, <1>7
    <3> QED BY <1>1, <1>4, <1>5, <1>7, <3>1 DEF Copies
  <2> QED BY <1>7, <2>1, <2>2, <2>3 DEF Stays, OpenFit, AllFit
<1> QED BY <1>6, <1>7

(* A vector that has not ended, as it is.                                  *)
LEMMA OpenVctr ==
  ASSUME TypeOK, CopyInv, DataInv, NEW v \in vctrs, ~vctr[v].is_eov
  PROVE  /\ ~vctr[v].is_lma
         /\ \A k \in chnks : k[1] = v =>
              /\ vctr[v].num_elements > 0 /\ k[2] <= vctr[v].max_chnk_idx
              /\ Good(k, chnk[k], vctr[v].num_elements, vctr[v].max_chnk_idx)
<1>1. ~vctr[v].is_lma
  BY DEF CopyInv, RowsOk, RowOk
<1>2. ASSUME NEW k \in chnks, k[1] = v
      PROVE  /\ vctr[v].num_elements > 0 /\ k[2] <= vctr[v].max_chnk_idx
             /\ Fit(k)
             /\ EarlyBackup \/ ~chnk[k].l2_exists \/ chnk[k].num_elements = MaxNumInChnk
             /\ EarlyBackup \/ v \notin Live \/ Copies(k)
  <2>1. k \in Keys
    BY DEF TypeOK
  <2>2. Reached(k)
    BY <2>1 DEF CopyInv, KeysReached
  <2>3. OpenFit(k) /\ (EarlyBackup \/ Current(k))
    BY <2>1 DEF DataInv
  <2> QED BY <1>2, <2>2, <2>3 DEF Reached, OpenFit, Current
<1> QED BY <1>1, <1>2 DEF Fit, Copies, Good

(* vctr_eov().                                                             *)
LEMMA EovStays ==
  ASSUME TypeOK, CopyInv, DataInv, VctrEov
  PROVE  \A k \in Keys : Stays(k)
<1>1. PICK v \in Uqids : vctr_eov(v)
  BY DEF VctrEov
<1> DEFINE e == ~MemoFails(chnks, chnk, v, vctr[v])
<1>2. /\ v \in vctrs /\ ~vctr[v].is_eov
      /\ StoreWithMemo(v, vctr[v], e, chnks, chnk, mem_used)
      /\ UNCHANGED <<vctrs, lma, half_deleted>>
  BY <1>1 DEF vctr_eov, client
<1>3. e \in BOOLEAN
  OBVIOUS
<1>4. /\ vctr[v] \in VctrVal /\ chnks \subseteq Keys /\ chnk \in [Keys -> ChnkVal]
  BY DEF TypeOK
<1> HIDE DEF e
<1> QED BY <1>2, <1>3, <1>4, OpenVctr, StoreStays

\* n elements are put to a vector that has t: chunk i, which starts at element
\* w, has a of the t elements and b of the t + n, which end in chunk last
PutAt(i, t, n, w, a, b, last) ==
  /\ i \in Nat /\ t \in Nat /\ n \in Nat /\ n >= 1 /\ w = i * MaxNumInChnk
  /\ \/ t <= w /\ a = 0
     \/ w < t /\ t <= w + MaxNumInChnk /\ a = t - w
  /\ last = (t + n - 1) \div MaxNumInChnk
  /\ b = IF i < last THEN MaxNumInChnk ELSE t + n - w

(* The slots the chunk gets are those from a to b.                         *)
LEMMA SlotsPut ==
  ASSUME NEW i, NEW t, NEW n, NEW w, NEW a, NEW b, NEW last,
         PutAt(i, t, n, w, a, b, last)
  PROVE  /\ SlotsFor(i, t, n) # {} => /\ a < MaxNumInChnk
                                      /\ SlotsFor(i, t, n) = a..(b - 1)
                                      /\ Cardinality(SlotsFor(i, t, n)) = b - a
         /\ SlotsFor(i, t, n) = {} /\ w < t => a = MaxNumInChnk /\ i < last
<1>1. PICK M : M = MaxNumInChnk
  OBVIOUS
<1> USE DEF PutAt
<1>2. M \in Nat /\ M >= 1 /\ w \in Nat /\ a \in Nat /\ a <= M
  BY <1>1, BoundsAssumption DEF BoundsAssumption
<1>3. PICK u : u = t + n - 1
  OBVIOUS
<1>4. u \in Nat /\ last = u \div M /\ u = t + n - 1
  BY <1>1, <1>3
<1>5. PICK S : S = SlotsFor(i, t, n)
  OBVIOUS
<1>6. \A s : s \in S <=> s \in 0..(M - 1) /\ t <= w + s /\ w + s <= u
  BY <1>1, <1>2, <1>4, <1>5 DEF SlotsFor, Slots
<1>0. PICK p : p = last * M
  OBVIOUS
<1>7. last \in Nat /\ p \in Nat /\ p <= u /\ u < p + M
  <2>1. last \in Nat /\ last * M <= u /\ u < last * M + M
    BY <1>1, <1>4, ChnkOf
  <2> QED BY <1>0, <1>2, <2>1
<1>8. i < last => w + M <= u
  <2>1. i < last => i * M + M <= last * M
    BY <1>1, <1>7, ChnksInOrder
  <2>2. i < last => w + M <= p
    BY <1>0, <1>1, <2>1
  <2> QED BY <1>2, <1>4, <1>7, <2>2
<1>9. w <= u /\ ~(i < last) => u < w + M
  <2>1. w <= u => i <= last
    BY <1>1, <1>4, ChnkBounds
  <2>2. i = last => w = p
    BY <1>0, <1>1
  <2>3. w <= u /\ ~(i < last) => i = last
    BY <1>7, <2>1
  <2> QED BY <1>7, <2>2, <2>3
<1>10. ASSUME S # {} PROVE a < M /\ S = a..(b - 1) /\ Cardinality(S) = b - a
  <2>1. PICK s : s \in 0..(M - 1) /\ t <= w + s /\ w + s <= u
    BY <1>6, <1>10
  <2>2. w <= u /\ a < M /\ (t <= w => a = 0) /\ (w < t => a = t - w)
    BY <1>1, <1>2, <1>4, <2>1
  <2>3. b \in Nat /\ a < b /\ b <= M /\ (b = M \/ b = u + 1 - w) /\ w + b - 1 <= u
    <3>1. CASE i < last
      BY <1>1, <1>2, <1>4, <1>8, <2>2, <3>1
    <3>2. CASE ~(i < last)
      BY <1>1, <1>2, <1>4, <1>9, <2>1, <2>2, <3>2
    <3> QED BY <3>1, <3>2
  <2>4. S = a..(b - 1)
    <3>1. \A z : z \in S <=> z \in a..(b - 1)
      BY <1>2, <1>4, <1>6, <2>2, <2>3
    <3> QED BY <3>1
  <2>5. Cardinality(a..(b - 1)) = b - a
    <3>1. PICK r : r = b - 1
      OBVIOUS
    <3>2. r \in Int /\ a \in Int /\ a <= r /\ r - a + 1 = b - a
      BY <1>2, <2>3, <3>1
    <3> QED BY <3>1, <3>2, FS_Interval
  <2> QED BY <2>2, <2>4, <2>5
<1>11. ASSUME S = {}, w < t PROVE a = M /\ i < last
  <2>1. PICK s : s = t - w
    OBVIOUS
  <2>2. s \notin S /\ s \in Nat /\ s = a /\ w + s = t /\ t <= u
    BY <1>2, <1>4, <1>11, <2>1
  <2>3. a = M
    BY <1>2, <1>6, <2>2
  <2>4. w + M <= u
    BY <1>2, <2>2, <2>3
  <2> QED BY <1>2, <1>4, <1>9, <2>3, <2>4
<1> QED BY <1>1, <1>5, <1>10, <1>11

(* A chunk of v after a put of n elements, before memo: filled up to where *)
(* the elements end, in RAM as in its row.                                 *)
LEMMA PutnFills ==
  ASSUME TypeOK, CopyInv, DataInv, NEW v \in vctrs, NEW n \in 1..(MaxNumInChnk + 1),
         ~vctr[v].is_eov,
         vctr[v].num_elements > 0 => chnk_is(v, vctr[v].max_chnk_idx),
         NEW c \in [Keys -> ChnkVal], NEW k \in Keys, k[1] = v, Filled_n(c, v, n, k),
         k \in chnks \/ SlotsFor(k[2], vctr[v].num_elements, n) # {}
  PROVE  Good(k, c[k], vctr[v].num_elements + n,
              (vctr[v].num_elements + n - 1) \div MaxNumInChnk)
<1>0. PICK t, last : t = vctr[v].num_elements /\ last = (t + n - 1) \div MaxNumInChnk
  OBVIOUS
<1> SUFFICES Good(k, c[k], t + n, last)
  BY <1>0
<1> USE <1>0
<1>1. PICK M, i, max, w, S : /\ M = MaxNumInChnk /\ i = k[2] /\ max = vctr[v].max_chnk_idx
                             /\ w = k[2] * MaxNumInChnk /\ S = SlotsFor(k[2], t, n)
  OBVIOUS
<1>2. PICK b : b = IF i < last THEN MaxNumInChnk ELSE t + n - w
  OBVIOUS
<1>3. /\ M \in Nat /\ M >= 1 /\ i \in Nat /\ w \in Nat /\ t \in Nat /\ n \in Nat /\ n >= 1
      /\ max \in Nat /\ k = <<v, i>> /\ w = i * MaxNumInChnk
  BY <1>1, KeyParts, BoundsAssumption DEF BoundsAssumption, TypeOK, VctrVal, ChnkIdxs
<1>4. t > 0 => /\ max = (t - 1) \div MaxNumInChnk /\ chnk_is(v, max)
               /\ max * M <= t - 1 /\ t - 1 < max * M + M
  <2>1. t > 0 => max = (t - 1) \div MaxNumInChnk /\ chnk_is(v, max)
    BY <1>1 DEF CopyInv, RowsOk, RowOk
  <2>2. t > 0 => t - 1 \in Nat
    BY <1>3
  <2> QED BY <1>1, <2>1, <2>2, ChnkOf
<1>5. k \in chnks =>
        /\ t > 0 /\ i <= max
        /\ chnk[k].num_elements = IF i < max THEN M ELSE t - w
        /\ EarlyBackup \/ ~chnk[k].l2_exists \/ chnk[k].num_elements = M
        /\ EarlyBackup \/ v \notin Live \/
             /\ chnk[k].l1_mem => Filled(chnk[k]) \subseteq chnk[k].l1_data
             /\ chnk[k].l2_exists => l2[k].file = "full" /\ Filled(chnk[k]) \subseteq l2[k].data
  BY <1>1, OpenVctr DEF Good
<1>6. PICK a : a = IF k \in chnks THEN chnk[k].num_elements ELSE 0
  OBVIOUS
<1>7. k \notin chnks => t <= w /\ a = 0 /\ S # {}
  <2> SUFFICES ASSUME k \notin chnks PROVE t <= w /\ a = 0 /\ S # {}
    OBVIOUS
  <2>1. S # {} /\ a = 0
    BY <1>1, <1>6
  <2>2. CASE t = 0
    BY <1>3, <2>1, <2>2
  <2>3. CASE t > 0
    <3>1. max <= i
      BY <1>1, <1>3, <1>4, <2>1, <2>3, SlotsRange
    <3>2. max # i
      BY <1>3, <1>4, <2>3 DEF chnk_is
    <3>3. max * MaxNumInChnk + MaxNumInChnk <= i * MaxNumInChnk
      BY <1>3, <3>1, <3>2, ChnksInOrder
    <3>4. PICK p : p = max * MaxNumInChnk
      OBVIOUS
    <3>5. p + M <= w /\ t - 1 < p + M
      BY <1>1, <1>4, <2>3, <3>3, <3>4
    <3>6. p \in Nat
      BY <1>1, <1>3, <3>4
    <3> QED BY <1>3, <2>1, <3>5, <3>6
  <2> QED BY <1>3, <2>2, <2>3
<1>8. k \in chnks => \/ i < max /\ a = M /\ w + M < t
                     \/ i = max /\ w < t /\ t <= w + M /\ a = t - w
  <2> SUFFICES ASSUME k \in chnks
               PROVE  \/ i < max /\ a = M /\ w + M < t
                      \/ i = max /\ w < t /\ t <= w + M /\ a = t - w
    OBVIOUS
  <2>1. PICK p : p = max * MaxNumInChnk
    OBVIOUS
  <2>2. p \in Nat /\ p <= t - 1 /\ t - 1 < p + M
    BY <1>1, <1>3, <1>4, <1>5, <2>1
  <2>3. CASE i < max
    <3>1. i * MaxNumInChnk + MaxNumInChnk <= max * MaxNumInChnk
      BY <1>3, <2>3, ChnksInOrder
    <3>2. w + M <= p
      BY <1>1, <1>3, <2>1, <3>1
    <3> QED BY <1>3, <1>5, <1>6, <2>2, <2>3, <3>2
  <2>4. CASE i = max
    <3>1. w = p
      BY <1>3, <2>1, <2>4
    <3> QED BY <1>3, <1>5, <1>6, <2>2, <2>4, <3>1
  <2> QED BY <1>3, <1>5, <2>3, <2>4
<1>9. /\ S = {} => c[k] = chnk[k]
      /\ S # {} /\ k \in chnks => /\ c[k].l1_mem = chnk[k].l1_mem
                                  /\ c[k].l2_exists = chnk[k].l2_exists
                                  /\ c[k].num_elements = a + Cardinality(S)
                                  /\ c[k].l1_data = chnk[k].l1_data \cup S
      /\ S # {} /\ k \notin chnks => /\ ~c[k].l2_exists
                                     /\ c[k].num_elements = Cardinality(S)
                                     /\ c[k].l1_data = S
  BY <1>1, <1>6 DEF Filled_n
<1>10. CASE i < max /\ k \in chnks
  <2>1. S = {}
    <3>1. S # {} /\ t > 0 => max <= i
      BY <1>1, <1>3, <1>4, SlotsRange
    <3> QED BY <1>3, <1>5, <1>10, <3>1
  <2>2. max <= last
    <3>1. PICK p, u : p = max * MaxNumInChnk /\ u = t + n - 1
      OBVIOUS
    <3>2. p \in Nat /\ u \in Nat /\ p <= u
      BY <1>1, <1>3, <1>4, <1>5, <1>10, <3>1
    <3> QED BY <1>3, <3>1, <3>2, ChnkBounds
  <2>3. last \in Nat /\ i < last
    <3>1. PICK u : u = t + n - 1
      OBVIOUS
    <3>2. u \in Nat
      BY <1>3, <3>1
    <3>3. last \in Nat
      BY <3>1, <3>2, ChnkOf
    <3> QED BY <1>3, <1>10, <2>2, <3>3
  <2> QED BY <1>1, <1>5, <1>9, <1>10, <2>1, <2>3 DEF Good
<1>11. CASE ~(i < max /\ k \in chnks)
  <2>1. \/ t <= w /\ a = 0
        \/ w < t /\ t <= w + MaxNumInChnk /\ a = t - w
    BY <1>1, <1>7, <1>8, <1>11
  <2>2. /\ S # {} => a < M /\ S = a..(b - 1) /\ Cardinality(S) = b - a
        /\ S = {} /\ w < t => a = M /\ i < last
    <3>1. S = SlotsFor(i, t, n)
      BY <1>1, Zenon
    <3>2. /\ SlotsFor(i, t, n) # {} => /\ a < MaxNumInChnk
                                       /\ SlotsFor(i, t, n) = a..(b - 1)
                                       /\ Cardinality(SlotsFor(i, t, n)) = b - a
          /\ SlotsFor(i, t, n) = {} /\ w < t => a = MaxNumInChnk /\ i < last
      <4>1. PutAt(i, t, n, w, a, b, last)
        BY <1>2, <1>3, <2>1, Zenon DEF PutAt
      <4> QED BY <4>1, SlotsPut
    <3> QED BY <1>1, <3>1, <3>2
  <2>3. a \in Nat
    BY <1>1, <1>3, <2>1
  <2>4. CASE S = {}
    <3>1. k \in chnks /\ i < last /\ a = M
      BY <1>3, <1>7, <1>8, <1>11, <2>2, <2>4
    <3>2. c[k] = chnk[k] /\ chnk[k].num_elements = M
      BY <1>6, <1>9, <2>4, <3>1
    <3> QED BY <1>1, <1>5, <3>1, <3>2 DEF Good
  <2>5. CASE S # {}
    <3>1. b \in Int /\ a < M /\ a < b
      <4>1. last \in Nat
        <5>1. PICK u : u = t + n - 1
          OBVIOUS
        <5> QED BY <1>3, <5>1, ChnkOf
      <4>2. b \in Int
        BY <1>1, <1>2, <1>3, <4>1
      <4> QED BY <2>2, <2>3, <2>5, <4>2
    <3>2. c[k].num_elements = b
      <4>1. k \in chnks => c[k].num_elements = a + (b - a)
        BY <1>9, <2>2, <2>5
      <4>2. k \notin chnks => a = 0 /\ c[k].num_elements = b - a
        BY <1>7, <1>9, <2>2, <2>5
      <4> QED BY <2>3, <3>1, <4>1, <4>2
    <3>3. EarlyBackup \/ ~c[k].l2_exists
      <4>1. k \in chnks => chnk[k].num_elements # M
        BY <1>6, <2>3, <3>1, <1>3
      <4> QED BY <1>5, <1>9, <2>5, <4>1
    <3>4. EarlyBackup \/ v \notin Live \/ (c[k].l1_mem => Filled(c[k]) \subseteq c[k].l1_data)
      <4>1. Filled(c[k]) = 0..(b - 1)
        BY <3>2, Zenon DEF Filled
      <4>2. \A s : s \in 0..(b - 1) => s \in 0..(a - 1) \/ s \in S
        BY <2>2, <2>3, <2>5, <3>1
      <4>3. CASE k \notin chnks
        <5>1. a = 0 /\ c[k].l1_data = S
          BY <1>7, <1>9, <2>5, <4>3
        <5> QED BY <2>2, <2>5, <4>1, <5>1
      <4>4. CASE k \in chnks
        <5>1. /\ Filled(chnk[k]) = 0..(a - 1) /\ c[k].l1_data = chnk[k].l1_data \cup S
              /\ c[k].l1_mem = chnk[k].l1_mem
          BY <1>6, <1>9, <2>5, <4>4, Zenon DEF Filled
        <5> QED BY <1>5, <4>1, <4>2, <4>4, <5>1
      <4> QED BY <4>3, <4>4
    <3>6. PICK z, tot : z = c[k] /\ tot = t + n
      OBVIOUS
    <3>7. /\ z.num_elements = IF k[2] < last THEN MaxNumInChnk
                              ELSE tot - k[2] * MaxNumInChnk
          /\ EarlyBackup \/ ~z.l2_exists
          /\ EarlyBackup \/ k[1] \notin Live \/ (z.l1_mem => Filled(z) \subseteq z.l1_data)
      <4>1. z.num_elements = IF i < last THEN MaxNumInChnk ELSE tot - w
        BY <1>2, <1>3, <3>2, <3>6
      <4>2. i = k[2] /\ w = k[2] * MaxNumInChnk
        BY <1>1
      <4>3. z.num_elements = IF k[2] < last THEN MaxNumInChnk
                             ELSE tot - k[2] * MaxNumInChnk
        BY <4>1, <4>2
      <4> QED BY <3>3, <3>4, <3>6, <4>3
    <3>8. Good(k, z, tot, last)
      BY <3>7 DEF Good
    <3> QED BY <3>6, <3>8
  <2> QED BY <2>4, <2>5
<1> QED BY <1>10, <1>11

(* vctr_put1() and vctr_putn().                                            *)
LEMMA PutnStays ==
  ASSUME TypeOK, CopyInv, DataInv, VctrPutn
  PROVE  \A k \in Keys : Stays(k)
<1>1. PICK v \in Uqids, n \in 1..(MaxNumInChnk + 1) : vctr_putn(v, n)
  BY DEF VctrPutn
<1>2. /\ v \in vctrs /\ ~vctr[v].is_eov
      /\ vctr[v].num_elements > 0 => chnk_is(v, vctr[v].max_chnk_idx)
      /\ UNCHANGED <<vctrs, lma, half_deleted>>
  BY <1>1, Zenon DEF vctr_putn, client
<1>3. PICK y, keys, c, m :
           /\ StoreWithMemo(v, y, FALSE, keys, c, m)
           /\ y \in VctrVal /\ keys \subseteq Keys /\ c \in [Keys -> ChnkVal]
           /\ y = [vctr[v] EXCEPT !.num_elements = vctr[v].num_elements + n,
                     !.max_chnk_idx = (vctr[v].num_elements + n - 1) \div MaxNumInChnk]
           /\ \A k \in Keys :
                /\ k \in keys <=> \/ k \in chnks
                                  \/ /\ k[1] = v
                                     /\ SlotsFor(k[2], vctr[v].num_elements, n) # {}
                /\ Filled_n(c, v, n, k)
  BY <1>1, PutnShape
<1>4. PICK t, last, f : /\ t = vctr[v].num_elements /\ f = FALSE
                        /\ last = (t + n - 1) \div MaxNumInChnk
  OBVIOUS
<1>5. y.num_elements = t + n /\ y.max_chnk_idx = last /\ y.is_lma = vctr[v].is_lma
  BY <1>1, <1>3, <1>4 DEF TypeOK, VctrVal
<1>6. ~y.is_lma
  BY <1>2, <1>5, OpenVctr
<1>7. \A k \in Keys : k[1] # v => (k \in keys <=> k \in chnks) /\ c[k] = chnk[k]
  BY <1>3, Zenon DEF Filled_n
<1>8. ASSUME NEW k \in keys, k[1] = v PROVE Good(k, c[k], t + n, last)
  <2>1. /\ k \in Keys /\ Filled_n(c, v, n, k)
        /\ k \in chnks \/ SlotsFor(k[2], vctr[v].num_elements, n) # {}
    BY <1>3, <1>8
  <2>2. Good(k, c[k], vctr[v].num_elements + n,
             (vctr[v].num_elements + n - 1) \div MaxNumInChnk)
    BY <1>2, <1>3, <1>8, <2>1, PutnFills
  <2> QED BY <1>4, <2>2
<1>9. \A k \in keys : k[1] = v => Good(k, c[k], y.num_elements, y.max_chnk_idx)
  BY <1>5, <1>8, Zenon
<1>10. StoreWithMemo(v, y, f, keys, c, m) /\ f \in BOOLEAN
  BY <1>3, <1>4
<1>11. y \in VctrVal /\ keys \subseteq Keys /\ c \in [Keys -> ChnkVal]
  BY <1>3
<1> QED BY <1>2, <1>6, <1>7, <1>9, <1>10, <1>11, StoreStays

(* A chunk of v after a put of a whole chunk, before memo.                 *)
LEMMA PutChunkFills ==
  ASSUME TypeOK, CopyInv, DataInv, NEW v \in vctrs, NEW n \in 1..MaxNumInChnk,
         ~vctr[v].is_eov, vctr[v].num_elements % MaxNumInChnk = 0,
         NEW i \in ChnkIdxs,
         i = IF vctr[v].num_elements = 0 THEN 0 ELSE vctr[v].max_chnk_idx + 1,
         NEW c, c = [chnk EXCEPT ![<<v, i>>] =
                       [FreshChnk(vctr[v]) EXCEPT !.num_elements = n, !.l1_data = 0..(n - 1)]],
         NEW k \in chnks \cup {<<v, i>>}, k[1] = v
  PROVE  Good(k, c[k], vctr[v].num_elements + n, i)
<1>0. PICK t : t = vctr[v].num_elements
  OBVIOUS
<1> SUFFICES Good(k, c[k], t + n, i)
  BY <1>0
<1> USE <1>0
<1>1. PICK M, w, f, max : /\ M = MaxNumInChnk /\ w = i * M /\ max = vctr[v].max_chnk_idx
                          /\ f = [FreshChnk(vctr[v]) EXCEPT !.num_elements = n,
                                                            !.l1_data = 0..(n - 1)]
  OBVIOUS
<1>2. /\ M \in Nat /\ M >= 1 /\ i \in Nat /\ t \in Nat /\ n \in Nat /\ n >= 1
      /\ max \in Nat /\ v \in Uqids /\ <<v, i>> \in Keys /\ vctr[v] \in VctrVal
  BY <1>1, KeyParts, BoundsAssumption DEF BoundsAssumption, TypeOK, VctrVal, ChnkIdxs
<1>3. t > 0 => max = (t - 1) \div MaxNumInChnk
  BY <1>1 DEF CopyInv, RowsOk, RowOk
<1>4. w = t
  <2>1. CASE t = 0
    BY <1>1, <1>2, <2>1
  <2>2. CASE t > 0
    <3>1. i = (t - 1) \div MaxNumInChnk + 1
      BY <1>1, <1>2, <1>3, <2>2
    <3>2. ((t - 1) \div MaxNumInChnk + 1) * MaxNumInChnk = t
      BY <1>2, <2>2, FullChnks
    <3> QED BY <1>1, <3>1, <3>2
  <2> QED BY <1>2, <2>1, <2>2
<1>5. c = [chnk EXCEPT ![<<v, i>>] = f]
  BY <1>1
<1>6. \A j \in Keys : c[j] = IF j = <<v, i>> THEN f ELSE chnk[j]
  BY <1>5 DEF TypeOK
<1>7. CASE k = <<v, i>>
  <2>1. c[k] = f /\ k[2] = i
    BY <1>2, <1>6, <1>7
  <2>2. f.num_elements = n /\ f.l1_data = 0..(n - 1) /\ f.l2_exists = FALSE
    BY <1>1 DEF FreshChnk, ZeroChnk
  <2>3. Filled(f) = 0..(n - 1)
    BY <2>2, Zenon DEF Filled
  <2>4. n = t + n - w /\ ~(i < i)
    BY <1>2, <1>4
  <2>6. c[k].l2_exists = FALSE /\ Filled(c[k]) \subseteq c[k].l1_data
    BY <2>1, <2>2, <2>3
  <2>7. PICK z, tot : z = c[k] /\ tot = t + n
    OBVIOUS
  <2>8. /\ z.num_elements = IF k[2] < i THEN MaxNumInChnk
                            ELSE tot - k[2] * MaxNumInChnk
        /\ z.l2_exists = FALSE /\ Filled(z) \subseteq z.l1_data
    <3>1. k[2] * MaxNumInChnk = w /\ z.num_elements = n /\ ~(k[2] < i)
      BY <1>1, <2>1, <2>2, <2>4, <2>7
    <3>2. n = tot - w
      BY <1>2, <1>4, <2>7
    <3>3. z.num_elements = IF k[2] < i THEN MaxNumInChnk
                           ELSE tot - k[2] * MaxNumInChnk
      BY <3>1, <3>2
    <3> QED BY <2>6, <2>7, <3>3
  <2>9. Good(k, z, tot, i)
    BY <2>8 DEF Good
  <2> QED BY <2>7, <2>9
<1>8. CASE k # <<v, i>>
  <2>1. k \in chnks /\ k \in Keys /\ c[k] = chnk[k] /\ k[2] \in Nat
    BY <1>6, <1>8, KeyParts DEF TypeOK, ChnkIdxs
  <2>2. /\ t > 0 /\ k[2] <= max
        /\ chnk[k].num_elements = IF k[2] < max THEN M ELSE t - k[2] * M
        /\ EarlyBackup \/ ~chnk[k].l2_exists \/ chnk[k].num_elements = M
        /\ EarlyBackup \/ v \notin Live \/
             /\ chnk[k].l1_mem => Filled(chnk[k]) \subseteq chnk[k].l1_data
             /\ chnk[k].l2_exists => l2[k].file = "full" /\ Filled(chnk[k]) \subseteq l2[k].data
    BY <1>1, <2>1, OpenVctr DEF Good
  <2>3. i = max + 1 /\ k[2] < i
    BY <1>1, <1>2, <2>1, <2>2
  <2>4. chnk[k].num_elements = M
    <3>1. CASE k[2] < max
      BY <2>2, <3>1
    <3>2. CASE k[2] = max
      <4>1. w = max * M + M
        BY <1>1, <1>2, <2>3
      <4>2. PICK p : p = max * M
        OBVIOUS
      <4>3. p \in Nat /\ t = p + M /\ chnk[k].num_elements = t - p
        BY <1>2, <1>4, <2>2, <3>2, <4>1, <4>2
      <4> QED BY <1>2, <4>3
    <3> QED BY <1>2, <2>1, <2>2, <3>1, <3>2
  <2> QED BY <1>1, <2>1, <2>2, <2>3, <2>4 DEF Good
<1> QED BY <1>7, <1>8

(* vctr_put_chunk().                                                       *)
LEMMA PutChunkStays ==
  ASSUME TypeOK, CopyInv, DataInv, VctrPutChunk
  PROVE  \A k \in Keys : Stays(k)
<1>1. PICK v \in Uqids, n \in 1..MaxNumInChnk, s \in Steals : vctr_put_chunk(v, n, s)
  BY DEF VctrPutChunk
<1> DEFINE x == vctr[v]
           i == IF x.num_elements = 0 THEN 0 ELSE x.max_chnk_idx + 1
           y == [x EXCEPT !.num_elements = @ + n, !.max_chnk_idx = i]
           keys == chnks \cup {<<v, i>>}
           c == [chnk EXCEPT ![<<v, i>>] =
                   [FreshChnk(x) EXCEPT !.num_elements = n, !.l1_data = 0..(n - 1)]]
           m == IF s THEN mem_used ELSE incr_mem_used(mem_used, 1)
           e == n < MaxNumInChnk /\ ~MemoFails(keys, c, v, y)
<1>2. /\ v \in vctrs /\ ~x.is_eov /\ x.num_elements % MaxNumInChnk = 0 /\ i \in ChnkIdxs
      /\ \/ StoreWithMemo(v, x, FALSE, chnks, chnk, mem_used)
         \/ StoreWithMemo(v, y, e, keys, c, m)
      /\ UNCHANGED <<vctrs, lma, half_deleted>>
  BY <1>1, Zenon DEF vctr_put_chunk, client
<1>3. x \in VctrVal /\ chnks \subseteq Keys /\ chnk \in [Keys -> ChnkVal]
  BY DEF TypeOK
<1>4. CASE StoreWithMemo(v, x, FALSE, chnks, chnk, mem_used)
  <2>1. PICK f : f = FALSE
    OBVIOUS
  <2>2. StoreWithMemo(v, vctr[v], f, chnks, chnk, mem_used) /\ f \in BOOLEAN
    BY <1>4, <2>1
  <2> QED BY <1>2, <1>3, <2>2, OpenVctr, StoreStays
<1>5. CASE StoreWithMemo(v, y, e, keys, c, m)
  <2>1. PutOk(v, y, keys, c)
    BY <1>2, PutChunkOk
  <2>2. y.num_elements = x.num_elements + n /\ y.max_chnk_idx = i
    BY <1>3 DEF VctrVal
  <2>3. \A k \in keys : k[1] = v => Good(k, c[k], x.num_elements + n, i)
    BY <1>2, PutChunkFills, Zenon
  <2>4. e \in BOOLEAN
    OBVIOUS
  <2> HIDE DEF x, i, y, keys, c, m, e
  <2>5. \A k \in keys : k[1] = v => Good(k, c[k], y.num_elements, y.max_chnk_idx)
    BY <2>2, <2>3, Zenon
  <2>6. /\ y \in VctrVal /\ keys \subseteq Keys /\ c \in [Keys -> ChnkVal] /\ ~y.is_lma
        /\ \A k \in Keys : k[1] # v => (k \in keys <=> k \in chnks) /\ c[k] = chnk[k]
    BY <2>1 DEF PutOk
  <2> QED BY <1>2, <1>5, <2>4, <2>5, <2>6, StoreStays
<1> QED BY <1>2, <1>4, <1>5

-----------------------------------------------------------------------------
(* Putting it together.                                                    *)

(* Every step but append keeps every chunk right.                          *)
LEMMA NextStays ==
  ASSUME TypeOK, CopyInv, DataInv, Next, ~Append
  PROVE  \A k \in Keys : Stays(k)
<1>1. CASE GrowNext
  BY <1>1, AddStays, PutnStays, PutChunkStays, EovStays, EarlyFreeStays DEF GrowNext
<1>2. CASE AccessNext
  BY <1>2, GetStays, LightStays, GetLmaWriteStays, UngetLmaWriteStays DEF AccessNext
<1>3. CASE TierNext
  BY <1>3, DropStays, MakeL1Stays, BackupStays, UnprefetchStays, ChnksToLmaStays,
     LmaToChnksStays, SetLmaStays, SetLmaFailsStays DEF TierNext
<1>4. CASE LifeNext
  BY <1>4, LightStays, AddStays, DeletionStays DEF LifeNext
<1> QED BY <1>1, <1>2, <1>3, <1>4 DEF Next

(* No step at all.                                                         *)
LEMMA IdleStays ==
  ASSUME DataInv, UNCHANGED vars
  PROVE  \A k \in Keys : Stays(k)
<1>1. /\ vctrs' = vctrs /\ vctr' = vctr /\ chnks' = chnks /\ chnk' = chnk
      /\ l2' = l2 /\ lma' = lma /\ half_deleted' = half_deleted
  BY DEF vars, vctrTable, chnkTable, client
<1> SUFFICES ASSUME NEW k \in Keys PROVE Stays(k)
  OBVIOUS
<1>2. OpenFit(k) /\ (EarlyBackup \/ Current(k))
  BY DEF DataInv
<1>3. OpenFit(k)'
  BY <1>1, <1>2 DEF OpenFit, Fit
<1>4. EarlyBackup \/ Current(k)'
  BY <1>1, <1>2 DEF Current, Copies, Live
<1>5. AllFit(k) => AllFit(k)'
  BY <1>1 DEF AllFit, Fit
<1> QED BY <1>3, <1>4, <1>5 DEF Stays

(* A session starts without chunks.                                        *)
LEMMA InitData == Init => DataInv /\ \A k \in Keys : AllFit(k)
  BY DEF Init, VctrInit, DataInv, OpenFit, Current, AllFit

(* DataInv is an invariant.                                                *)
LEMMA VctrDataInv == Spec => []DataInv
<1>1. TypeOK /\ CopyInv /\ DataInv /\ [Next]_vars => DataInv'
  <2> SUFFICES ASSUME TypeOK, CopyInv, DataInv, [Next]_vars PROVE DataInv'
    OBVIOUS
  <2>1. CASE Append
    BY <2>1, AppendKeeps
  <2>2. CASE ~Append
    <3>1. \A k \in Keys : Stays(k)
      BY <2>2, NextStays, IdleStays
    <3> QED BY <3>1 DEF Stays, DataInv
  <2> QED BY <2>1, <2>2
<1> QED BY <1>1, InitData, VctrTypeOK, VctrCopyInv, PTL DEF Spec

(* Whatever is dropped, prefetched, backed up, linearised and written, and *)
(* in whatever order, the copies that are left of a chunk of a vector hold *)
(* the values last put in it.  The client does not back up chunks that are *)
(* still being filled.                                                     *)
THEOREM VctrCopiesCurrent ==
  ASSUME EarlyBackup = FALSE
  PROVE  Spec => []CopiesCurrent
<1>1. TypeOK /\ DataInv => CopiesCurrent
  BY CurrentParts
<1> QED BY <1>1, VctrTypeOK, VctrDataInv, PTL

(* A vector's elements are where vctr_chk() says they are, as long as none *)
(* are appended to its linear file: of all the operations, vctr_append() is*)
(* the one that adds elements and no chunks.                               *)
THEOREM VctrElemsMatchChnks == Spec /\ [][~Append]_vars => []ElemsMatchChnks
<1> DEFINE Fits == \A k \in Keys : AllFit(k)
<1>1. TypeOK /\ CopyInv /\ DataInv /\ Fits /\ [Next]_vars /\ [~Append]_vars => Fits'
  <2> SUFFICES ASSUME TypeOK, CopyInv, DataInv, Fits, [Next]_vars, [~Append]_vars PROVE Fits'
    OBVIOUS
  <2>1. \A k \in Keys : Stays(k)
    BY NextStays, IdleStays
  <2> QED BY <2>1 DEF Stays
<1>2. Init => Fits
  BY InitData
<1>3. TypeOK /\ Fits => ElemsMatchChnks
  BY CurrentParts
<1> HIDE DEF Fits
<1> QED BY <1>1, <1>2, <1>3, VctrTypeOK, VctrCopyInv, VctrDataInv, PTL DEF Spec
=============================================================================
