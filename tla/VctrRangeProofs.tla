--------------------------- MODULE VctrRangeProofs ---------------------------
(***************************************************************************)
(* Proofs about which chunks a vector has, for any number of vectors,      *)
(* chunks, elements and readers, with memo, early free and deletion: they  *)
(* are those of its range, no more of them than memo_len, and their lives  *)
(* ascend.  And about who reads them: every reader of a linear file is     *)
(* counted, where no vector gets one, or loses it, while it is read.  Then *)
(* the accounts, as long as no quota is hit: g_dsk_used is what the files  *)
(* on disk take, and g_mem_used is no more than the chunks in RAM take,    *)
(* short of them by the buffers the producers gave away.                   *)
(***************************************************************************)
EXTENDS VctrCopyProofs, VctrStolen, LoopProofs

-----------------------------------------------------------------------------
(* The inductive invariant.  It speaks of every vector in the table, also  *)
(* of one that a deletion has left half done: the next deletion of it must *)
(* find the chunks that are left.                                          *)

\* the range in the row of a vector, and its memo
RangeOk(x) ==
  /\ x.num_elements = 0 => x.min_chnk_idx = 0 /\ x.max_chnk_idx = 0
  /\ x.num_elements > 0 =>
       /\ x.min_chnk_idx <= x.max_chnk_idx + 1
       /\ x.memo_len > 0 => x.max_chnk_idx + 1 - x.min_chnk_idx <= x.memo_len

\* a chunk that is there belongs to a vector, is not before its range, has no
\* more lives than a new one gets, and until the vector ends it has a copy of
\* its own: early_free passes over a chunk without one
InRange(k) ==
  k \in chnks =>
    /\ k[1] \in vctrs /\ vctr[k[1]].min_chnk_idx <= k[2]
    /\ chnk[k].num_free_ignore <= FreshLives(vctr[k[1]])
    /\ vctr[k[1]].is_eov \/ HasCopy(chnk[k])

LivesOrdered(v) ==
  \A i, j \in Present(v) :
    i <= j => chnk[<<v, i>>].num_free_ignore <= chnk[<<v, j>>].num_free_ignore

VctrRange(v) ==
  v \in vctrs =>
    /\ RangeOk(vctr[v]) /\ LivesOrdered(v)
    /\ v \in Live /\ vctr[v].num_elements > 0 => Idxs(vctr[v]) \subseteq Present(v)

RangeInv == (\A k \in Keys : InRange(k)) /\ (\A v \in Uqids : VctrRange(v))

\* the step moves the range of a vector past a chunk that is being read:
\* vctr_memo() does, and leaves that chunk in the table
AgesInUse ==
  \E k \in chnks : /\ chnk[k].num_readers > 0 /\ k[1] \in vctrs'
                   /\ k[2] < vctr'[k[1]].min_chnk_idx

-----------------------------------------------------------------------------
(* Steps that leave the range of a vector alone.                           *)

RowStays(x, y) ==
  /\ y.min_chnk_idx = x.min_chnk_idx /\ y.max_chnk_idx = x.max_chnk_idx
  /\ y.num_elements = 0 <=> x.num_elements = 0
  /\ y.num_elements = 0 \/ y.memo_len = x.memo_len
  /\ y.memo_len = 0 /\ ~y.is_early_freeable => ~x.is_early_freeable
  /\ FreshLives(x) <= FreshLives(y)
  /\ x.is_eov => y.is_eov

\* vector u and its chunks stay, as far as RangeInv is concerned
Rests(u) ==
  /\ u \in vctrs' <=> u \in vctrs
  /\ u \in vctrs => RowStays(vctr[u], vctr'[u])
  /\ u \in Live' => u \in Live
  /\ \A k \in Keys : k[1] = u =>
       /\ k \in chnks' <=> k \in chnks
       /\ k \in chnks => /\ chnk'[k].num_free_ignore = chnk[k].num_free_ignore
                         /\ HasCopy(chnk[k]) => vctr'[u].is_eov \/ HasCopy(chnk'[k])

(* The lives of a new chunk, as a number.                                  *)
LEMMA LivesType ==
  ASSUME NEW x \in VctrVal
  PROVE  FreshLives(x) \in Nat /\ x.num_elements \in Nat /\ x.min_chnk_idx \in Nat
         /\ x.max_chnk_idx \in Nat /\ x.memo_len \in Nat
  BY DEF VctrVal, FreshLives

(* Rows that keep what CopyInv looks at keep this too.                     *)
LEMMA KeepsStays ==
  ASSUME NEW x \in VctrVal, NEW y \in VctrVal, Keeps(x, y)
  PROVE  RowStays(x, y)
<1>1. FreshLives(x) \in Nat /\ FreshLives(y) \in Nat
  BY LivesType
<1> QED BY <1>1 DEF Keeps, KeepsRange, RowStays

(* What rests stays right.                                                 *)
LEMMA RestsOk ==
  ASSUME TypeOK, TypeOK', RangeInv, NEW u \in Uqids, Rests(u)
  PROVE  VctrRange(u)' /\ \A k \in Keys : k[1] = u => InRange(k)'
<1>0. /\ vctr[u] \in VctrVal /\ vctr'[u] \in VctrVal
      /\ \A k \in Keys : chnk[k].num_free_ignore \in Nat
  BY DEF TypeOK, ChnkVal
<1>1. ASSUME NEW k \in Keys, k[1] = u PROVE InRange(k)'
  <2> SUFFICES ASSUME k \in chnks' PROVE InRange(k)'
    BY DEF InRange
  <2>1. /\ k \in chnks /\ chnk'[k].num_free_ignore = chnk[k].num_free_ignore
        /\ HasCopy(chnk[k]) => vctr'[u].is_eov \/ HasCopy(chnk'[k])
    BY <1>1 DEF Rests
  <2>2. /\ u \in vctrs /\ vctr[u].min_chnk_idx <= k[2]
        /\ chnk[k].num_free_ignore <= FreshLives(vctr[u])
        /\ vctr[u].is_eov \/ HasCopy(chnk[k])
    BY <1>1, <2>1 DEF RangeInv, InRange
  <2>3. u \in vctrs' /\ RowStays(vctr[u], vctr'[u])
    BY <2>2 DEF Rests
  <2>4. FreshLives(vctr[u]) \in Nat /\ FreshLives(vctr'[u]) \in Nat
    BY <1>0, LivesType
  <2> QED BY <1>0, <1>1, <2>1, <2>2, <2>3, <2>4 DEF InRange, RowStays
<1>2. VctrRange(u)'
  <2> SUFFICES ASSUME u \in vctrs' PROVE VctrRange(u)'
    BY DEF VctrRange
  <2>1. u \in vctrs /\ RowStays(vctr[u], vctr'[u])
    BY DEF Rests
  <2>2. /\ RangeOk(vctr[u]) /\ LivesOrdered(u)
        /\ u \in Live /\ vctr[u].num_elements > 0 => Idxs(vctr[u]) \subseteq Present(u)
    BY <2>1 DEF RangeInv, VctrRange
  <2>3. RangeOk(vctr'[u])
    BY <1>0, <2>1, <2>2, LivesType DEF RangeOk, RowStays
  <2>4. Present(u)' = Present(u)
    <3>1. \A i \in ChnkIdxs : <<u, i>> \in chnks' <=> <<u, i>> \in chnks
      BY KeyParts DEF Rests
    <3> QED BY <3>1 DEF Present, chnk_is
  <2>5. LivesOrdered(u)'
    <3>1. \A i \in Present(u) :
            chnk'[<<u, i>>].num_free_ignore = chnk[<<u, i>>].num_free_ignore
      BY KeyParts DEF Rests, Present, chnk_is
    <3> QED BY <2>2, <2>4, <3>1 DEF LivesOrdered
  <2>6. u \in Live' /\ vctr'[u].num_elements > 0 => Idxs(vctr'[u]) \subseteq Present(u)'
    <3>1. Idxs(vctr'[u]) = Idxs(vctr[u])
      BY <2>1 DEF Idxs, RowStays
    <3>2. u \in Live' => u \in Live
      BY DEF Rests
    <3> QED BY <1>0, <2>1, <2>2, <2>4, <3>1, <3>2, LivesType DEF RowStays
  <2> QED BY <2>3, <2>5, <2>6 DEF VctrRange
<1> QED BY <1>1, <1>2

(* A step on the vectors W, if these come out right.                       *)
LEMMA OnlyRanged ==
  ASSUME TypeOK, TypeOK', RangeInv, NEW W, \A u \in Uqids \ W : Rests(u),
         \A v \in Uqids \cap W : VctrRange(v)',
         \A k \in Keys : k[1] \in W => InRange(k)'
  PROVE  RangeInv'
<1>1. \A u \in Uqids \ W : VctrRange(u)' /\ \A k \in Keys : k[1] = u => InRange(k)'
  BY RestsOk
<1>2. \A k \in Keys : InRange(k)'
  BY <1>1, KeyParts
<1>3. \A v \in Uqids : VctrRange(v)'
  BY <1>1
<1> QED BY <1>2, <1>3 DEF RangeInv

(* A vector that CopyInv's proof leaves untouched rests.                   *)
LEMMA UntouchedRests ==
  ASSUME TypeOK, TypeOK', NEW u \in Uqids, Untouched(u), u \in vctrs => u \in vctrs'
  PROVE  Rests(u)
<1>1. u \in vctrs => RowStays(vctr[u], vctr'[u])
  <2>1. vctr[u] \in VctrVal /\ vctr'[u] \in VctrVal
    BY DEF TypeOK
  <2> QED BY <2>1, KeepsStays DEF Untouched
<1>2. \A k \in Keys : k[1] = u => (k \in chnks' <=> k \in chnks) /\ chnk'[k] = chnk[k]
  BY DEF Untouched
<1>3. u \in vctrs' <=> u \in vctrs
  BY DEF Untouched
<1> QED BY <1>1, <1>2, <1>3 DEF Untouched, Rests

\* a chunk that has a copy of its own keeps one, or its vector has ended
CopiesStay ==
  \A k \in chnks : HasCopy(chnk[k]) => vctr[k[1]].is_eov \/ HasCopy(chnk'[k])

\* the table has the same vectors, with the ranges they had
RangesStay ==
  /\ UNCHANGED <<vctrs, half_deleted>>
  /\ \A u \in vctrs : RowStays(vctr[u], vctr'[u])

(* A step that leaves ranges, lives and copies alone.                      *)
LEMMA QuietRange ==
  ASSUME TypeOK, TypeOK', RangeInv, RangesStay, SameCounts, CopiesStay
  PROVE  RangeInv'
<1>1. ASSUME NEW u \in Uqids PROVE Rests(u)
  <2>1. u \in Live' => u \in Live
    BY DEF RangesStay, Live
  <2>2. ASSUME NEW k \in Keys, k[1] = u
        PROVE  /\ k \in chnks' <=> k \in chnks
               /\ k \in chnks => /\ chnk'[k].num_free_ignore = chnk[k].num_free_ignore
                                 /\ HasCopy(chnk[k]) => vctr'[u].is_eov \/ HasCopy(chnk'[k])
    <3>1. k \in chnks => u \in vctrs
      BY <2>2 DEF RangeInv, InRange
    <3> QED BY <2>2, <3>1 DEF SameCounts, SameCount, CopiesStay, RangesStay, RowStays
  <2> QED BY <2>1, <2>2 DEF Rests, RangesStay
<1>2. PICK W : W = {}
  OBVIOUS
<1> QED BY <1>1, <1>2, OnlyRanged

(* Readers, writers and the linear file are no part of the range.          *)
LEMMA FieldsStay ==
  ASSUME NEW x \in VctrVal, NEW b, NEW n
  PROVE  /\ RowStays(x, x)
         /\ RowStays(x, [x EXCEPT !.is_lma = b])
         /\ RowStays(x, [x EXCEPT !.X = b, !.num_writers = n])
         /\ RowStays(x, [x EXCEPT !.num_writers = n, !.X = b])
         /\ RowStays(x, get_lma_X_nX(x))
<1>1. FreshLives(x) \in Nat
  BY LivesType
<1>2. PICK a : a = [x EXCEPT !.is_lma = b]
  OBVIOUS
<1>3. PICK c : c = [x EXCEPT !.X = b, !.num_writers = n]
  OBVIOUS
<1>4. PICK d : d = get_lma_X_nX(x)
  OBVIOUS
<1>5. PICK e : e = [x EXCEPT !.num_writers = n, !.X = b]
  OBVIOUS
<1>6. RowStays(x, x) /\ RowStays(x, a)
  BY <1>1, <1>2 DEF VctrVal, RowStays, FreshLives
<1>7. RowStays(x, c) /\ RowStays(x, e)
  BY <1>1, <1>3, <1>5 DEF VctrVal, RowStays, FreshLives
<1>8. RowStays(x, d)
  BY <1>1, <1>4 DEF VctrVal, RowStays, FreshLives, get_lma_X_nX
<1> QED BY <1>2, <1>3, <1>4, <1>5, <1>6, <1>7, <1>8

(* One row is stored, with the range it had.                               *)
LEMMA OneRowStays ==
  ASSUME TypeOK, NEW v \in Uqids, NEW y, RowStays(vctr[v], y),
         vctr' = [vctr EXCEPT ![v] = y]
  PROVE  \A u \in vctrs : RowStays(vctr[u], vctr'[u])
<1> SUFFICES ASSUME NEW u \in vctrs PROVE RowStays(vctr[u], vctr'[u])
  OBVIOUS
<1>1. u \in Uqids /\ RowStays(vctr[u], vctr[u])
  BY FieldsStay DEF TypeOK
<1>2. vctr'[u] = IF u = v THEN y ELSE vctr[u]
  BY <1>1 DEF TypeOK
<1> QED BY <1>1, <1>2

(* Steps for which it was shown that the table is kept.                    *)
LEMMA SameTableStays ==
  ASSUME TypeOK, TypeOK', SameTable
  PROVE  RangesStay
<1>1. \A u \in vctrs : /\ vctr[u] \in VctrVal /\ vctr'[u] \in VctrVal
                       /\ Keeps(vctr[u], vctr'[u])
  BY DEF TypeOK, SameTable
<1> QED BY <1>1, KeepsStays DEF SameTable, RangesStay

(* Reading and writing.                                                    *)
LEMMA AccessRanges ==
  ASSUME TypeOK, TypeOK', AccessNext
  PROVE  RangesStay
<1>0. \A v \in Uqids : vctr[v] \in VctrVal
  BY DEF TypeOK
<1>1. CASE \/ ChnkIncrReaders \/ VctrGetChunkLma \/ VctrUngetChunk
           \/ VctrGetLmaRead \/ VctrUngetLmaRead
  BY <1>1, ReadersKeep, SameTableStays
<1>2. CASE VctrGetChunk
  <2>1. UNCHANGED <<vctrTable, chnks, half_deleted>>
    BY <1>2, Zenon DEF VctrGetChunk, vctr_get_chunk
  <2> QED BY <2>1, TableUntouched, SameTableStays
<1>3. CASE VctrGet1
  <2>1. PICK v \in Uqids, i \in ChnkIdxs : vctr_get1(v, i)
    BY <1>3 DEF VctrGet1
  <2>2. /\ UNCHANGED <<vctrs, half_deleted>>
        /\ vctr' = vctr \/ vctr' = [vctr EXCEPT ![v] = get_lma_X_nX(vctr[v])]
    BY <2>1, Zenon DEF vctr_get1, client
  <2>3. RowStays(vctr[v], get_lma_X_nX(vctr[v])) /\ RowStays(vctr[v], vctr[v])
    BY <1>0, FieldsStay
  <2>4. CASE vctr' = vctr
    <3>1. \A u \in vctrs : RowStays(vctr[u], vctr[u])
      BY <1>0, FieldsStay DEF TypeOK
    <3> QED BY <2>2, <2>4, <3>1 DEF RangesStay
  <2>5. CASE vctr' = [vctr EXCEPT ![v] = get_lma_X_nX(vctr[v])]
    BY <2>2, <2>3, <2>5, OneRowStays DEF RangesStay
  <2> QED BY <2>2, <2>4, <2>5
<1>4. CASE GetLmaWrite
  <2>1. PICK v \in Uqids : get_lma_write(v)
    BY <1>4 DEF GetLmaWrite
  <2>2. /\ UNCHANGED <<vctrs, half_deleted>>
        /\ vctr' = IF vctr[v].X THEN vctr
                   ELSE [vctr EXCEPT ![v].X = TRUE, ![v].num_writers = 1]
    BY <2>1, Zenon DEF get_lma_write, client
  <2>3. PICK y : y = IF vctr[v].X THEN vctr[v]
                     ELSE [vctr[v] EXCEPT !.X = TRUE, !.num_writers = 1]
    OBVIOUS
  <2>4. vctr' = [vctr EXCEPT ![v] = y]
    BY <2>2, <2>3 DEF TypeOK
  <2>5. RowStays(vctr[v], y)
    BY <1>0, <2>3, FieldsStay
  <2> QED BY <2>2, <2>4, <2>5, OneRowStays DEF RangesStay
<1>5. CASE UngetLmaWrite
  <2>1. PICK v \in Uqids : vctr_unget_lma_write(v)
    BY <1>5 DEF UngetLmaWrite
  <2>2. /\ UNCHANGED <<vctrs, half_deleted>>
        /\ vctr' = [vctr EXCEPT ![v].num_writers = 0, ![v].X = FALSE]
    BY <2>1, Zenon DEF vctr_unget_lma_write, client
  <2>3. PICK y : y = [vctr[v] EXCEPT !.num_writers = 0, !.X = FALSE]
    OBVIOUS
  <2>4. vctr' = [vctr EXCEPT ![v] = y]
    BY <2>2, <2>3 DEF TypeOK
  <2>5. RowStays(vctr[v], y)
    BY <1>0, <2>3, FieldsStay
  <2> QED BY <2>2, <2>4, <2>5, OneRowStays DEF RangesStay
<1> QED BY <1>1, <1>2, <1>3, <1>4, <1>5 DEF AccessNext

(* Making and dropping copies.                                             *)
LEMMA TierRanges ==
  ASSUME TypeOK, TypeOK', CopyInv,
         \/ DropL1 \/ DropL2 \/ DropLma \/ MakeL1 \/ MakeL2 \/ L1ToL2
         \/ Unprefetch \/ ChnksToLma \/ LmaToChnks \/ SetLmaFails \/ Append
  PROVE  RangesStay
<1>0. \A v \in Uqids : vctr[v] \in VctrVal
  BY DEF TypeOK
<1>1. CASE DropL1 \/ DropL2 \/ MakeL1 \/ MakeL2 \/ L1ToL2 \/ Unprefetch \/ LmaToChnks
  <2>1. UNCHANGED <<vctrTable, chnks, half_deleted>>
    BY <1>1, Zenon DEF DropL1, DropL2, MakeL1, MakeL2, L1ToL2, Unprefetch, LmaToChnks,
       drop_l1, drop_l2, make_l1, make_l2, vctr_make_l2, vctr_l1_to_l2, unprefetch,
       vctr_lma_to_chnks, client
  <2> QED BY <2>1, TableUntouched, SameTableStays
<1>2. CASE DropLma \/ ChnksToLma
  <2>0. PICK v \in Uqids : \E b : /\ UNCHANGED <<vctrs, half_deleted>>
                                 /\ vctr' = [vctr EXCEPT ![v].is_lma = b]
    BY <1>2, Zenon DEF DropLma, ChnksToLma, drop_lma, vctr_chnks_to_lma, client
  <2>1. PICK b : /\ UNCHANGED <<vctrs, half_deleted>>
                 /\ vctr' = [vctr EXCEPT ![v].is_lma = b]
    BY <2>0
  <2>2. PICK y : y = [vctr[v] EXCEPT !.is_lma = b]
    OBVIOUS
  <2>3. vctr' = [vctr EXCEPT ![v] = y]
    BY <2>1, <2>2 DEF TypeOK
  <2>4. RowStays(vctr[v], y)
    BY <1>0, <2>2, FieldsStay
  <2> QED BY <2>1, <2>3, <2>4, OneRowStays DEF RangesStay
<1>3. CASE Append
  <2>1. PICK d \in Uqids, s \in Uqids : vctr_append(d, s)
    BY <1>3 DEF Append
  <2>2. PICK t : t = vctr[d].num_elements + vctr[s].num_elements
    OBVIOUS
  <2>3. /\ vctr[d].is_lma /\ d \in vctrs /\ vctr[s].num_elements > 0
        /\ vctr' = [vctr EXCEPT ![d].num_elements = t]
        /\ UNCHANGED <<vctrs, half_deleted>>
    BY <2>1, <2>2, Zenon DEF vctr_append, client
  <2>4. PICK y : y = [vctr[d] EXCEPT !.num_elements = t]
    OBVIOUS
  <2>5. vctr' = [vctr EXCEPT ![d] = y]
    BY <2>3, <2>4 DEF TypeOK
  <2>6. vctr[d].num_elements > 0
    BY <2>3 DEF CopyInv, RowsOk, RowOk
  <2>7. vctr[d].num_elements \in Nat /\ t \in Nat /\ t > 0
    <3>1. vctr[d].num_elements \in Nat /\ vctr[s].num_elements \in Nat
      BY <1>0, LivesType
    <3> QED BY <2>2, <2>3, <3>1
  <2>8. /\ y.num_elements = t /\ y.min_chnk_idx = vctr[d].min_chnk_idx
        /\ y.max_chnk_idx = vctr[d].max_chnk_idx /\ y.memo_len = vctr[d].memo_len
        /\ y.is_eov = vctr[d].is_eov /\ FreshLives(y) = FreshLives(vctr[d])
        /\ y.is_early_freeable = vctr[d].is_early_freeable
    BY <1>0, <2>4 DEF VctrVal, FreshLives
  <2>9. FreshLives(vctr[d]) \in Nat
    BY <1>0, LivesType
  <2>10. RowStays(vctr[d], y)
    BY <2>6, <2>7, <2>8, <2>9 DEF RowStays
  <2> QED BY <2>3, <2>5, <2>10, OneRowStays DEF RangesStay
<1>4. CASE SetLmaFails
  <2>1. UNCHANGED <<vctrTable, chnks, half_deleted>>
    BY <1>4, SetLmaFailsKeeps DEF chnkTable, client
  <2> QED BY <2>1, TableUntouched, SameTableStays
<1> QED BY <1>1, <1>2, <1>3, <1>4

(* What the steps on copies do to the copies a chunk has of its own: only  *)
(* chunks of an ended vector, with a linear file, lose the last.           *)
LEMMA CopyFields ==
  ASSUME NEW c \in ChnkVal, NEW b, NEW r
  PROVE  /\ HasCopy([c EXCEPT !.l1_mem = TRUE, !.l1_data = b])
         /\ HasCopy([c EXCEPT !.l2_exists = TRUE])
         /\ HasCopy([c EXCEPT !.l1_mem = FALSE, !.l1_data = b, !.l2_exists = TRUE])
         /\ c.l2_exists => HasCopy([c EXCEPT !.l1_mem = FALSE, !.l1_data = b])
         /\ c.l1_mem => HasCopy([c EXCEPT !.l2_exists = FALSE])
         /\ HasCopy(c) => HasCopy([c EXCEPT !.l1_data = b])
         /\ HasCopy(c) => HasCopy([c EXCEPT !.num_readers = r])
<1>1. HasCopy([c EXCEPT !.l1_mem = TRUE, !.l1_data = b])
  BY DEF ChnkVal, HasCopy
<1>2. HasCopy([c EXCEPT !.l2_exists = TRUE])
  BY DEF ChnkVal, HasCopy
<1>3. HasCopy([c EXCEPT !.l1_mem = FALSE, !.l1_data = b, !.l2_exists = TRUE])
  BY DEF ChnkVal, HasCopy
<1>4. c.l2_exists => HasCopy([c EXCEPT !.l1_mem = FALSE, !.l1_data = b])
  BY DEF ChnkVal, HasCopy
<1>5. c.l1_mem => HasCopy([c EXCEPT !.l2_exists = FALSE])
  BY DEF ChnkVal, HasCopy
<1>6. HasCopy(c) => HasCopy([c EXCEPT !.l1_data = b])
  BY DEF ChnkVal, HasCopy
<1>7. HasCopy(c) => HasCopy([c EXCEPT !.num_readers = r])
  BY DEF ChnkVal, HasCopy
<1> QED BY <1>1, <1>2, <1>3, <1>4, <1>5, <1>6, <1>7

(* A vector with a linear file has ended.                                  *)
LEMMA LmaEnded ==
  ASSUME CopyInv, NEW v \in vctrs, vctr[v].is_lma
  PROVE  vctr[v].is_eov
  BY DEF CopyInv, RowsOk, RowOk

(* A step that changes one row of the chunk table.                         *)
LEMMA CopyOfOne ==
  ASSUME TypeOK, NEW j \in Keys, NEW c, chnk' = [chnk EXCEPT ![j] = c],
         HasCopy(chnk[j]) => HasCopy(c)
  PROVE  CopiesStay
<1>1. \A k \in chnks : chnk'[k] = IF k = j THEN c ELSE chnk[k]
  BY DEF TypeOK
<1> QED BY <1>1 DEF CopiesStay

(* Reading and writing.                                                    *)
LEMMA AccessCopiesStay ==
  ASSUME TypeOK, CopyInv, AccessNext
  PROVE  CopiesStay
<1>0. /\ \A k \in Keys : chnk[k] \in ChnkVal
      /\ \A k \in chnks : k \in Keys
  BY DEF TypeOK
<1>1. CASE \/ ChnkIncrReaders \/ VctrGetChunkLma \/ VctrUngetChunk
           \/ VctrGetLmaRead \/ VctrUngetLmaRead
  <2>1. \A k \in Keys : chnk'[k].l1_mem = chnk[k].l1_mem /\ chnk'[k].l2_exists = chnk[k].l2_exists
    BY <1>1, ReadersKeep
  <2> QED BY <1>0, <2>1 DEF CopiesStay, HasCopy
<1>2. CASE VctrGetChunk \/ VctrGet1
  <2>1. PICK k \in Keys :
          \/ chnk' = chnk
          \/ chnk' = [chnk EXCEPT ![k] = chnk_get_data(k)]
          \/ chnk' = [chnk EXCEPT ![k] = [chnk_get_data(k) EXCEPT !.num_readers = @ - 1]]
    <3>1. CASE VctrGetChunk
      <4>1. PICK v \in Uqids, i \in ChnkIdxs : vctr_get_chunk(v, i)
        BY <3>1 DEF VctrGetChunk
      <4>2. PICK k \in Keys : k = <<v, i>>
        BY KeyParts
      <4>3. chnk' = [chnk EXCEPT ![k] = chnk_get_data(k)]
        BY <4>1, <4>2, Zenon DEF vctr_get_chunk
      <4> QED BY <4>3
    <3>2. CASE VctrGet1
      <4>1. PICK v \in Uqids, i \in ChnkIdxs : vctr_get1(v, i)
        BY <3>2 DEF VctrGet1
      <4>2. PICK k \in Keys : k = <<v, i>>
        BY KeyParts
      <4> QED BY <4>1, <4>2, Zenon DEF vctr_get1
    <3> QED BY <1>2, <3>1, <3>2
  <2>2. PICK r, c : r = chnk[k].num_readers + 1 /\ c = [chnk[k] EXCEPT !.num_readers = r]
    OBVIOUS
  <2>3. PICK d : d = chnk_get_data(k)
    OBVIOUS
  <2>4. chnk[k] \in ChnkVal /\ r \in Nat /\ l2[k].data \in SUBSET Slots
    BY <2>2 DEF TypeOK, ChnkVal, L2File
  <2>5. c \in ChnkVal /\ (HasCopy(chnk[k]) => HasCopy(c))
    BY <2>2, <2>4, CopyFields DEF ChnkVal
  <2>6. d = c \/ d = [c EXCEPT !.l1_mem = TRUE, !.l1_data = l2[k].data]
    BY <2>2, <2>3, Zenon DEF chnk_get_data, LoadL1
  <2>7. d \in ChnkVal /\ (HasCopy(chnk[k]) => HasCopy(d))
    <3>1. d \in ChnkVal
      BY <2>4, <2>5, <2>6 DEF ChnkVal
    <3> QED BY <2>5, <2>6, <3>1, CopyFields
  <2>8. PICK e : e = [d EXCEPT !.num_readers = @ - 1]
    OBVIOUS
  <2>9. HasCopy(chnk[k]) => HasCopy(e)
    BY <2>7, <2>8, CopyFields
  <2>10. CASE chnk' = chnk
    BY <2>10 DEF CopiesStay
  <2>11. CASE chnk' = [chnk EXCEPT ![k] = d]
    BY <2>7, <2>11, CopyOfOne
  <2>12. CASE chnk' = [chnk EXCEPT ![k] = e]
    BY <2>9, <2>12, CopyOfOne
  <2> QED BY <2>1, <2>3, <2>8, <2>10, <2>11, <2>12
<1>3. CASE GetLmaWrite
  <2>1. PICK v \in Uqids : get_lma_write(v)
    BY <1>3 DEF GetLmaWrite
  <2>2. PICK K, f : /\ v \in vctrs /\ vctr[v].is_lma /\ K = KeysOf(v, DropRun(v))
                    /\ chnk' = [k \in Keys |-> IF k \in K THEN f[k] ELSE chnk[k]]
    <3> DEFINE g(k) == [chnk[k] EXCEPT !.l1_mem = FALSE, !.l1_data = {}, !.l2_exists = FALSE]
    <3>1. /\ v \in vctrs /\ vctr[v].is_lma
          /\ chnk' = [k \in Keys |-> IF k \in KeysOf(v, DropRun(v)) THEN g(k) ELSE chnk[k]]
      BY <2>1, Zenon DEF get_lma_write
    <3>2. PICK f : f = [k \in Keys |-> g(k)]
      OBVIOUS
    <3> HIDE DEF g
    <3>3. \A k \in Keys : f[k] = g(k)
      BY <3>2
    <3> QED BY <3>1, <3>3
  <2>3. vctr[v].is_eov
    BY <2>2, LmaEnded
  <2>4. ASSUME NEW k \in chnks, HasCopy(chnk[k]), ~vctr[k[1]].is_eov
        PROVE  HasCopy(chnk'[k])
    <3>1. k \notin K
      BY <1>0, <2>2, <2>3, <2>4, KeyInKeysOf
    <3> QED BY <1>0, <2>2, <2>4, <3>1
  <2> QED BY <2>4 DEF CopiesStay
<1>4. CASE UngetLmaWrite
  <2>1. PICK v \in Uqids : vctr_unget_lma_write(v)
    BY <1>4 DEF UngetLmaWrite
  <2> DEFINE f(k) == [chnk[k] EXCEPT !.l1_data = {}]
  <2>2. chnk' = [k \in Keys |-> IF k[1] = v THEN f(k) ELSE chnk[k]]
    BY <2>1, Zenon DEF vctr_unget_lma_write
  <2>3. \A k \in Keys : HasCopy(chnk[k]) => HasCopy(f(k))
    BY <1>0, CopyFields
  <2> HIDE DEF f
  <2> QED BY <1>0, <2>2, <2>3 DEF CopiesStay
<1> QED BY <1>1, <1>2, <1>3, <1>4 DEF AccessNext

(* Making and dropping copies.                                             *)
LEMMA TierCopiesStay ==
  ASSUME TypeOK, CopyInv,
         \/ DropL1 \/ DropL2 \/ DropLma \/ MakeL1 \/ MakeL2 \/ L1ToL2
         \/ Unprefetch \/ ChnksToLma \/ LmaToChnks \/ SetLmaFails \/ Append
  PROVE  CopiesStay
<1>0. /\ \A k \in Keys : chnk[k] \in ChnkVal
      /\ \A k \in chnks : k \in Keys
  BY DEF TypeOK
<1> DEFINE Dropped(k) == [chnk[k] EXCEPT !.l1_mem = FALSE, !.l1_data = {}]
           Bare(k)    == [chnk[k] EXCEPT !.l2_exists = FALSE]
           Loaded(k)  == LoadL1(chnk[k], k)
           Backed(k)  == [chnk[k] EXCEPT !.l2_exists = TRUE]
<1>00. \A k \in Keys : /\ chnk[k].l2_exists => HasCopy(Dropped(k))
                       /\ chnk[k].l1_mem => HasCopy(Bare(k))
                       /\ HasCopy(Loaded(k)) /\ HasCopy(Backed(k))
  BY <1>0, CopyFields DEF LoadL1
<1>1. CASE DropL1
  <2>0. PICK v \in Uqids : \E S : drop_l1(v, S)
    BY <1>1 DEF DropL1
  <2>1. PICK S : drop_l1(v, S)
    BY <2>0
  <2>2. /\ v \in vctrs
        /\ chnk' = [k \in Keys |-> IF k \in KeysOf(v, DropsL1(v, S)) THEN Dropped(k)
                                   ELSE chnk[k]]
    BY <2>1, Zenon DEF drop_l1, ChnkWith
  <2>3. \A k \in chnks : k \in KeysOf(v, DropsL1(v, S)) =>
          k[1] = v /\ (chnk[k].l2_exists \/ vctr[v].is_lma)
    BY <1>0, KeyInKeysOf, KeyParts DEF DropsL1
  <2> HIDE DEF Dropped
  <2> QED BY <1>0, <1>00, <2>2, <2>3, LmaEnded DEF CopiesStay
<1>2. CASE DropL2
  <2>0. PICK v \in Uqids : \E S : drop_l2(v, S)
    BY <1>2 DEF DropL2
  <2>1. PICK S : drop_l2(v, S)
    BY <2>0
  <2>2. /\ v \in vctrs
        /\ chnk' = [k \in Keys |-> IF k \in KeysOf(v, DropsL2(v, S)) THEN Bare(k)
                                   ELSE chnk[k]]
    BY <2>1, Zenon DEF drop_l2, ChnkWith
  <2>3. \A k \in chnks : k \in KeysOf(v, DropsL2(v, S)) =>
          k[1] = v /\ (chnk[k].l1_mem \/ vctr[v].is_lma)
    BY <1>0, KeyInKeysOf, KeyParts DEF DropsL2
  <2> HIDE DEF Bare
  <2> QED BY <1>0, <1>00, <2>2, <2>3, LmaEnded DEF CopiesStay
<1>3. CASE MakeL1
  <2>1. PICK K : chnk' = [k \in Keys |-> IF k \in K THEN Loaded(k) ELSE chnk[k]]
    BY <1>3, Zenon DEF MakeL1, make_l1, ChnkWith
  <2> HIDE DEF Loaded
  <2> QED BY <1>0, <1>00, <2>1 DEF CopiesStay
<1>4. CASE MakeL2 \/ L1ToL2
  <2>1. ASSUME NEW v, NEW D, WriteL2(v, D) PROVE CopiesStay
    <3>1. chnk' = [k \in Keys |-> IF k \in KeysOf(v, D) THEN Backed(k) ELSE chnk[k]]
      BY <2>1, Zenon DEF WriteL2, ChnkWith
    <3> HIDE DEF Backed
    <3> QED BY <1>0, <1>00, <3>1 DEF CopiesStay
  <2>2. ASSUME NEW v, NEW S, NEW N, make_l2(v, S, N) PROVE CopiesStay
    BY <2>1, <2>2, Zenon DEF make_l2
  <2>3. ASSUME NEW v, vctr_l1_to_l2(v) PROVE CopiesStay
    BY <2>1, <2>3, Zenon DEF vctr_l1_to_l2
  <2> QED BY <1>4, <2>2, <2>3, Zenon DEF MakeL2, L1ToL2, vctr_make_l2
<1>5. CASE Unprefetch
  <2>1. PICK v \in Uqids, i \in ChnkIdxs : unprefetch(v, i)
    BY <1>5 DEF Unprefetch
  <2>2. PICK k \in Keys : k = <<v, i>>
    BY KeyParts
  <2>3. PICK c : c = [chnk[k] EXCEPT !.l1_mem = FALSE, !.l1_data = {}, !.l2_exists = TRUE]
    OBVIOUS
  <2>4. chnk' = [chnk EXCEPT ![k].l1_mem = FALSE, ![k].l1_data = {}, ![k].l2_exists = TRUE]
    BY <2>1, <2>2, Zenon DEF unprefetch
  <2>5. chnk' = [chnk EXCEPT ![k] = c]
    BY <2>3, <2>4 DEF TypeOK
  <2>6. HasCopy(c)
    BY <1>0, <2>3, CopyFields
  <2> QED BY <2>5, <2>6, CopyOfOne
<1>6. CASE DropLma \/ ChnksToLma \/ SetLmaFails \/ Append
  <2>1. chnk' = chnk
    BY <1>6, Zenon DEF DropLma, ChnksToLma, SetLmaFails, Append, drop_lma,
       vctr_chnks_to_lma, set_lma_fails, vctr_append, chnkTable
  <2> QED BY <2>1 DEF CopiesStay
<1>7. CASE LmaToChnks
  <2>1. PICK v \in Uqids, level \in 1..2 : vctr_lma_to_chnks(v, level)
    BY <1>7 DEF LmaToChnks
  <2> DEFINE Copied(k) == [chnk[k] EXCEPT !.l1_mem = TRUE, !.l1_data = FromLma(v, k[2])]
  <2>2. \A k \in Keys : HasCopy(Copied(k))
    BY <1>0, CopyFields
  <2>3. PICK K, L :
          chnk' = [k \in Keys |->
                     IF k \in K THEN IF chnk[k].l2_exists THEN Loaded(k) ELSE Copied(k)
                     ELSE IF k \in L THEN Backed(k) ELSE chnk[k]]
    BY <2>1, Zenon DEF vctr_lma_to_chnks
  <2> HIDE DEF Loaded, Copied, Backed
  <2> QED BY <1>0, <1>00, <2>2, <2>3 DEF CopiesStay
<1> QED BY <1>1, <1>2, <1>3, <1>4, <1>5, <1>6, <1>7

(* So reading, writing, making and dropping copies keep RangeInv.          *)
LEMMA QuietSteps ==
  ASSUME TypeOK, TypeOK', CopyInv, RangeInv, AccessNext \/ TierNext, ~SetLma
  PROVE  RangeInv'
<1>1. CASE AccessNext
  BY <1>1, AccessRanges, AccessCounts, AccessCopiesStay, QuietRange
<1>2. CASE TierNext
  BY <1>2, TierRanges, TierCounts, RowsCounts, TierCopiesStay, QuietRange DEF TierNext
<1> QED BY <1>1, <1>2

-----------------------------------------------------------------------------
(* Attributes, and new vectors.                                            *)

(* Attributes and ties are no part of the range.                           *)
LEMMA AttributesRange ==
  ASSUME TypeOK, TypeOK', RangeInv,
         \/ VctrPersist \/ VctrSetMemo \/ SetKillable \/ SetFreeable \/ SetError
         \/ SetNnVec
  PROVE  RangeInv'
<1>1. SameTable /\ chnk' = chnk
  BY AttributesKeep
<1>2. SameCounts
  BY AttributeCounts, RowsCounts
<1>3. CopiesStay
  BY <1>1 DEF CopiesStay
<1> QED BY <1>1, <1>2, <1>3, SameTableStays, QuietRange

(* A new vector, whose uqid no chunk has.                                  *)
LEMMA NewRange ==
  ASSUME TypeOK, CopyInv, NEW u \in Uqids, u > g_vctr_uqid, chnks' = chnks,
         vctr'[u].num_elements = 0, vctr'[u].min_chnk_idx = 0, vctr'[u].max_chnk_idx = 0
  PROVE  VctrRange(u)' /\ \A k \in Keys : k[1] = u => InRange(k)'
<1>1. \A k \in Keys : k[1] = u => k \notin chnks
  <2>1. \A k \in Keys : k[1] = u => ~Reached(k)
    BY DEF Reached, Uqids, TypeOK
  <2> QED BY <2>1 DEF CopyInv, KeysReached
<1>2. Present(u)' = {}
  BY <1>1, KeyParts DEF Present, chnk_is
<1>3. RangeOk(vctr'[u])
  BY DEF RangeOk
<1> QED BY <1>1, <1>2, <1>3 DEF VctrRange, InRange, LivesOrdered

(* vctr_add().                                                             *)
LEMMA AddRange ==
  ASSUME TypeOK, TypeOK', CopyInv, RangeInv, VctrAdd
  PROVE  RangeInv'
<1>1. PICK q \in Qtypes, memo \in MemoLens, kills \in {Never} \cup KillIgnores,
           frees \in {Never} \cup FreeIgnores : vctr_add(q, memo, kills, frees)
  BY DEF VctrAdd
<1>2. PICK u : u = g_vctr_uqid + 1
  OBVIOUS
<1>3. PICK y : y = NewVctr(q, memo, kills, frees)
  OBVIOUS
<1>4. /\ u \in Uqids
      /\ \/ UNCHANGED <<vctrs, vctr>>
         \/ vctrs' = vctrs \cup {u} /\ vctr' = [vctr EXCEPT ![u] = y]
      /\ UNCHANGED <<chnks, chnk, l2, half_deleted>>
  BY <1>1, <1>2, <1>3 DEF vctr_add, chnkTable, client
<1>5. u > g_vctr_uqid
  BY <1>2 DEF TypeOK
<1>6. y.num_elements = 0 /\ y.min_chnk_idx = 0 /\ y.max_chnk_idx = 0
  BY <1>3 DEF NewVctr, ZeroVctr
<1>7. CASE UNCHANGED <<vctrs, vctr>>
  <2>1. \A w \in Uqids : RowStays(vctr[w], vctr[w])
    BY FieldsStay DEF TypeOK
  <2>2. \A w \in Uqids : Rests(w)
    BY <1>4, <1>7, <2>1 DEF Rests, Live
  <2>3. PICK W : W = {}
    OBVIOUS
  <2> QED BY <2>2, <2>3, OnlyRanged
<1>8. CASE vctrs' = vctrs \cup {u} /\ vctr' = [vctr EXCEPT ![u] = y]
  <2>1. \A w \in Uqids \ {u} : Rests(w)
    BY <1>4, <1>8, OthersUntouched, UntouchedRests
  <2>2. vctr'[u] = y
    BY <1>4, <1>8 DEF TypeOK
  <2>3. VctrRange(u)' /\ \A k \in Keys : k[1] = u => InRange(k)'
    BY <1>4, <1>5, <1>6, <2>2, NewRange
  <2>4. PICK W : W = {u}
    OBVIOUS
  <2> QED BY <2>1, <2>3, <2>4, OnlyRanged
<1> QED BY <1>4, <1>7, <1>8

(* lVector.new() with has_nulls.                                           *)
LEMMA AddWithNnRange ==
  ASSUME TypeOK, TypeOK', CopyInv, RangeInv, AddWithNn
  PROVE  RangeInv'
<1>1. PICK q \in Qtypes, memo \in MemoLens, kills \in {Never} \cup KillIgnores,
           frees \in {Never} \cup FreeIgnores : NewWithNn(q, memo, kills, frees)
  BY DEF AddWithNn
<1>2. PICK b, n : b = g_vctr_uqid + 1 /\ n = g_vctr_uqid + 2
  OBVIOUS
<1>3. PICK p, r : /\ p = NewVctr(q, memo, kills, frees)
                  /\ r = NewVctr("BL", memo, kills, frees)
  OBVIOUS
<1>4. /\ b \in Uqids /\ n \in Uqids /\ vctrs' = vctrs \cup {b, n}
      /\ vctr' = Tied([vctr EXCEPT ![b] = p, ![n] = r], b, n)
      /\ UNCHANGED <<chnks, chnk, l2, half_deleted>>
  BY <1>1, <1>2, <1>3 DEF NewWithNn, rest, chnkTable, client
<1>5. g_vctr_uqid \in Nat /\ b > g_vctr_uqid /\ n > g_vctr_uqid /\ b # n
  BY <1>2 DEF TypeOK
<1>6. /\ p \in VctrVal /\ p.num_elements = 0 /\ p.min_chnk_idx = 0 /\ p.max_chnk_idx = 0
      /\ r \in VctrVal /\ r.num_elements = 0 /\ r.min_chnk_idx = 0 /\ r.max_chnk_idx = 0
  <2>1. /\ q \in {"BL", "SC", "I4"} /\ memo \in Nat
        /\ kills \in Nat \cup {Never} /\ frees \in Nat \cup {Never}
    BY InputTypes
  <2>2. p \in VctrVal /\ r \in VctrVal
    BY <1>3, <2>1, NewVctrType
  <2> QED BY <1>3, <2>2 DEF NewVctr, ZeroVctr
<1>7. PICK y, z : y = [p EXCEPT !.nn_key = n] /\ z = [r EXCEPT !.parent_key = b]
  OBVIOUS
<1>8. /\ y.num_elements = 0 /\ y.min_chnk_idx = 0 /\ y.max_chnk_idx = 0
      /\ z.num_elements = 0 /\ z.min_chnk_idx = 0 /\ z.max_chnk_idx = 0
  BY <1>6, <1>7 DEF VctrVal
<1>9. vctr'[b] = y /\ vctr'[n] = z /\ \A u \in Uqids \ {b, n} : vctr'[u] = vctr[u]
  BY <1>4, <1>5, <1>7 DEF TypeOK, Tied
<1>10. \A u \in Uqids \ {b, n} : Rests(u)
  <2> SUFFICES ASSUME NEW u \in Uqids \ {b, n} PROVE Rests(u)
    OBVIOUS
  <2>1. vctr'[u] = vctr[u] /\ RowStays(vctr[u], vctr[u])
    BY <1>9, FieldsStay DEF TypeOK
  <2> QED BY <1>4, <2>1 DEF Rests, Live
<1>11. /\ VctrRange(b)' /\ \A k \in Keys : k[1] = b => InRange(k)'
       /\ VctrRange(n)' /\ \A k \in Keys : k[1] = n => InRange(k)'
  BY <1>4, <1>5, <1>8, <1>9, NewRange
<1>12. PICK W : W = {b, n}
  OBVIOUS
<1>13. /\ \A u \in Uqids \ W : Rests(u)
       /\ \A v \in Uqids \cap W : VctrRange(v)'
       /\ \A k \in Keys : k[1] \in W => InRange(k)'
  BY <1>10, <1>11, <1>12
<1> QED BY <1>13, OnlyRanged

-----------------------------------------------------------------------------
(* Growth.                                                                 *)

\* what a put has to see to, before memo is run, for RangeInv: row x for v,
\* and the chunk table (keys, c)
PutRange(v, x, keys, c) ==
  /\ ~x.is_eov
  /\ x.num_elements = 0 => x.min_chnk_idx = 0 /\ x.max_chnk_idx = 0
  /\ x.num_elements > 0 => x.min_chnk_idx <= x.max_chnk_idx + 1
  /\ v \in Live /\ x.num_elements > 0 => \A i \in Idxs(x) : <<v, i>> \in keys
  /\ \A k \in keys : k[1] = v =>
       /\ x.min_chnk_idx <= k[2] /\ c[k].num_free_ignore <= FreshLives(x)
       /\ HasCopy(c[k])
       /\ c[k].num_readers > 0 => k \in chnks /\ chnk[k].num_readers > 0
  /\ \A i, j \in ChnkIdxs : <<v, i>> \in keys /\ <<v, j>> \in keys /\ i <= j =>
       c[<<v, i>>].num_free_ignore <= c[<<v, j>>].num_free_ignore

(* Where memo moves the range to.                                          *)
LEMMA MemoRange ==
  ASSUME NEW x \in VctrVal, ~x.is_eov,
         x.num_elements = 0 => x.min_chnk_idx = 0 /\ x.max_chnk_idx = 0,
         x.num_elements > 0 => x.min_chnk_idx <= x.max_chnk_idx + 1,
         NEW e, NEW y, y = [x EXCEPT !.min_chnk_idx = MemoMin(x), !.is_eov = e]
  PROVE  RangeOk(y) /\ MemoMin(x) \in Nat /\ x.min_chnk_idx <= MemoMin(x)
<1>1. /\ x.min_chnk_idx \in Nat /\ x.max_chnk_idx \in Nat /\ x.memo_len \in Nat
      /\ x.num_elements \in Nat
  BY LivesType
<1>2. /\ y.num_elements = x.num_elements /\ y.max_chnk_idx = x.max_chnk_idx
      /\ y.memo_len = x.memo_len /\ y.min_chnk_idx = MemoMin(x)
  BY DEF VctrVal
<1>3. MemoMin(x) \in Nat /\ x.min_chnk_idx <= MemoMin(x)
  BY <1>1 DEF MemoMin
<1>4. x.num_elements = 0 => MemoMin(x) = 0
  BY <1>1 DEF MemoMin
<1>5. x.num_elements > 0 =>
        /\ MemoMin(x) <= x.max_chnk_idx + 1
        /\ x.memo_len > 0 => x.max_chnk_idx + 1 - MemoMin(x) <= x.memo_len
  BY <1>1 DEF MemoMin
<1> QED BY <1>1, <1>2, <1>3, <1>4, <1>5 DEF RangeOk

(* The step keeps RangeInv, unless memo meets a reader: without one, what  *)
(* is before the new range goes.                                           *)
LEMMA StoreRange ==
  ASSUME TypeOK, TypeOK', RangeInv, ~AgesInUse, NEW v \in vctrs, NEW x, NEW e \in BOOLEAN,
         NEW keys, NEW c, NEW m, PutOk(v, x, keys, c), PutRange(v, x, keys, c),
         StoreWithMemo(v, x, e, keys, c, m), UNCHANGED <<g_vctr_uqid, vctrs, half_deleted>>
  PROVE  RangeInv'
<1>0. /\ v \in Uqids /\ x \in VctrVal /\ keys \subseteq Keys /\ c \in [Keys -> ChnkVal]
  BY DEF PutOk, TypeOK
<1>1. PICK y : y = [x EXCEPT !.min_chnk_idx = MemoMin(x), !.is_eov = e]
  OBVIOUS
<1>2. vctr' = [vctr EXCEPT ![v] = y] /\ vctr'[v] = y
  BY <1>0, <1>1 DEF StoreWithMemo, TypeOK
<1>3. /\ y.num_elements = x.num_elements /\ y.max_chnk_idx = x.max_chnk_idx
      /\ y.min_chnk_idx = MemoMin(x) /\ FreshLives(y) = FreshLives(x)
  BY <1>0, <1>1 DEF VctrVal, FreshLives
<1>4. RangeOk(y) /\ MemoMin(x) \in Nat /\ x.min_chnk_idx <= MemoMin(x)
  BY <1>0, <1>1, MemoRange DEF PutRange
<1>5. \A u \in Uqids \ {v} : Rests(u)
  <2>1. \A k \in Keys : k[1] # v =>
          (k \in chnks' <=> k \in chnks) /\ chnk'[k] = chnk[k] /\ l2'[k] = l2[k]
    BY <1>0, MemoLeaves DEF PutOk
  <2> QED BY <1>0, <1>2, <2>1, OthersUntouched, UntouchedRests
<1>6. ASSUME NEW k \in Keys, k[1] = v, k \in chnks'
      PROVE  k \in keys /\ chnk'[k] = c[k] /\ MemoMin(x) <= k[2]
  <2>1. /\ k \in keys /\ chnk'[k] = c[k]
        /\ k[1] = v /\ x.min_chnk_idx <= k[2] /\ k[2] < MemoMin(x)
             /\ c[k].num_readers = 0 => k \notin chnks'
    BY <1>0, <1>6, MemoLeaves
  <2>2. x.min_chnk_idx <= k[2] /\ (c[k].num_readers > 0 => k \in chnks /\ chnk[k].num_readers > 0)
    BY <1>6, <2>1 DEF PutRange
  <2>3. c[k].num_readers \in Nat /\ k[2] \in Nat
    BY <1>0, KeyParts DEF ChnkVal, ChnkIdxs
  <2>4. ~(k[2] < MemoMin(x))
    <3> SUFFICES ASSUME k[2] < MemoMin(x) PROVE FALSE
      OBVIOUS
    <3>1. c[k].num_readers > 0
      BY <1>6, <2>1, <2>2, <2>3
    <3> QED BY <1>2, <1>3, <1>6, <2>2, <3>1 DEF AgesInUse
  <2> QED BY <1>4, <2>1, <2>3, <2>4
<1>7. ASSUME NEW k \in Keys, k[1] = v PROVE InRange(k)'
  <2> SUFFICES ASSUME k \in chnks' PROVE InRange(k)'
    BY DEF InRange
  <2>1. k \in keys /\ chnk'[k] = c[k] /\ MemoMin(x) <= k[2]
    BY <1>6, <1>7
  <2>2. c[k].num_free_ignore <= FreshLives(x) /\ HasCopy(c[k])
    BY <1>7, <2>1 DEF PutRange
  <2> QED BY <1>2, <1>3, <1>7, <2>1, <2>2 DEF InRange
<1>8. VctrRange(v)'
  <2>1. LivesOrdered(v)'
    <3>1. ASSUME NEW i \in ChnkIdxs, <<v, i>> \in chnks'
          PROVE  <<v, i>> \in keys /\ chnk'[<<v, i>>] = c[<<v, i>>]
      BY <1>0, <1>6, <3>1, KeyParts
    <3> QED BY <3>1 DEF LivesOrdered, Present, chnk_is, PutRange
  <2>2. ASSUME v \in Live', y.num_elements > 0, NEW i \in Idxs(y)
        PROVE  i \in Present(v)'
    <3>1. v \in Live /\ i \in Idxs(x) /\ i >= MemoMin(x)
      BY <1>0, <1>3, <1>4, <2>2, LivesType DEF Live, Idxs
    <3>2. <<v, i>> \in keys
      BY <1>3, <2>2, <3>1 DEF PutRange
    <3>3. <<v, i>> \in Keys /\ i \in ChnkIdxs
      BY <1>0, <3>2 DEF Keys
    <3>4. <<v, i>> \in chnks'
      BY <1>0, <3>1, <3>2, <3>3, MemoLeaves
    <3> QED BY <3>3, <3>4 DEF Present, chnk_is
  <2> QED BY <1>2, <1>4, <2>1, <2>2 DEF VctrRange
<1>9. PICK W : W = {v}
  OBVIOUS
<1> QED BY <1>0, <1>5, <1>7, <1>8, <1>9, OnlyRanged

(* A vector that is not at its end, as it is.                              *)
LEMMA UnfinishedRange ==
  ASSUME TypeOK, RangeInv, NEW v \in vctrs, ~vctr[v].is_eov
  PROVE  PutRange(v, vctr[v], chnks, chnk)
<1>0. /\ v \in Uqids /\ VctrRange(v)
  BY DEF TypeOK, RangeInv
<1>1. RangeOk(vctr[v]) /\ LivesOrdered(v)
  BY <1>0 DEF VctrRange
<1>2. v \in Live /\ vctr[v].num_elements > 0 => \A i \in Idxs(vctr[v]) : <<v, i>> \in chnks
  BY <1>0 DEF VctrRange, Present, chnk_is
<1>3. ASSUME NEW k \in chnks, k[1] = v
      PROVE  /\ vctr[v].min_chnk_idx <= k[2]
             /\ chnk[k].num_free_ignore <= FreshLives(vctr[v]) /\ HasCopy(chnk[k])
  <2>1. k \in Keys
    BY DEF TypeOK
  <2> QED BY <1>3, <2>1 DEF RangeInv, InRange
<1>4. \A i, j \in ChnkIdxs : <<v, i>> \in chnks /\ <<v, j>> \in chnks /\ i <= j =>
       chnk[<<v, i>>].num_free_ignore <= chnk[<<v, j>>].num_free_ignore
  BY <1>1 DEF LivesOrdered, Present, chnk_is
<1> QED BY <1>1, <1>2, <1>3, <1>4 DEF PutRange, RangeOk

(* vctr_eov().                                                             *)
LEMMA EovRange ==
  ASSUME TypeOK, TypeOK', CopyInv, RangeInv, ~AgesInUse, VctrEov
  PROVE  RangeInv'
<1>1. PICK v \in Uqids : vctr_eov(v)
  BY DEF VctrEov
<1> DEFINE e == ~MemoFails(chnks, chnk, v, vctr[v])
<1>2. /\ v \in vctrs /\ ~vctr[v].is_eov
      /\ StoreWithMemo(v, vctr[v], e, chnks, chnk, mem_used)
      /\ UNCHANGED <<g_vctr_uqid, vctrs, half_deleted>>
  BY <1>1 DEF vctr_eov, client
<1>3. e \in BOOLEAN
  OBVIOUS
<1> HIDE DEF e
<1> QED BY <1>2, <1>3, UnfinishedOk, UnfinishedRange, StoreRange

(* put_chunk makes the chunk after the last.                               *)
LEMMA PutChunkRange ==
  ASSUME TypeOK, CopyInv, RangeInv, NEW v \in vctrs, NEW n \in 1..MaxNumInChnk,
         ~vctr[v].is_eov, vctr[v].num_elements % MaxNumInChnk = 0,
         NEW i \in ChnkIdxs,
         i = IF vctr[v].num_elements = 0 THEN 0 ELSE vctr[v].max_chnk_idx + 1,
         NEW y, y = [vctr[v] EXCEPT !.num_elements = @ + n, !.max_chnk_idx = i],
         NEW c, c = [chnk EXCEPT ![<<v, i>>] =
                       [FreshChnk(vctr[v]) EXCEPT !.num_elements = n, !.l1_data = 0..(n - 1)]]
  PROVE  PutRange(v, y, chnks \cup {<<v, i>>}, c)
<1>1. PICK x : x = vctr[v]
  OBVIOUS
<1>2. PICK f : f = [FreshChnk(x) EXCEPT !.num_elements = n, !.l1_data = 0..(n - 1)]
  OBVIOUS
<1>3. /\ v \in Uqids /\ x \in VctrVal /\ PutRange(v, x, chnks, chnk) /\ n \in Nat /\ n > 0
      /\ <<v, i>> \in Keys /\ i \in Nat /\ <<v, i>> \notin chnks /\ chnks \subseteq Keys
  <2>1. <<v, i>> \notin chnks
    BY PutChunkOk
  <2>2. v \in Uqids /\ x \in VctrVal /\ chnks \subseteq Keys /\ <<v, i>> \in Keys
    BY <1>1, KeyParts DEF TypeOK
  <2>3. PutRange(v, x, chnks, chnk)
    BY <1>1, UnfinishedRange
  <2>4. n \in Nat /\ n > 0 /\ i \in Nat
    BY BoundsAssumption DEF BoundsAssumption, ChnkIdxs
  <2> QED BY <2>1, <2>2, <2>3, <2>4
<1>4. f.num_free_ignore = FreshLives(x) /\ f.num_readers = 0 /\ HasCopy(f)
  BY <1>2 DEF FreshChnk, ZeroChnk, FreshLives, HasCopy
<1>5. /\ y.num_elements = x.num_elements + n /\ y.max_chnk_idx = i
      /\ y.min_chnk_idx = x.min_chnk_idx /\ y.is_eov = x.is_eov
      /\ FreshLives(y) = FreshLives(x)
  BY <1>1, <1>3 DEF VctrVal, FreshLives
<1>6. /\ x.num_elements \in Nat /\ x.min_chnk_idx \in Nat /\ x.max_chnk_idx \in Nat
      /\ FreshLives(x) \in Nat
  BY <1>3, LivesType
<1>7. x.min_chnk_idx <= i
  BY <1>1, <1>3, <1>6 DEF PutRange
<1>8. \A k \in Keys : c[k] = IF k = <<v, i>> THEN f ELSE chnk[k]
  BY <1>1, <1>2 DEF TypeOK
<1>9. \A j \in ChnkIdxs : <<v, j>> \in chnks => j < i
  <2> SUFFICES ASSUME NEW j \in ChnkIdxs, <<v, j>> \in chnks PROVE j < i
    OBVIOUS
  <2>1. Reached(<<v, j>>)
    BY <1>3 DEF CopyInv, KeysReached
  <2>2. x.num_elements > 0 /\ j <= x.max_chnk_idx
    BY <1>1, <2>1 DEF Reached
  <2> QED BY <1>1, <1>6, <2>2 DEF ChnkIdxs
<1>10. v \in Live => \A j \in Idxs(y) : <<v, j>> \in chnks \cup {<<v, i>>}
  <2> SUFFICES ASSUME v \in Live, NEW j \in Idxs(y), j # i PROVE <<v, j>> \in chnks
    OBVIOUS
  <2>1. j \in Int /\ x.min_chnk_idx <= j /\ j < i
    BY <1>3, <1>5, <1>6 DEF Idxs
  <2>2. x.num_elements > 0
    BY <1>1, <1>3, <1>6, <2>1 DEF PutRange
  <2>3. j \in Idxs(x)
    BY <1>1, <1>6, <2>1, <2>2 DEF Idxs
  <2> QED BY <1>3, <2>2, <2>3 DEF PutRange
<1>11. ASSUME NEW k \in chnks \cup {<<v, i>>}, k[1] = v
       PROVE  /\ y.min_chnk_idx <= k[2] /\ c[k].num_free_ignore <= FreshLives(y)
              /\ HasCopy(c[k])
              /\ c[k].num_readers > 0 => k \in chnks /\ chnk[k].num_readers > 0
  <2>1. CASE k = <<v, i>>
    <3>1. c[k] = f /\ k[2] = i
      BY <1>3, <1>8, <2>1
    <3>2. HasCopy(c[k]) /\ c[k].num_readers = 0
      BY <1>4, <3>1
    <3>3. y.min_chnk_idx <= k[2]
      BY <1>5, <1>7, <3>1
    <3>4. c[k].num_free_ignore = FreshLives(y)
      BY <1>4, <1>5, <3>1
    <3>5. FreshLives(y) \in Nat
      BY <1>5, <1>6
    <3> QED BY <3>2, <3>3, <3>4, <3>5
  <2>2. CASE k \in chnks
    <3>1. k \in Keys /\ k # <<v, i>> /\ c[k] = chnk[k]
      BY <1>3, <1>8, <2>2
    <3> QED BY <1>3, <1>5, <1>11, <2>2, <3>1 DEF PutRange
  <2> QED BY <2>1, <2>2
<1>12. ASSUME NEW a \in ChnkIdxs, NEW b \in ChnkIdxs, <<v, a>> \in chnks \cup {<<v, i>>},
              <<v, b>> \in chnks \cup {<<v, i>>}, a <= b
       PROVE  c[<<v, a>>].num_free_ignore <= c[<<v, b>>].num_free_ignore
  <2>1. c[<<v, a>>].num_free_ignore <= FreshLives(y)
    BY <1>11, <1>12
  <2>2. CASE b = i
    BY <1>3, <1>4, <1>5, <1>8, <2>1, <2>2
  <2>3. CASE b # i
    <3>1. <<v, b>> \in chnks /\ a # i /\ <<v, a>> \in chnks
      BY <1>3, <1>9, <1>12, <2>3 DEF ChnkIdxs
    <3>2. c[<<v, a>>] = chnk[<<v, a>>] /\ c[<<v, b>>] = chnk[<<v, b>>]
      BY <1>3, <1>8, <2>3, <3>1
    <3> QED BY <1>3, <1>12, <3>1, <3>2 DEF PutRange
  <2> QED BY <2>2, <2>3
<1>13. ~y.is_eov /\ y.num_elements > 0 /\ y.min_chnk_idx <= y.max_chnk_idx + 1
  BY <1>1, <1>3, <1>5, <1>6, <1>7
<1> QED BY <1>10, <1>11, <1>12, <1>13 DEF PutRange

(* vctr_put_chunk().                                                       *)
LEMMA PutChunkStepRange ==
  ASSUME TypeOK, TypeOK', CopyInv, RangeInv, ~AgesInUse, VctrPutChunk
  PROVE  RangeInv'
<1>1. PICK v \in Uqids, n \in 1..MaxNumInChnk, s \in Steals : vctr_put_chunk(v, n, s)
  BY DEF VctrPutChunk
<1>0. PICK ff : ff = FALSE
  OBVIOUS
<1> DEFINE x == vctr[v]
           i == IF x.num_elements = 0 THEN 0 ELSE x.max_chnk_idx + 1
           y == [x EXCEPT !.num_elements = @ + n, !.max_chnk_idx = i]
           keys == chnks \cup {<<v, i>>}
           c == [chnk EXCEPT ![<<v, i>>] =
                   [FreshChnk(x) EXCEPT !.num_elements = n, !.l1_data = 0..(n - 1)]]
           m == IF s THEN mem_used ELSE incr_mem_used(mem_used, 1)
           e == n < MaxNumInChnk /\ ~MemoFails(keys, c, v, y)
<1>2. /\ v \in vctrs /\ ~x.is_eov /\ x.num_elements % MaxNumInChnk = 0 /\ i \in ChnkIdxs
      /\ \/ StoreWithMemo(v, x, ff, chnks, chnk, mem_used)
         \/ StoreWithMemo(v, y, e, keys, c, m)
      /\ UNCHANGED <<g_vctr_uqid, vctrs, half_deleted>>
  BY <1>0, <1>1, Zenon DEF vctr_put_chunk, client
<1>3. PutOk(v, x, chnks, chnk) /\ PutRange(v, x, chnks, chnk)
  BY <1>2, UnfinishedOk, UnfinishedRange
<1>4. PutOk(v, y, keys, c) /\ PutRange(v, y, keys, c)
  BY <1>2, PutChunkOk, PutChunkRange
<1>5. e \in BOOLEAN /\ ff \in BOOLEAN
  BY <1>0
<1> HIDE DEF x, y, keys, c, m, e
<1> QED BY <1>2, <1>3, <1>4, <1>5, StoreRange

(* The chunks between the last of a vector of t elements and the last of   *)
(* the vector with n more all get some of them.                            *)
LEMMA SlotsFilled ==
  ASSUME NEW t \in Nat, NEW n \in Nat, n >= 1, NEW i \in Nat,
         i <= (t + n - 1) \div MaxNumInChnk,
         t > 0 => (t - 1) \div MaxNumInChnk < i
  PROVE  SlotsFor(i, t, n) # {}
<1>1. PICK M : M = MaxNumInChnk
  OBVIOUS
<1>2. M \in Nat /\ M > 0
  BY <1>1, BoundsAssumption DEF BoundsAssumption
<1>3. PICK a, w : a = t + n - 1 /\ w = i * M
  OBVIOUS
<1>4. a \in Nat /\ w \in Nat /\ t <= a
  BY <1>2, <1>3
<1>5. w <= a
  <2>1. PICK q : q = a \div M
    OBVIOUS
  <2>2. q \in Nat /\ q * M <= a
    BY <1>1, <1>4, <2>1, ChnkOf
  <2>3. i <= q
    BY <1>1, <1>3, <2>1
  <2>4. i < q => i * M + M <= q * M
    BY <1>1, <2>2, ChnksInOrder
  <2>5. i * M \in Nat /\ q * M \in Nat
    BY <1>2, <2>2
  <2> QED BY <1>2, <1>3, <1>4, <2>2, <2>3, <2>4, <2>5
<1>6. t <= w
  <2>1. CASE t = 0
    BY <1>4, <2>1
  <2>2. CASE t > 0
    <3>1. PICK q : q = (t - 1) \div M
      OBVIOUS
    <3>2. t - 1 \in Nat
      BY <2>2
    <3>3. q \in Nat /\ t - 1 < q * M + M
      BY <1>1, <3>1, <3>2, ChnkOf
    <3>4. q < i
      BY <1>1, <2>2, <3>1
    <3>5. q * M + M <= i * M
      BY <1>1, <3>3, <3>4, ChnksInOrder
    <3>6. q * M \in Nat
      BY <1>2, <3>3
    <3> QED BY <1>2, <1>3, <1>4, <3>2, <3>3, <3>5, <3>6
  <2> QED BY <2>1, <2>2
<1>7. 0 \in SlotsFor(i, t, n)
  BY <1>1, <1>2, <1>3, <1>4, <1>5, <1>6 DEF SlotsFor, Slots
<1> QED BY <1>7

(* put1 and putn go on after the last chunk, without a gap.                *)
LEMMA PutnRange ==
  ASSUME TypeOK, CopyInv, RangeInv, NEW v \in vctrs, NEW n \in 1..(MaxNumInChnk + 1),
         ~vctr[v].is_eov, vctr[v].num_elements + n <= MaxElems,
         vctr[v].num_elements > 0 => chnk_is(v, vctr[v].max_chnk_idx),
         NEW y \in VctrVal, NEW keys, NEW c \in [Keys -> ChnkVal], keys \subseteq Keys,
         y = [vctr[v] EXCEPT !.num_elements = vctr[v].num_elements + n,
                !.max_chnk_idx = (vctr[v].num_elements + n - 1) \div MaxNumInChnk],
         \A k \in Keys :
           /\ k \in keys <=> \/ k \in chnks
                             \/ k[1] = v /\ SlotsFor(k[2], vctr[v].num_elements, n) # {}
           /\ Filled_n(c, v, n, k)
  PROVE  PutRange(v, y, keys, c)
<1>1. PICK x, t, last : /\ x = vctr[v] /\ t = vctr[v].num_elements
                        /\ last = (t + n - 1) \div MaxNumInChnk
  OBVIOUS
<1>2. /\ v \in Uqids /\ x \in VctrVal /\ MaxNumInChnk \in Nat /\ MaxNumInChnk > 0
      /\ MaxChnks \in Nat /\ n \in Nat /\ n >= 1
  BY <1>1, BoundsAssumption DEF TypeOK, BoundsAssumption
<1>3. /\ t \in Nat /\ x.min_chnk_idx \in Nat /\ x.max_chnk_idx \in Nat
      /\ FreshLives(x) \in Nat /\ x.num_elements = t
  BY <1>1, <1>2, LivesType
<1>4. PutRange(v, x, chnks, chnk)
  BY <1>1, UnfinishedRange
<1>5. /\ y.num_elements = t + n /\ y.max_chnk_idx = last /\ y.is_eov = x.is_eov
      /\ y.min_chnk_idx = x.min_chnk_idx /\ FreshLives(y) = FreshLives(x)
  BY <1>1, <1>2 DEF VctrVal, FreshLives
<1>6. last \in Nat /\ last < MaxChnks
  <2>1. PICK a, M : a = t + n - 1 /\ M = MaxNumInChnk
    OBVIOUS
  <2>2. a \in Nat /\ last = a \div M /\ last \in Nat
    BY <1>1, <1>2, <1>3, <2>1, ChnkOf
  <2>3. (MaxChnks - 1) * M + M = MaxChnks * M
    BY <1>2, <2>1
  <2>4. a < MaxChnks * M
    BY <1>1, <1>2, <1>3, <2>1 DEF MaxElems
  <2>5. last <= MaxChnks - 1
    BY <1>2, <2>1, <2>2, <2>3, <2>4, ChnkBounds
  <2> QED BY <1>2, <2>2, <2>5
<1>7. ASSUME t > 0
      PROVE  /\ x.max_chnk_idx = (t - 1) \div MaxNumInChnk
             /\ <<v, x.max_chnk_idx>> \in chnks /\ x.min_chnk_idx <= x.max_chnk_idx
  <2>1. <<v, x.max_chnk_idx>> \in chnks
    BY <1>1, <1>7 DEF chnk_is
  <2>2. RowOk(x)
    BY <1>1 DEF CopyInv, RowsOk
  <2>3. <<v, x.max_chnk_idx>>[1] = v /\ <<v, x.max_chnk_idx>>[2] = x.max_chnk_idx
    OBVIOUS
  <2>4. x.min_chnk_idx <= x.max_chnk_idx
    BY <1>4, <2>1, <2>3 DEF PutRange
  <2> QED BY <1>1, <1>7, <2>1, <2>2, <2>4 DEF RowOk
<1>8. ASSUME NEW k \in keys, k[1] = v, k \notin chnks
      PROVE  k[2] \in Nat /\ x.min_chnk_idx <= k[2] /\ (t > 0 => x.max_chnk_idx < k[2])
  <2>1. k \in Keys /\ k[2] \in Nat /\ k = <<v, k[2]>> /\ SlotsFor(k[2], t, n) # {}
    BY <1>1, <1>8, KeyParts DEF ChnkIdxs
  <2>2. t > 0 => (t - 1) \div MaxNumInChnk <= k[2]
    BY <1>2, <1>3, <2>1, SlotsRange
  <2>3. t > 0 => x.max_chnk_idx # k[2]
    BY <1>7, <1>8, <2>1
  <2>4. t = 0 => x.min_chnk_idx = 0
    BY <1>3, <1>4 DEF PutRange
  <2> QED BY <1>3, <1>7, <2>1, <2>2, <2>3, <2>4
<1>9. ASSUME NEW k \in keys, k \in chnks
      PROVE  /\ c[k].num_free_ignore = chnk[k].num_free_ignore
             /\ c[k].num_readers = chnk[k].num_readers
             /\ HasCopy(chnk[k]) => HasCopy(c[k])
  <2>1. \/ c[k] = chnk[k]
        \/ /\ c[k].l1_mem = chnk[k].l1_mem /\ c[k].l2_exists = chnk[k].l2_exists
           /\ c[k].num_readers = chnk[k].num_readers
           /\ c[k].num_free_ignore = chnk[k].num_free_ignore
    <3>1. Filled_n(c, v, n, k)
      OBVIOUS
    <3> QED BY <1>9, <3>1 DEF Filled_n
  <2> QED BY <2>1, Zenon DEF HasCopy
<1>10. ASSUME NEW k \in keys, k[1] = v, k \notin chnks
       PROVE  /\ c[k].num_free_ignore = FreshLives(x) /\ c[k].num_readers = 0
              /\ HasCopy(c[k])
  <2>1. Filled_n(c, v, n, k) /\ SlotsFor(k[2], vctr[v].num_elements, n) # {}
    BY <1>10
  <2> QED BY <1>1, <1>10, <2>1, Zenon DEF Filled_n, HasCopy
<1>11. ASSUME NEW k \in keys, k[1] = v
       PROVE  /\ y.min_chnk_idx <= k[2] /\ c[k].num_free_ignore <= FreshLives(y)
              /\ HasCopy(c[k])
              /\ c[k].num_readers > 0 => k \in chnks /\ chnk[k].num_readers > 0
  <2>1. CASE k \in chnks
    <3>1. /\ x.min_chnk_idx <= k[2] /\ chnk[k].num_free_ignore <= FreshLives(x)
          /\ HasCopy(chnk[k])
      BY <1>4, <1>11, <2>1 DEF PutRange
    <3> QED BY <1>5, <1>9, <2>1, <3>1
  <2>2. CASE k \notin chnks
    <3>1. y.min_chnk_idx <= k[2] /\ c[k].num_free_ignore <= FreshLives(y)
      BY <1>3, <1>5, <1>8, <1>10, <1>11, <2>2
    <3> QED BY <1>10, <1>11, <2>2, <3>1
  <2> QED BY <2>1, <2>2
<1>12. ASSUME NEW a \in ChnkIdxs, NEW b \in ChnkIdxs, <<v, a>> \in keys, <<v, b>> \in keys,
              a <= b
       PROVE  c[<<v, a>>].num_free_ignore <= c[<<v, b>>].num_free_ignore
  <2>0. PICK j, k : j = <<v, a>> /\ k = <<v, b>>
    OBVIOUS
  <2>1. /\ j \in keys /\ k \in keys /\ j[1] = v /\ k[1] = v /\ j[2] = a /\ k[2] = b
        /\ a \in Nat /\ b \in Nat
    BY <1>12, <2>0 DEF ChnkIdxs
  <2>2. CASE k \notin chnks
    BY <1>5, <1>10, <1>11, <2>0, <2>1, <2>2
  <2>3. CASE k \in chnks
    <3>1. k \in Keys /\ Reached(k)
      BY <2>1, <2>3 DEF CopyInv, KeysReached
    <3>2. t > 0 /\ b <= x.max_chnk_idx
      BY <1>1, <2>1, <3>1 DEF Reached
    <3>3. j \in chnks
      BY <1>3, <1>8, <1>12, <2>1, <3>2
    <3>4. chnk[j].num_free_ignore <= chnk[k].num_free_ignore
      BY <1>4, <1>12, <2>0, <2>3, <3>3 DEF PutRange
    <3> QED BY <1>9, <2>0, <2>1, <2>3, <3>3, <3>4
  <2> QED BY <2>2, <2>3
<1>13. ASSUME v \in Live, NEW i \in Idxs(y) PROVE <<v, i>> \in keys
  <2>1. i \in Nat /\ x.min_chnk_idx <= i /\ i <= last
    BY <1>3, <1>5, <1>6 DEF Idxs
  <2>2. i \in ChnkIdxs /\ <<v, i>> \in Keys
    BY <1>2, <1>6, <2>1, KeyParts DEF ChnkIdxs
  <2>3. CASE t > 0 /\ i <= x.max_chnk_idx
    <3>1. <<v, i>> \in chnks
      BY <1>3, <1>4, <1>13, <2>1, <2>3 DEF PutRange, Idxs
    <3> QED BY <2>2, <3>1
  <2>4. CASE t > 0 => x.max_chnk_idx < i
    <3>1. t > 0 => (t - 1) \div MaxNumInChnk < i
      BY <1>7, <2>4
    <3>2. SlotsFor(i, t, n) # {}
      BY <1>1, <1>2, <1>3, <2>1, <3>1, SlotsFilled
    <3>3. <<v, i>>[1] = v /\ <<v, i>>[2] = i
      OBVIOUS
    <3> QED BY <1>1, <2>2, <3>2, <3>3
  <2> QED BY <1>3, <2>1, <2>3, <2>4
<1>14. y.num_elements > 0 /\ y.min_chnk_idx <= y.max_chnk_idx + 1 /\ ~y.is_eov
  <2>1. t > 0 => (t - 1) \div MaxNumInChnk <= last
    <3> SUFFICES ASSUME t > 0 PROVE (t - 1) \div MaxNumInChnk <= last
      OBVIOUS
    <3>1. PICK a, q : a = t + n - 1 /\ q = (t - 1) \div MaxNumInChnk
      OBVIOUS
    <3>2. t - 1 \in Nat /\ a \in Nat /\ t - 1 <= a
      BY <1>2, <1>3, <3>1
    <3>3. q \in Nat /\ q * MaxNumInChnk <= t - 1
      BY <3>1, <3>2, ChnkOf
    <3>4. q * MaxNumInChnk \in Nat
      BY <1>2, <3>3
    <3>5. q * MaxNumInChnk <= a
      BY <3>2, <3>3, <3>4
    <3> QED BY <1>1, <3>1, <3>2, <3>3, <3>5, ChnkBounds
  <2>2. x.min_chnk_idx <= last + 1
    <3>1. t = 0 => x.min_chnk_idx = 0
      BY <1>3, <1>4 DEF PutRange
    <3> QED BY <1>3, <1>6, <1>7, <2>1, <3>1
  <2> QED BY <1>1, <1>2, <1>3, <1>5, <2>2
<1> QED BY <1>11, <1>12, <1>13, <1>14 DEF PutRange

(* vctr_put1() and vctr_putn().                                            *)
LEMMA PutnStepRange ==
  ASSUME TypeOK, TypeOK', CopyInv, RangeInv, ~AgesInUse, VctrPutn
  PROVE  RangeInv'
<1>1. PICK v \in Uqids, n \in 1..(MaxNumInChnk + 1) : vctr_putn(v, n)
  BY DEF VctrPutn
<1>2. /\ v \in vctrs /\ ~vctr[v].is_eov /\ vctr[v].num_elements + n <= MaxElems
      /\ vctr[v].num_elements > 0 => chnk_is(v, vctr[v].max_chnk_idx)
      /\ UNCHANGED <<g_vctr_uqid, vctrs, half_deleted>>
  BY <1>1, Zenon DEF vctr_putn, client
<1>3. PICK y, keys, c, m :
           /\ StoreWithMemo(v, y, FALSE, keys, c, m)
           /\ y \in VctrVal /\ keys \subseteq Keys /\ c \in [Keys -> ChnkVal]
           /\ y = [vctr[v] EXCEPT !.num_elements = vctr[v].num_elements + n,
                     !.max_chnk_idx = (vctr[v].num_elements + n - 1) \div MaxNumInChnk]
           /\ \A k \in Keys :
                /\ k \in keys <=> \/ k \in chnks
                                  \/ /\ k[1] = v
                                     /\ SlotsFor(k[2], vctr[v].num_elements, n) # {}
                /\ Filled_n(c, v, n, k)
  BY <1>1, PutnShape
<1>4. PutOk(v, y, keys, c) /\ PutRange(v, y, keys, c)
  BY <1>2, <1>3, PutnOk, PutnRange
<1>5. PICK e : e = FALSE
  OBVIOUS
<1> QED BY <1>2, <1>3, <1>4, <1>5, StoreRange

-----------------------------------------------------------------------------
(* Early free, the taking over of a file, and deletion.                    *)

(* vctr_early_free() takes the chunks that are out of lives, which are the *)
(* oldest, and moves the range to behind them.                             *)
LEMMA EarlyFreeRange ==
  ASSUME TypeOK, TypeOK', CopyInv, RangeInv, VctrEarlyFree
  PROVE  RangeInv'
<1>0. PICK v \in Uqids : \E ub \in EarlyFreeArgs(v) : vctr_early_free(v, ub)
  BY DEF VctrEarlyFree
<1>1. PICK ub \in EarlyFreeArgs(v) : vctr_early_free(v, ub)
  BY <1>0
<1>2. /\ v \in vctrs /\ ~vctr[v].is_eov /\ vctr[v].num_elements > 0
      /\ UNCHANGED <<g_vctr_uqid, vctrs, half_deleted>>
  BY <1>1, Zenon DEF vctr_early_free, client
<1>3. PICK D, top, S : EarlyFreed(v, D, top) /\ FreedInOrder(v, D, top, S)
  BY <1>1, EarlyFreeShape DEF EarlyFreeArgs
<1>4. PICK x, y : x = vctr[v] /\ y = [x EXCEPT !.min_chnk_idx = top]
  OBVIOUS
<1>5. x \in VctrVal /\ vctr' = [vctr EXCEPT ![v] = y] /\ vctr'[v] = y
  BY <1>3, <1>4 DEF TypeOK, EarlyFreed
<1>6. /\ y.num_elements = x.num_elements /\ y.max_chnk_idx = x.max_chnk_idx
      /\ y.memo_len = x.memo_len /\ y.is_eov = x.is_eov /\ y.min_chnk_idx = top
      /\ FreshLives(y) = FreshLives(x)
  BY <1>4, <1>5 DEF VctrVal, FreshLives
<1>7. /\ RangeOk(x) /\ LivesOrdered(v)
      /\ v \in Live => Idxs(x) \subseteq Present(v)
      /\ x.min_chnk_idx \in Nat /\ x.max_chnk_idx \in Nat /\ x.memo_len \in Nat
      /\ FreshLives(x) \in Nat
  BY <1>2, <1>4, <1>5, LivesType DEF RangeInv, VctrRange
<1>8. /\ D \subseteq ChnkIdxs /\ top \in Nat
      /\ \A i \in D : i \in Present(v)
      /\ IF D = {} THEN top = x.min_chnk_idx
         ELSE top - 1 \in D /\ \A i \in D : x.min_chnk_idx <= i /\ i <= top - 1
  BY <1>3, <1>4 DEF EarlyFreed, FreedInOrder, Present
<1>9. \A i \in Present(v) : /\ i \in Nat /\ x.min_chnk_idx <= i /\ i <= x.max_chnk_idx
                            /\ HasCopy(chnk[<<v, i>>])
                            /\ chnk[<<v, i>>].num_free_ignore \in Nat
                            /\ chnk[<<v, i>>].num_free_ignore <= FreshLives(x)
  <2> SUFFICES ASSUME NEW i \in Present(v), NEW k, k = <<v, i>>
               PROVE  /\ i \in Nat /\ x.min_chnk_idx <= i /\ i <= x.max_chnk_idx
                      /\ HasCopy(chnk[k])
                      /\ chnk[k].num_free_ignore \in Nat
                      /\ chnk[k].num_free_ignore <= FreshLives(x)
    OBVIOUS
  <2>1. k \in chnks /\ k \in Keys /\ i \in Nat /\ k[1] = v /\ k[2] = i
    BY KeyParts DEF Present, chnk_is, ChnkIdxs
  <2>2. Reached(k) /\ InRange(k)
    BY <2>1 DEF CopyInv, KeysReached, RangeInv
  <2>3. chnk[k].num_free_ignore \in Nat
    BY <2>1 DEF TypeOK, ChnkVal
  <2> QED BY <1>2, <1>4, <2>1, <2>2, <2>3 DEF Reached, InRange
<1>10. x.min_chnk_idx <= top /\ top <= x.max_chnk_idx + 1
  <2>1. CASE D = {}
    BY <1>2, <1>4, <1>5, <1>7, <1>8, <2>1 DEF RangeOk
  <2>2. CASE D # {}
    <3>1. top - 1 \in D
      BY <1>8, <2>2
    <3>2. x.min_chnk_idx <= top - 1 /\ top - 1 <= x.max_chnk_idx
      BY <1>8, <1>9, <3>1
    <3> QED BY <1>7, <1>8, <3>2
  <2> QED BY <2>1, <2>2
<1>11. RangeOk(y)
  <2>1. x.num_elements > 0 /\ x.num_elements \in Nat
    BY <1>2, <1>4, <1>5, LivesType
  <2>2. x.memo_len > 0 => x.max_chnk_idx + 1 - x.min_chnk_idx <= x.memo_len
    BY <1>7, <2>1 DEF RangeOk
  <2>3. x.memo_len > 0 => x.max_chnk_idx + 1 - top <= x.memo_len
    BY <1>7, <1>8, <1>10, <2>2
  <2> QED BY <1>6, <1>10, <2>1, <2>3 DEF RangeOk
<1>12. \A u \in Uqids \ {v} : Rests(u)
  <2>1. \A k \in Keys : k[1] # v =>
          (k \in chnks' <=> k \in chnks) /\ chnk'[k] = chnk[k] /\ l2'[k] = l2[k]
    BY <1>3 DEF EarlyFreed
  <2> QED BY <1>2, <1>5, <2>1, OthersUntouched, UntouchedRests
<1>13. \A i \in ChnkIdxs : <<v, i>> \in chnks' <=> i \in Present(v) /\ i \notin D
  BY <1>3, KeyParts DEF EarlyFreed, Present, chnk_is
<1>14. Present(v)' = Present(v) \ D
  BY <1>13 DEF Present, chnk_is
\* no chunk before the new range is left
<1>15. ASSUME NEW i \in Present(v), i \notin D PROVE top <= i
  <2>0. i \in Nat /\ x.min_chnk_idx <= i /\ top \in Nat /\ x.min_chnk_idx \in Nat
    BY <1>7, <1>8, <1>9, <1>15
  <2> SUFFICES ASSUME i < top PROVE FALSE
    BY <2>0
  <2>1. D # {}
    <3>1. D = {} => top = x.min_chnk_idx
      BY <1>8
    <3> QED BY <2>0, <3>1
  <2>2. PICK j : j = top - 1
    OBVIOUS
  <2>3. j \in D /\ j \in Present(v) /\ i <= j
    <3>1. j \in D
      BY <1>8, <2>1, <2>2
    <3>2. j \in Present(v)
      BY <1>8, <3>1
    <3> QED BY <2>0, <2>2, <3>1, <3>2
  <2>4. chnk[<<v, j>>].num_free_ignore = 0
    BY <1>3, <2>3 DEF FreedInOrder
  <2>5. chnk[<<v, i>>].num_free_ignore = 0
    BY <1>7, <1>9, <2>3, <2>4 DEF LivesOrdered
  <2> QED BY <1>3, <1>4, <1>9, <1>15, <2>3, <2>5 DEF FreedInOrder
<1>16. ASSUME NEW i \in Present(v), i \notin D
       PROVE  /\ chnk'[<<v, i>>].num_free_ignore =
                   IF i \in S THEN chnk[<<v, i>>].num_free_ignore - 1
                   ELSE chnk[<<v, i>>].num_free_ignore
              /\ HasCopy(chnk'[<<v, i>>])
              /\ i \in S => chnk[<<v, i>>].num_free_ignore > 0
  <2>1. PICK k \in Keys : k = <<v, i>> /\ k[1] = v /\ k[2] = i
    BY KeyParts DEF Present
  <2>2. chnk'[k].num_free_ignore = IF i \in S THEN chnk[k].num_free_ignore - 1
                                   ELSE chnk[k].num_free_ignore
    BY <1>3, <1>16, <2>1 DEF FreedInOrder
  <2>3. chnk'[k].l1_mem = chnk[k].l1_mem /\ chnk'[k].l2_exists = chnk[k].l2_exists
    BY <1>3, <1>16, <2>1 DEF EarlyFreed
  <2>4. HasCopy(chnk'[k])
    BY <1>9, <2>1, <2>3, Zenon DEF HasCopy
  <2>5. i \in S => chnk[<<v, i>>].num_free_ignore > 0
    BY <1>3 DEF FreedInOrder
  <2> QED BY <2>1, <2>2, <2>4, <2>5
<1>17. LivesOrdered(v)'
  <2> SUFFICES ASSUME NEW i \in Present(v), NEW j \in Present(v), i \notin D, j \notin D,
                      i <= j
               PROVE  chnk'[<<v, i>>].num_free_ignore <= chnk'[<<v, j>>].num_free_ignore
    BY <1>14 DEF LivesOrdered
  <2>1. PICK a, b : a = chnk[<<v, i>>].num_free_ignore /\ b = chnk[<<v, j>>].num_free_ignore
    OBVIOUS
  <2>2. a \in Nat /\ b \in Nat /\ a <= b
    BY <1>7, <1>9, <2>1 DEF LivesOrdered
  <2>3. j \in S => b > 0 /\ (a > 0 => i \in S)
    BY <1>3, <1>4, <1>9, <2>1 DEF FreedInOrder
  <2>4. i \in S => a > 0
    BY <1>16, <2>1
  <2>5. chnk'[<<v, i>>].num_free_ignore = IF i \in S THEN a - 1 ELSE a
    BY <1>16, <2>1
  <2>6. chnk'[<<v, j>>].num_free_ignore = IF j \in S THEN b - 1 ELSE b
    BY <1>16, <2>1
  <2> QED BY <2>2, <2>3, <2>4, <2>5, <2>6
<1>18. v \in Live' => Idxs(y) \subseteq Present(v)'
  <2> SUFFICES ASSUME v \in Live', NEW i \in Idxs(y) PROVE i \in Present(v) \ D
    BY <1>14
  <2>1. i \in Int /\ top <= i /\ i <= x.max_chnk_idx /\ v \in Live
    BY <1>2, <1>6, <1>7, <1>8 DEF Idxs, Live
  <2>2. i \in Present(v)
    BY <1>7, <1>8, <1>10, <2>1 DEF Idxs
  <2>3. i \notin D
    BY <1>8, <2>1
  <2> QED BY <2>2, <2>3
<1>19. ASSUME NEW k \in Keys, k[1] = v PROVE InRange(k)'
  <2> SUFFICES ASSUME k \in chnks' PROVE InRange(k)'
    BY DEF InRange
  <2>1. PICK i \in ChnkIdxs : k = <<v, i>> /\ i = k[2]
    BY <1>19, KeyParts
  <2>2. i \in Present(v) /\ i \notin D
    BY <1>13, <2>1
  <2>3. chnk'[k].num_free_ignore <= FreshLives(x)
    BY <1>7, <1>9, <1>16, <2>1, <2>2
  <2> QED BY <1>2, <1>5, <1>6, <1>15, <1>16, <1>19, <2>1, <2>2, <2>3 DEF InRange
<1>20. VctrRange(v)'
  BY <1>5, <1>11, <1>17, <1>18 DEF VctrRange
<1>21. PICK W : W = {v}
  OBVIOUS
<1> QED BY <1>12, <1>19, <1>20, <1>21, OnlyRanged

(* vctr_set_lma(): the range of an empty vector is the chunks it is given. *)
LEMMA SetLmaRange ==
  ASSUME TypeOK, TypeOK', CopyInv, RangeInv, SetLma
  PROVE  RangeInv'
<1>1. PICK v \in Uqids, n \in 1..MaxElems : vctr_set_lma(v, n)
  BY DEF SetLma
<1>2. /\ v \in vctrs /\ vctr[v].num_elements = 0
      /\ UNCHANGED <<g_vctr_uqid, vctrs, l2, half_deleted>>
  BY <1>1, Zenon DEF vctr_set_lma, client
<1>3. PICK low, top : LmaSet(v, n, low, top)
  BY <1>1, SetLmaShape
<1>4. PICK x, y : /\ x = vctr[v]
                  /\ y = [x EXCEPT !.num_elements = n, !.min_chnk_idx = low,
                            !.max_chnk_idx = top, !.is_eov = TRUE, !.is_lma = TRUE]
  OBVIOUS
<1>5. /\ x \in VctrVal /\ vctr' = [vctr EXCEPT ![v] = y] /\ vctr'[v] = y
      /\ n \in Nat /\ n > 0 /\ low \in Nat /\ top \in Nat /\ low <= top /\ top \in ChnkIdxs
      /\ x.memo_len > 0 => top + 1 - low <= x.memo_len
  BY <1>3, <1>4, BoundsAssumption DEF TypeOK, LmaSet, ChnkIdxs, BoundsAssumption
<1>6. /\ y.num_elements = n /\ y.min_chnk_idx = low /\ y.max_chnk_idx = top
      /\ y.is_eov = TRUE /\ y.memo_len = x.memo_len /\ FreshLives(y) = FreshLives(x)
      /\ FreshLives(x) \in Nat
  BY <1>4, <1>5, LivesType DEF VctrVal, FreshLives
<1>7. ASSUME NEW k \in Keys
      PROVE  /\ k \in chnks' <=> k \in chnks \/ (k[1] = v /\ k[2] \in low..top)
             /\ k[1] = v /\ k[2] \in low..top =>
                  chnk'[k].num_free_ignore = FreshLives(x)
             /\ ~(k[1] = v /\ k[2] \in low..top) => chnk'[k] = chnk[k]
  BY <1>3, <1>4 DEF LmaSet
<1>8. \A k \in Keys : k[1] = v => k \notin chnks
  BY <1>2 DEF CopyInv, KeysReached, Reached
<1>9. \A u \in Uqids \ {v} : Rests(u)
  <2>1. \A k \in Keys : k[1] # v =>
          (k \in chnks' <=> k \in chnks) /\ chnk'[k] = chnk[k] /\ l2'[k] = l2[k]
    BY <1>2, <1>7
  <2> QED BY <1>2, <1>5, <2>1, OthersUntouched, UntouchedRests
<1>10. ASSUME NEW k \in Keys, k[1] = v, k \in chnks'
       PROVE  k[2] \in low..top /\ chnk'[k].num_free_ignore = FreshLives(x)
  BY <1>7, <1>8, <1>10
<1>11. \A k \in Keys : k[1] = v => InRange(k)'
  BY <1>2, <1>5, <1>6, <1>10 DEF InRange
<1>12. VctrRange(v)'
  <2>1. RangeOk(y)
    BY <1>5, <1>6 DEF RangeOk
  <2>2. \A i \in ChnkIdxs : <<v, i>> \in chnks' <=> i \in low..top
    BY <1>7, <1>8, KeyParts
  <2>3. low..top \subseteq ChnkIdxs
    BY <1>5, BoundsAssumption DEF ChnkIdxs, BoundsAssumption
  <2>4. Present(v)' = low..top
    BY <2>2, <2>3 DEF Present, chnk_is
  <2>5. LivesOrdered(v)'
    <3>1. ASSUME NEW i \in Present(v)'
          PROVE  chnk'[<<v, i>>].num_free_ignore = FreshLives(x)
      <4>1. i \in ChnkIdxs /\ <<v, i>> \in Keys /\ <<v, i>> \in chnks' /\ <<v, i>>[1] = v
        BY KeyParts DEF Present, chnk_is
      <4> QED BY <1>10, <4>1
    <3> QED BY <1>6, <3>1 DEF LivesOrdered
  <2> QED BY <1>5, <1>6, <2>1, <2>4, <2>5 DEF VctrRange, Idxs
<1>13. PICK W : W = {v}
  OBVIOUS
<1> QED BY <1>9, <1>11, <1>12, <1>13, OnlyRanged

(* A deletion that comes through has found all the chunks there are.       *)
LEMMA DeletionRange ==
  ASSUME TypeOK, TypeOK', CopyInv, RangeInv, Delete \/ Kill \/ BrkNnVec
  PROVE  RangeInv'
<1>1. CASE /\ \A u \in Uqids : Keeps(vctr[u], vctr'[u])
           /\ UNCHANGED <<g_vctr_uqid, vctrs, rest>>
  <2>1. SameTable /\ chnk' = chnk /\ chnks' = chnks
    BY <1>1 DEF SameTable, TypeOK, rest, chnkTable, client
  <2>2. SameCounts /\ CopiesStay
    BY <2>1 DEF SameCounts, SameCount, CopiesStay
  <2> QED BY <2>1, <2>2, SameTableStays, QuietRange
<1>2. ASSUME NEW v \in vctrs, NEW D, Deleted(v, D) PROVE RangeInv'
  <2>0. /\ v \in Uqids /\ VctrRange(v) /\ vctr[v] \in VctrVal
        /\ \A k \in Keys : k[1] = v => InRange(k)
    BY DEF TypeOK, RangeInv
  <2>1. ASSUME NEW u \in Uqids \ {v} PROVE Rests(u)
    <3>1. Keeps(vctr[u], vctr'[u]) /\ (u \in vctrs' <=> u \in vctrs)
      BY <1>2 DEF Deleted
    <3>2. u \in Live' => u \in Live
      BY <1>2 DEF Deleted, Live
    <3>3. \A k \in Keys : k[1] = u =>
            (k \in chnks' <=> k \in chnks) /\ chnk'[k] = chnk[k] /\ l2'[k] = l2[k]
      BY <1>2 DEF Deleted
    <3>4. Untouched(u)
      BY <3>1, <3>2, <3>3 DEF Untouched
    <3> QED BY <3>1, <3>4, UntouchedRests
  <2>2. v \notin Live'
    BY <1>2 DEF Deleted, Live
  <2>3. CASE vctrs' = vctrs \ {v}
    <3>1. vctr[v].num_elements = 0 \/ D = Idxs(vctr[v])
      BY <1>2, <2>3 DEF Deleted
    <3>2. ASSUME NEW k \in Keys, k[1] = v PROVE k \notin chnks'
      <4>1. k \in chnks' <=> k \in chnks /\ ~(k[1] = v /\ k[2] \in D)
        BY <1>2 DEF Deleted
      <4> SUFFICES ASSUME k \in chnks PROVE k[2] \in D
        BY <3>2, <4>1
      <4>2. Reached(k) /\ vctr[v].min_chnk_idx <= k[2]
        BY <2>0, <3>2 DEF InRange, CopyInv, KeysReached
      <4>3. vctr[v].num_elements > 0 /\ k[2] <= vctr[v].max_chnk_idx
        BY <3>2, <4>2 DEF Reached
      <4>4. D = Idxs(vctr[v])
        BY <3>1, <4>3
      <4>5. /\ vctr[v].min_chnk_idx \in Nat /\ vctr[v].max_chnk_idx \in Nat
            /\ k[2] \in Nat
        BY <2>0, LivesType, KeyParts DEF ChnkIdxs
      <4> QED BY <4>2, <4>3, <4>4, <4>5 DEF Idxs
    <3>3. VctrRange(v)' /\ \A k \in Keys : k[1] = v => InRange(k)'
      BY <2>3, <3>2 DEF VctrRange, InRange
    <3>4. PICK W : W = {v}
      OBVIOUS
    <3> QED BY <2>1, <3>3, <3>4, OnlyRanged
  <2>4. CASE ~(vctrs' = vctrs \ {v})
    <3>1. PICK b \in BOOLEAN, x \in VctrVal :
             /\ vctrs' = vctrs
             /\ Keeps(vctr[v], x) /\ vctr'[v] = [x EXCEPT !.is_lma = b]
      BY <1>2, <2>4 DEF Deleted
    <3>2. PICK y : y = vctr'[v]
      OBVIOUS
    <3>3. RowStays(vctr[v], x) /\ RowStays(x, y) /\ y \in VctrVal
      <4>1. RowStays(vctr[v], x)
        BY <2>0, <3>1, KeepsStays
      <4>2. RowStays(x, [x EXCEPT !.is_lma = b])
        BY FieldsStay
      <4>3. y = [x EXCEPT !.is_lma = b]
        BY <3>1, <3>2
      <4>4. vctr'[v] \in VctrVal
        BY <2>0 DEF TypeOK
      <4>5. y \in VctrVal
        BY <3>2, <4>4
      <4>6. RowStays(x, y)
        BY <4>2, <4>3
      <4> QED BY <4>1, <4>5, <4>6
    <3>4. /\ FreshLives(vctr[v]) \in Nat /\ FreshLives(x) \in Nat /\ FreshLives(y) \in Nat
          /\ \A k \in Keys : chnk[k].num_free_ignore \in Nat
      BY <2>0, <3>3, LivesType DEF TypeOK, ChnkVal
    <3>5. \A k \in Keys : k \in chnks' => k \in chnks /\ chnk'[k] = chnk[k]
      BY <1>2 DEF Deleted
    <3>6. RangeOk(y)
      <4>1. RangeOk(vctr[v])
        BY <2>0 DEF VctrRange
      <4>2. /\ vctr[v].num_elements \in Nat /\ x.num_elements \in Nat /\ y.num_elements \in Nat
        BY <2>0, <3>3, LivesType
      <4>3. RangeOk(x)
        BY <3>3, <4>1, <4>2 DEF RangeOk, RowStays
      <4> QED BY <3>3, <4>2, <4>3 DEF RangeOk, RowStays
    <3>7. LivesOrdered(v)'
      <4>1. ASSUME NEW i \in Present(v)'
            PROVE  i \in Present(v) /\ chnk'[<<v, i>>] = chnk[<<v, i>>]
        <5>1. i \in ChnkIdxs /\ <<v, i>> \in chnks'
          BY <4>1 DEF Present, chnk_is
        <5>2. <<v, i>> \in Keys
          BY <2>0, <5>1, KeyParts
        <5>3. <<v, i>> \in chnks /\ chnk'[<<v, i>>] = chnk[<<v, i>>]
          BY <3>5, <5>1, <5>2
        <5> QED BY <5>1, <5>3 DEF Present, chnk_is
      <4>2. LivesOrdered(v)
        BY <2>0 DEF VctrRange
      <4> QED BY <4>1, <4>2 DEF LivesOrdered
    <3>8. VctrRange(v)'
      BY <2>2, <3>2, <3>6, <3>7 DEF VctrRange
    <3>9. ASSUME NEW k \in Keys, k[1] = v PROVE InRange(k)'
      <4> SUFFICES ASSUME k \in chnks' PROVE InRange(k)'
        BY DEF InRange
      <4>1. k \in chnks /\ chnk'[k] = chnk[k] /\ InRange(k)
        BY <2>0, <3>5, <3>9
      <4>2. /\ y.min_chnk_idx = vctr[v].min_chnk_idx
            /\ FreshLives(vctr[v]) <= FreshLives(y)
            /\ vctr[v].is_eov => y.is_eov
        BY <3>3, <3>4 DEF RowStays
      <4>3. /\ vctr[v].min_chnk_idx <= k[2]
            /\ chnk[k].num_free_ignore <= FreshLives(vctr[v])
            /\ vctr[v].is_eov \/ HasCopy(chnk[k])
        BY <3>9, <4>1 DEF InRange
      <4>4. chnk[k].num_free_ignore <= FreshLives(y)
        BY <3>4, <4>2, <4>3
      <4> QED BY <3>1, <3>2, <3>9, <4>1, <4>2, <4>3, <4>4 DEF InRange
    <3>10. PICK W : W = {v}
      OBVIOUS
    <3> QED BY <2>1, <3>8, <3>9, <3>10, OnlyRanged
  <2> QED BY <2>3, <2>4
<1> QED BY <1>1, <1>2, DeletionShape

-----------------------------------------------------------------------------
(* The theorems.                                                           *)

(* A session starts without vectors.                                       *)
LEMMA InitRange == Init => RangeInv
  BY DEF Init, VctrInit, RangeInv, InRange, VctrRange

(* Every operation keeps the ranges right, if no chunk ages in use.        *)
LEMMA NextRange ==
  ASSUME TypeOK, TypeOK', CopyInv, RangeInv, Next, ~AgesInUse
  PROVE  RangeInv'
<1>1. CASE GrowNext
  BY <1>1, AddRange, PutnStepRange, PutChunkStepRange, EovRange, EarlyFreeRange
     DEF GrowNext
<1>2. CASE AccessNext
  <2>1. CASE SetLma
    BY <2>1, SetLmaRange
  <2> QED BY <1>2, <2>1, QuietSteps
<1>3. CASE TierNext
  <2>1. CASE SetLma
    BY <2>1, SetLmaRange
  <2> QED BY <1>3, <2>1, QuietSteps
<1>4. CASE LifeNext
  BY <1>4, AttributesRange, AddWithNnRange, DeletionRange DEF LifeNext
<1> QED BY <1>1, <1>2, <1>3, <1>4 DEF Next

(* No step at all.                                                         *)
LEMMA IdleRange ==
  ASSUME RangeInv, UNCHANGED vars
  PROVE  RangeInv'
<1>1. /\ vctrs' = vctrs /\ vctr' = vctr /\ chnks' = chnks /\ chnk' = chnk
      /\ half_deleted' = half_deleted
  BY DEF vars, vctrTable, chnkTable, client
<1>2. \A k \in Keys : InRange(k)'
  BY <1>1 DEF RangeInv, InRange
<1>3. \A v \in Uqids : Present(v)' = Present(v)
  BY <1>1 DEF Present, chnk_is
<1>4. \A v \in Uqids : VctrRange(v)'
  <2> SUFFICES ASSUME NEW v \in Uqids, VctrRange(v) PROVE VctrRange(v)'
    BY DEF RangeInv
  <2>1. LivesOrdered(v) => LivesOrdered(v)'
    BY <1>1, <1>3 DEF LivesOrdered
  <2> QED BY <1>1, <1>3, <2>1 DEF VctrRange, Live
<1> QED BY <1>2, <1>4 DEF RangeInv

(* RangeInv is an invariant, if no chunk ages in use.                      *)
LEMMA VctrRangeInv == Spec /\ [][~AgesInUse]_vars => []RangeInv
<1>1. TypeOK /\ CopyInv /\ RangeInv /\ [Next]_vars /\ [~AgesInUse]_vars => RangeInv'
  <2> SUFFICES ASSUME TypeOK, CopyInv, RangeInv, [Next]_vars, [~AgesInUse]_vars
               PROVE  RangeInv'
    OBVIOUS
  <2>1. TypeOK'
    BY NextType
  <2>2. CASE UNCHANGED vars
    BY <2>2, IdleRange
  <2>3. CASE Next /\ ~AgesInUse
    BY <2>1, <2>3, NextRange
  <2> QED BY <2>2, <2>3
<1> QED BY <1>1, InitRange, VctrTypeOK, VctrCopyInv, PTL DEF Spec

(* The chunks of a vector are those of its range.                          *)
LEMMA PresentIsRange ==
  ASSUME TypeOK, CopyInv, RangeInv, NEW v \in Live
  PROVE  /\ v \in vctrs /\ v \in Uqids /\ RangeOk(vctr[v]) /\ LivesOrdered(v)
         /\ Present(v) = IF vctr[v].num_elements = 0 THEN {} ELSE Idxs(vctr[v])
<1>1. v \in vctrs /\ v \in Uqids /\ vctr[v] \in VctrVal
  BY DEF TypeOK, Live
<1>2. /\ RangeOk(vctr[v]) /\ LivesOrdered(v)
      /\ vctr[v].num_elements > 0 => Idxs(vctr[v]) \subseteq Present(v)
  BY <1>1 DEF RangeInv, VctrRange
<1>3. ASSUME NEW i \in Present(v) PROVE vctr[v].num_elements > 0 /\ i \in Idxs(vctr[v])
  <2>1. PICK k \in Keys : k \in chnks /\ k[1] = v /\ k[2] = i /\ i \in Nat
    BY <1>1, KeyParts DEF Present, chnk_is, ChnkIdxs
  <2>2. Reached(k) /\ InRange(k)
    BY <2>1 DEF CopyInv, KeysReached, RangeInv
  <2>3. vctr[v].min_chnk_idx \in Nat /\ vctr[v].max_chnk_idx \in Nat
    BY <1>1, LivesType
  <2> QED BY <1>1, <2>1, <2>2, <2>3 DEF Reached, InRange, Idxs
<1>4. vctr[v].num_elements = 0 => Present(v) = {}
  BY <1>3
<1>5. vctr[v].num_elements # 0 => Present(v) = Idxs(vctr[v])
  <2>1. vctr[v].num_elements \in Nat
    BY <1>1, LivesType
  <2> QED BY <1>2, <1>3, <2>1
<1> QED BY <1>1, <1>2, <1>4, <1>5

(* Whatever memo, early free and deletions take away, what vctrs_chk()     *)
(* counts up is right: the chunk table holds the chunks min_chnk_idx to    *)
(* max_chnk_idx of every vector and no other, so that no chunk is          *)
(* forgotten and no loop over the range of a vector misses one.  This needs*)
(* that vctr_memo() finds no readers on the chunks it means to delete: it  *)
(* moves min_chnk_idx past them all the same.                              *)
THEOREM VctrChnksMatchVctrs == Spec /\ [][~AgesInUse]_vars => []ChnksMatchVctrs
<1>1. TypeOK /\ CopyInv /\ RangeInv => ChnksMatchVctrs
  <2> SUFFICES ASSUME TypeOK, CopyInv, RangeInv PROVE ChnksMatchVctrs
    OBVIOUS
  <2>1. \A k \in chnks : k[1] \in vctrs
    BY DEF TypeOK, RangeInv, InRange
  <2> QED BY <2>1, PresentIsRange DEF ChnksMatchVctrs
<1> QED BY <1>1, VctrTypeOK, VctrCopyInv, VctrRangeInv, PTL

(* However puts, early frees and deletions come, the lives of the chunks of*)
(* a vector ascend with their index, so that vctr_early_free() always takes*)
(* the oldest stretch of them and leaves no hole.                          *)
THEOREM VctrLivesAscend == Spec /\ [][~AgesInUse]_vars => []LivesAscend
<1>1. TypeOK /\ CopyInv /\ RangeInv => LivesAscend
  BY PresentIsRange DEF LivesAscend, LivesOrdered
<1> QED BY <1>1, VctrTypeOK, VctrCopyInv, VctrRangeInv, PTL

(* A memoised vector never has more than memo_len chunks, whichever of put,*)
(* put_chunk, eov, append and set_lma it is given, as long as vctr_memo()  *)
(* finds no readers on the chunks it means to delete.                      *)
THEOREM VctrMemoBound == Spec /\ [][~AgesInUse]_vars => []MemoBound
<1>1. TypeOK /\ CopyInv /\ RangeInv => MemoBound
  <2> SUFFICES ASSUME TypeOK, CopyInv, RangeInv, NEW v \in Live, vctr[v].memo_len > 0
               PROVE  Cardinality(Present(v)) <= vctr[v].memo_len
    BY DEF MemoBound
  <2>1. PICK x \in VctrVal : x = vctr[v]
    BY PresentIsRange DEF TypeOK
  <2>2. /\ x.num_elements \in Nat /\ x.min_chnk_idx \in Nat
        /\ x.max_chnk_idx \in Nat /\ x.memo_len \in Nat /\ x.memo_len > 0
    BY <2>1, LivesType
  <2>3. /\ RangeOk(x)
        /\ Present(v) = IF x.num_elements = 0 THEN {} ELSE Idxs(x)
    BY <2>1, PresentIsRange
  <2>4. CASE x.num_elements = 0
    <3>1. Cardinality(Present(v)) = 0
      BY <2>3, <2>4, FS_EmptySet
    <3> QED BY <2>1, <2>2, <3>1
  <2>5. CASE x.num_elements # 0
    <3>1. Cardinality(Present(v)) = IF x.min_chnk_idx > x.max_chnk_idx THEN 0
                                    ELSE x.max_chnk_idx - x.min_chnk_idx + 1
      <4>1. PICK a \in Int, b \in Int : a = x.min_chnk_idx /\ b = x.max_chnk_idx
        BY <2>2
      <4>2. Cardinality(a..b) = IF a > b THEN 0 ELSE b - a + 1
        BY FS_Interval
      <4>3. Present(v) = a..b
        BY <2>3, <2>5, <4>1 DEF Idxs
      <4> QED BY <4>1, <4>2, <4>3
    <3>2. x.max_chnk_idx + 1 - x.min_chnk_idx <= x.memo_len
      BY <2>2, <2>3, <2>5 DEF RangeOk
    <3> QED BY <2>1, <2>2, <3>1, <3>2
  <2> QED BY <2>4, <2>5
<1> QED BY <1>1, VctrTypeOK, VctrCopyInv, VctrRangeInv, PTL

-----------------------------------------------------------------------------
(* Sums.                                                                   *)

\* s[i] is f[1] + ... + f[i]
Sums(s, f, n) == s = [i \in 0..n |-> IF i = 0 THEN 0 ELSE s[i - 1] + f[i]]

(* There are such sums.                                                    *)
LEMMA SumsExist == \A f : \A n \in Nat : \E s : Sums(s, f, n)
<1> SUFFICES ASSUME NEW f PROVE \A n \in Nat : \E s : Sums(s, f, n)
  OBVIOUS
<1> DEFINE T == {n \in Nat : \E s : Sums(s, f, n)}
<1>1. 0 \in T
  <2>1. PICK s : s = [i \in 0..0 |-> 0]
    OBVIOUS
  <2>2. Sums(s, f, 0)
    BY <2>1 DEF Sums
  <2> QED BY <2>2
<1>2. ASSUME NEW n \in T PROVE n + 1 \in T
  <2>1. PICK s : Sums(s, f, n)
    OBVIOUS
  <2>2. PICK t : t = [i \in 0..(n + 1) |-> IF i = n + 1 THEN s[n] + f[n + 1] ELSE s[i]]
    OBVIOUS
  <2>3. ASSUME NEW i \in 0..(n + 1) PROVE t[i] = IF i = 0 THEN 0 ELSE t[i - 1] + f[i]
    <3>1. CASE i = n + 1
      <4>1. t[i] = s[n] + f[i] /\ t[i - 1] = s[n] /\ i # 0
        BY <2>2, <3>1
      <4> QED BY <4>1
    <3>2. CASE i # n + 1
      <4>1. i \in 0..n /\ (i # 0 => i - 1 \in 0..n)
        BY <3>2
      <4>2. t[i] = s[i] /\ (i # 0 => t[i - 1] = s[i - 1])
        BY <2>2, <4>1
      <4> QED BY <2>1, <4>1, <4>2 DEF Sums
    <3> QED BY <3>1, <3>2
  <2>4. Sums(t, f, n + 1)
    BY <2>2, <2>3 DEF Sums
  <2> QED BY <2>4
<1> HIDE DEF T
<1>3. T \in SUBSET Nat
  BY DEF T
<1>4. Nat \subseteq T
  BY <1>1, <1>2, <1>3, NatSet
<1> QED BY <1>4 DEF T

(* SumTo is one.                                                           *)
LEMMA SumIs ==
  ASSUME NEW n \in Nat, NEW f
  PROVE  \E s : Sums(s, f, n) /\ SumTo(f, n) = s[n]
<1> DEFINE t == CHOOSE s : Sums(s, f, n)
<1>1. Sums(t, f, n)
  BY SumsExist
<1>2. SumTo(f, n) = t[n]
  BY DEF SumTo, Sums
<1> QED BY <1>1, <1>2

(* If no summand is less than in another sum, and one exceeds its like by  *)
(* d, the sum does.                                                        *)
LEMMA SumGrows ==
  ASSUME NEW n \in Nat, NEW f \in [1..n -> Int], NEW g \in [1..n -> Int],
         NEW j \in Int, NEW d \in Int,
         \A i \in 1..n : g[i] >= f[i] + (IF i = j THEN d ELSE 0)
  PROVE  /\ SumTo(f, n) \in Int /\ SumTo(g, n) \in Int
         /\ SumTo(g, n) >= SumTo(f, n) + (IF j \in 1..n THEN d ELSE 0)
<1>1. PICK s : Sums(s, f, n) /\ SumTo(f, n) = s[n]
  BY SumIs
<1>2. PICK t : Sums(t, g, n) /\ SumTo(g, n) = t[n]
  BY SumIs
<1> DEFINE More(i) == IF j \in 1..i THEN d ELSE 0
           T == {i \in Nat : i <= n => s[i] \in Int /\ t[i] \in Int /\ t[i] >= s[i] + More(i)}
<1>3. 0 \in T
  <2>1. s[0] = 0 /\ t[0] = 0
    BY <1>1, <1>2 DEF Sums
  <2>2. More(0) = 0
    OBVIOUS
  <2> QED BY <2>1, <2>2
<1>4. ASSUME NEW i \in T PROVE i + 1 \in T
  <2>1. PICK m : m = i + 1
    OBVIOUS
  <2>2. m \in Nat /\ i \in Nat /\ i = m - 1
    BY <2>1
  <2> SUFFICES ASSUME m <= n
               PROVE  s[m] \in Int /\ t[m] \in Int /\ t[m] >= s[m] + More(m)
    BY <2>1, <2>2 DEF T
  <2>3. m \in 1..n /\ i <= n
    BY <2>2
  <2>4. s[i] \in Int /\ t[i] \in Int /\ t[i] >= s[i] + More(i)
    BY <2>3 DEF T
  <2>5. s[m] = s[i] + f[m] /\ t[m] = t[i] + g[m]
    <3>1. m \in 0..n /\ m # 0
      BY <2>3
    <3>2. s[m] = s[m - 1] + f[m] /\ t[m] = t[m - 1] + g[m]
      BY <1>1, <1>2, <3>1 DEF Sums
    <3> QED BY <2>2, <3>2
  <2>6. f[m] \in Int /\ g[m] \in Int /\ g[m] >= f[m] + (IF m = j THEN d ELSE 0)
    BY <2>3
  <2>7. PICK p \in Int, q \in Int, r \in Int :
          p = More(i) /\ q = More(m) /\ r = (IF m = j THEN d ELSE 0)
    OBVIOUS
  <2>8. q = p + r
    BY <2>2, <2>7
  <2> HIDE DEF More
  <2>9. g[m] >= f[m] + r /\ t[i] >= s[i] + p
    BY <2>4, <2>6, <2>7
  <2>10. s[m] \in Int /\ t[m] \in Int /\ t[m] >= s[m] + q
    <3>0. PICK sm, tm : sm = s[m] /\ tm = t[m]
      OBVIOUS
    <3>1. PICK fm \in Int, gm \in Int, si \in Int, ti \in Int :
            fm = f[m] /\ gm = g[m] /\ si = s[i] /\ ti = t[i]
      BY <2>4, <2>6
    <3>2. sm = si + fm /\ tm = ti + gm /\ gm >= fm + r /\ ti >= si + p
      BY <2>5, <2>9, <3>0, <3>1
    <3>3. sm \in Int /\ tm \in Int /\ tm >= sm + q
      BY <2>8, <3>2
    <3> QED BY <3>0, <3>3
  <2> QED BY <2>7, <2>10
<1> HIDE DEF T
<1>5. T \in SUBSET Nat
  BY DEF T
<1>6. Nat \subseteq T
  BY <1>3, <1>4, <1>5, NatSet
<1>7. s[n] \in Int /\ t[n] \in Int /\ t[n] >= s[n] + More(n)
  BY <1>6 DEF T
<1> QED BY <1>1, <1>2, <1>7

(* A sum of nothing.                                                       *)
LEMMA SumZero ==
  ASSUME NEW n \in Nat, NEW f, \A i \in 1..n : f[i] = 0
  PROVE  SumTo(f, n) = 0
<1>1. PICK s : Sums(s, f, n) /\ SumTo(f, n) = s[n]
  BY SumIs
<1> DEFINE T == {i \in Nat : i <= n => s[i] = 0}
<1>2. 0 \in T
  BY <1>1 DEF Sums
<1>3. ASSUME NEW i \in T PROVE i + 1 \in T
  <2>1. PICK m : m = i + 1
    OBVIOUS
  <2>2. m \in Nat /\ i \in Nat /\ i = m - 1
    BY <2>1
  <2> SUFFICES ASSUME m <= n PROVE s[m] = 0
    BY <2>1, <2>2 DEF T
  <2>3. m \in 1..n /\ m \in 0..n /\ m # 0 /\ i <= n
    BY <2>2
  <2>4. s[m] = s[m - 1] + f[m]
    BY <1>1, <2>3 DEF Sums
  <2>5. s[i] = 0 /\ f[m] = 0
    BY <2>3 DEF T
  <2> QED BY <2>2, <2>4, <2>5
<1> HIDE DEF T
<1>4. T \in SUBSET Nat
  BY DEF T
<1>5. Nat \subseteq T
  BY <1>2, <1>3, <1>4, NatSet
<1> QED BY <1>1, <1>5 DEF T

-----------------------------------------------------------------------------
(* Readers of a vector are counted on its row while it has a linear file,  *)
(* and on its chunks while it has none.  LmaReadersCounted follows from    *)
(* what the two counts cover between them.                                 *)

\* what clients have yet to give back of v: linear files and chunks
Owed(v) ==
  lma_held[v] + SumTo([i \in 1..MaxChnks |-> held[<<v, i - 1>>]], MaxChnks)

\* the count that vctr_unget_chunk() and vctr_unget_lma_read() will take from
\* covers what is to be given back
Covered(v) ==
  IF vctr[v].is_lma THEN vctr[v].num_readers >= Owed(v)
  ELSE /\ lma_held[v] = 0
       /\ \A i \in ChnkIdxs : chnk[<<v, i>>].num_readers >= held[<<v, i>>]

\* no chunk that is not there has readers, and no vector that is yet to come
ReadersInv ==
  /\ \A v \in Live : Covered(v)
  /\ \A k \in Keys : k \notin chnks => chnk[k].num_readers = 0
  /\ \A k \in Keys : k[1] > g_vctr_uqid => held[k] = 0
  /\ \A v \in Uqids : v > g_vctr_uqid => lma_held[v] = 0

\* the step gives a vector its linear file, or takes it away, while a client
\* holds some of the vector: the count of readers changes places, the readers
\* already counted do not
MovesInUse ==
  \E v \in Live : /\ v \in Live' /\ vctr'[v].is_lma # vctr[v].is_lma
                  /\ lma_held[v] > 0 \/ \E i \in ChnkIdxs : held[<<v, i>>] > 0

(* What is owed grows by no more than c, for the linear file, and d, for   *)
(* chunk j.                                                                *)
LEMMA OwedMoves ==
  ASSUME TypeOK, TypeOK', NEW v \in Uqids, NEW j \in ChnkIdxs, NEW c \in Int, NEW d \in Int,
         lma_held'[v] <= lma_held[v] + c,
         \A i \in ChnkIdxs :
           held'[<<v, i>>] <= held[<<v, i>>] + (IF i = j THEN d ELSE 0)
  PROVE  Owed(v) \in Int /\ Owed(v)' \in Int /\ Owed(v)' <= Owed(v) + c + d
<1>1. PICK n \in Nat : n = MaxChnks
  BY BoundsAssumption DEF BoundsAssumption
<1>2. PICK h, e : /\ h = [i \in 1..n |-> held[<<v, i - 1>>]]
                  /\ e = [i \in 1..n |-> held'[<<v, i - 1>>]]
  OBVIOUS
<1>3. ASSUME NEW i \in 1..n
      PROVE  /\ i - 1 \in ChnkIdxs
             /\ held[<<v, i - 1>>] \in Nat /\ held'[<<v, i - 1>>] \in Nat
  <2>1. i - 1 \in ChnkIdxs
    BY <1>1 DEF ChnkIdxs
  <2>2. <<v, i - 1>> \in Keys
    BY <2>1, KeyParts
  <2> QED BY <2>1, <2>2 DEF TypeOK
<1>4. h \in [1..n -> Int] /\ e \in [1..n -> Int]
  BY <1>2, <1>3
<1>5. PICK m \in Int, q \in Int : m = j + 1 /\ q = -d
  BY DEF ChnkIdxs
<1>6. \A i \in 1..n : h[i] >= e[i] + (IF i = m THEN q ELSE 0)
  <2> SUFFICES ASSUME NEW i \in 1..n
               PROVE  h[i] >= e[i] + (IF i = m THEN q ELSE 0)
    OBVIOUS
  <2>1. PICK p \in ChnkIdxs : p = i - 1
    BY <1>3
  <2>2. p = j <=> i = m
    BY <1>5, <2>1 DEF ChnkIdxs
  <2>3. e[i] <= h[i] + (IF p = j THEN d ELSE 0)
    BY <1>2, <2>1
  <2>4. h[i] \in Int /\ e[i] \in Int
    BY <1>4
  <2> QED BY <1>5, <2>2, <2>3, <2>4
<1>7. /\ SumTo(h, n) \in Int /\ SumTo(e, n) \in Int
      /\ SumTo(h, n) >= SumTo(e, n) + (IF m \in 1..n THEN q ELSE 0)
  BY <1>4, <1>6, SumGrows
<1>8. m \in 1..n
  BY <1>1, <1>5 DEF ChnkIdxs
<1>9. Owed(v) = lma_held[v] + SumTo(h, n) /\ Owed(v)' = lma_held'[v] + SumTo(e, n)
  BY <1>1, <1>2 DEF Owed
<1>10. lma_held[v] \in Nat /\ lma_held'[v] \in Nat
  BY DEF TypeOK
<1> QED BY <1>5, <1>7, <1>8, <1>9, <1>10

(* No less is owed than linear files.                                      *)
LEMMA OwedAtLeast ==
  ASSUME TypeOK, NEW v \in Uqids
  PROVE  Owed(v) \in Int /\ Owed(v) >= lma_held[v]
<1>1. PICK n \in Nat : n = MaxChnks
  BY BoundsAssumption DEF BoundsAssumption
<1>2. PICK h, e : /\ h = [i \in 1..n |-> held[<<v, i - 1>>]]
                  /\ e = [i \in 1..n |-> 0]
  OBVIOUS
<1>3. ASSUME NEW i \in 1..n PROVE held[<<v, i - 1>>] \in Nat
  <2>1. i - 1 \in ChnkIdxs
    BY <1>1 DEF ChnkIdxs
  <2>2. <<v, i - 1>> \in Keys
    BY <2>1, KeyParts
  <2> QED BY <2>2 DEF TypeOK
<1>4. h \in [1..n -> Int] /\ e \in [1..n -> Int]
  BY <1>2, <1>3
<1>5. PICK j \in Int, d \in Int : j = 0 /\ d = 0
  OBVIOUS
<1>6. \A i \in 1..n : h[i] >= e[i] + (IF i = j THEN d ELSE 0)
  BY <1>2, <1>3, <1>5
<1>7. /\ SumTo(e, n) \in Int /\ SumTo(h, n) \in Int
      /\ SumTo(h, n) >= SumTo(e, n) + (IF j \in 1..n THEN d ELSE 0)
  BY <1>4, <1>6, SumGrows
<1>8. SumTo(e, n) = 0
  BY <1>2, SumZero
<1>9. Owed(v) = lma_held[v] + SumTo(h, n)
  BY <1>1, <1>2 DEF Owed
<1>10. lma_held[v] \in Nat
  BY DEF TypeOK
<1> QED BY <1>5, <1>7, <1>8, <1>9, <1>10

\* a readers are added to the row of v, b to those of its chunk j, and c and d
\* to what clients hold of them: the place where readers are counted takes all
Moved(v, j, a, b, c, d) ==
  /\ vctr'[v].is_lma = vctr[v].is_lma
  /\ vctr[v].is_lma => a >= c + d
  /\ ~vctr[v].is_lma => b >= d /\ c = 0
  /\ vctr'[v].num_readers = vctr[v].num_readers + a
  /\ lma_held'[v] = lma_held[v] + c
  /\ \A i \in ChnkIdxs :
       /\ chnk'[<<v, i>>].num_readers =
            chnk[<<v, i>>].num_readers + (IF i = j THEN b ELSE 0)
       /\ held'[<<v, i>>] = held[<<v, i>>] + (IF i = j THEN d ELSE 0)

(* The balance of one vector.                                              *)
LEMMA Balance ==
  ASSUME TypeOK, TypeOK', NEW v \in Uqids, Covered(v), NEW j \in ChnkIdxs,
         NEW a \in Int, NEW b \in Int, NEW c \in Int, NEW d \in Int,
         Moved(v, j, a, b, c, d)
  PROVE  Covered(v)'
<1> USE DEF Moved
<1>1. /\ vctr[v].num_readers \in Nat /\ lma_held[v] \in Nat /\ lma_held'[v] \in Nat
  BY DEF TypeOK, VctrVal
<1>2. ASSUME NEW i \in ChnkIdxs
      PROVE  /\ chnk[<<v, i>>].num_readers \in Nat /\ held[<<v, i>>] \in Nat
             /\ held'[<<v, i>>] \in Nat
  <2>1. <<v, i>> \in Keys
    BY KeyParts
  <2> QED BY <2>1 DEF TypeOK, ChnkVal
<1>3. CASE vctr[v].is_lma
  <2>1. lma_held'[v] <= lma_held[v] + c
    BY <1>1
  <2>2. \A i \in ChnkIdxs : held'[<<v, i>>] <= held[<<v, i>>] + (IF i = j THEN d ELSE 0)
    BY <1>2
  <2>3. Owed(v) \in Int /\ Owed(v)' \in Int /\ Owed(v)' <= Owed(v) + c + d
    BY <2>1, <2>2, OwedMoves
  <2>4. vctr[v].num_readers >= Owed(v)
    BY <1>3 DEF Covered
  <2>5. vctr'[v].num_readers >= Owed(v)'
    BY <1>1, <1>3, <2>3, <2>4
  <2> QED BY <1>3, <2>5 DEF Covered
<1>4. CASE ~vctr[v].is_lma
  <2>1. lma_held[v] = 0 /\ \A i \in ChnkIdxs : chnk[<<v, i>>].num_readers >= held[<<v, i>>]
    BY <1>4 DEF Covered
  <2>2. lma_held'[v] = 0
    BY <1>4, <2>1
  <2>3. \A i \in ChnkIdxs : chnk'[<<v, i>>].num_readers >= held'[<<v, i>>]
    BY <1>2, <1>4, <2>1
  <2> QED BY <1>4, <2>2, <2>3 DEF Covered
<1> QED BY <1>3, <1>4

(* A vector that no client holds anything of has enough readers counted.   *)
LEMMA NothingOwed ==
  ASSUME TypeOK', NEW v \in Uqids, lma_held'[v] = 0,
         \A i \in ChnkIdxs : held'[<<v, i>>] = 0
  PROVE  Covered(v)'
<1>1. PICK n \in Nat : n = MaxChnks
  BY BoundsAssumption DEF BoundsAssumption
<1>2. PICK g, e : /\ g = [i \in 1..n |-> 0]
                  /\ e = [i \in 1..n |-> held'[<<v, i - 1>>]]
  OBVIOUS
<1>3. \A i \in 1..n : i - 1 \in ChnkIdxs
  BY <1>1 DEF ChnkIdxs
<1>4. e = g
  BY <1>2, <1>3
<1>6. SumTo(g, n) = 0
  BY <1>2, SumZero
<1>7. Owed(v)' = 0
  <2>1. Owed(v)' = lma_held'[v] + SumTo(e, n)
    BY <1>1, <1>2 DEF Owed
  <2> QED BY <1>4, <1>6, <2>1
<1>8. vctr'[v].num_readers \in Nat
  BY DEF TypeOK, VctrVal
<1>9. \A i \in ChnkIdxs : chnk'[<<v, i>>].num_readers \in Nat
  BY KeyParts DEF TypeOK, ChnkVal
<1> QED BY <1>7, <1>8, <1>9 DEF Covered

\* the readers of v's row, and what the client holds of it, move by a and c
RowMoves(v, a, c) ==
  \A u \in Uqids :
    /\ vctr'[u].is_lma = vctr[u].is_lma
    /\ vctr'[u].num_readers = vctr[u].num_readers + (IF u = v THEN a ELSE 0)
    /\ lma_held'[u] = lma_held[u] + (IF u = v THEN c ELSE 0)

\* those of its chunk j by b and d
ChnkMoves(v, j, b, d) ==
  \A k \in Keys :
    /\ chnk'[k].num_readers = chnk[k].num_readers + (IF k = <<v, j>> THEN b ELSE 0)
    /\ held'[k] = held[k] + (IF k = <<v, j>> THEN d ELSE 0)

(* A step of one reader: on the row of v, with a and c, or on its chunk j, *)
(* with b and d.                                                           *)
LEMMA ReaderSteps ==
  ASSUME TypeOK, TypeOK', UqidsGiven, ReadersInv, NEW v \in vctrs, NEW j \in ChnkIdxs,
         NEW a \in Int, NEW b \in Int, NEW c \in Int, NEW d \in Int,
         UNCHANGED <<g_vctr_uqid, vctrs, half_deleted, chnks>>,
         b # 0 => <<v, j>> \in chnks,
         vctr[v].is_lma => a >= c + d, ~vctr[v].is_lma => b >= d /\ c = 0,
         RowMoves(v, a, c), ChnkMoves(v, j, b, d)
  PROVE  ReadersInv'
<1> USE DEF RowMoves, ChnkMoves
<1>0. /\ v \in Uqids /\ v <= g_vctr_uqid
      /\ \A u \in Uqids : vctr[u].num_readers \in Nat /\ lma_held[u] \in Nat
      /\ \A k \in Keys : chnk[k].num_readers \in Nat /\ held[k] \in Nat
  BY DEF TypeOK, UqidsGiven, VctrVal, ChnkVal
<1>1. ASSUME NEW u \in Live' PROVE Covered(u)'
  <2>0. u \in Uqids /\ Covered(u) /\ vctr'[u].is_lma = vctr[u].is_lma
    BY DEF Live, TypeOK, ReadersInv
  <2>1. CASE u = v
    <3>1. /\ vctr'[v].num_readers = vctr[v].num_readers + a
          /\ lma_held'[v] = lma_held[v] + c
      BY <1>0
    <3>2. ASSUME NEW i \in ChnkIdxs
          PROVE  /\ chnk'[<<v, i>>].num_readers =
                      chnk[<<v, i>>].num_readers + (IF i = j THEN b ELSE 0)
                 /\ held'[<<v, i>>] = held[<<v, i>>] + (IF i = j THEN d ELSE 0)
      <4>1. PICK k \in Keys : k = <<v, i>>
        BY <1>0, KeyParts
      <4>2. k = <<v, j>> <=> i = j
        BY <4>1
      <4>3. /\ chnk'[k].num_readers = chnk[k].num_readers + (IF i = j THEN b ELSE 0)
            /\ held'[k] = held[k] + (IF i = j THEN d ELSE 0)
        BY <4>2
      <4> QED BY <4>1, <4>3
    <3>3. Moved(v, j, a, b, c, d)
      BY <2>0, <2>1, <3>1, <3>2 DEF Moved
    <3> QED BY <1>0, <2>0, <2>1, <3>3, Balance
  <2>2. CASE u # v
    <3>1. PICK z \in Int : z = 0
      OBVIOUS
    <3>2. /\ vctr'[u].num_readers = vctr[u].num_readers + z
          /\ lma_held'[u] = lma_held[u] + z /\ z >= z + z /\ z >= z
      BY <1>0, <2>0, <2>2, <3>1
    <3>3. ASSUME NEW i \in ChnkIdxs
          PROVE  /\ chnk'[<<u, i>>].num_readers =
                      chnk[<<u, i>>].num_readers + (IF i = j THEN z ELSE 0)
                 /\ held'[<<u, i>>] = held[<<u, i>>] + (IF i = j THEN z ELSE 0)
      <4>1. <<u, i>> \in Keys /\ <<u, i>> # <<v, j>>
        BY <2>0, <2>2, KeyParts
      <4> QED BY <1>0, <3>1, <4>1
    <3>4. Moved(u, j, z, z, z, z)
      BY <2>0, <3>1, <3>2, <3>3 DEF Moved
    <3> QED BY <2>0, <3>4, Balance
  <2> QED BY <2>1, <2>2
<1>2. ASSUME NEW k \in Keys, k \notin chnks' PROVE chnk'[k].num_readers = 0
  BY <1>0, <1>2 DEF ReadersInv
<1>3. ASSUME NEW k \in Keys, k[1] > g_vctr_uqid' PROVE held'[k] = 0
  <2>1. k # <<v, j>>
    BY <1>0, <1>3 DEF TypeOK, Uqids
  <2> QED BY <1>0, <1>3, <2>1 DEF ReadersInv
<1>4. ASSUME NEW u \in Uqids, u > g_vctr_uqid' PROVE lma_held'[u] = 0
  <2>1. u # v
    BY <1>0, <1>4 DEF TypeOK, Uqids
  <2> QED BY <1>0, <1>4, <2>1 DEF ReadersInv
<1> QED BY <1>1, <1>2, <1>3, <1>4 DEF ReadersInv

(* The readers in the rows the steps of vctr_lma_access.c make.            *)
LEMMA RowReaders ==
  ASSUME NEW x \in VctrVal, NEW b, NEW n
  PROVE  /\ get_lma_X_nX(x).num_readers = x.num_readers + 1
         /\ unget_lma_X_nX(x).num_readers = x.num_readers - 1
         /\ [x EXCEPT !.X = b, !.num_writers = n].num_readers = x.num_readers
         /\ [x EXCEPT !.num_writers = n, !.X = b].num_readers = x.num_readers
         /\ get_lma_X_nX(x).is_lma = x.is_lma /\ unget_lma_X_nX(x).is_lma = x.is_lma
         /\ [x EXCEPT !.X = b, !.num_writers = n].is_lma = x.is_lma
         /\ [x EXCEPT !.num_writers = n, !.X = b].is_lma = x.is_lma
  BY DEF VctrVal, get_lma_X_nX, unget_lma_X_nX

(* A step on the row of v alone.                                           *)
LEMMA RowSteps ==
  ASSUME TypeOK, TypeOK', UqidsGiven, ReadersInv, NEW v \in vctrs,
         NEW y, vctr' = [vctr EXCEPT ![v] = y] \/ (vctr' = vctr /\ y = vctr[v]),
         NEW a \in Int, NEW c \in Int, NEW d \in Int, NEW j \in ChnkIdxs,
         UNCHANGED <<g_vctr_uqid, vctrs, half_deleted, chnks>>,
         \A k \in Keys : chnk'[k].num_readers = chnk[k].num_readers,
         y.is_lma = vctr[v].is_lma, y.num_readers = vctr[v].num_readers + a, a >= c + d,
         vctr[v].is_lma \/ (c = 0 /\ d = 0),
         lma_held' = [lma_held EXCEPT ![v] = @ + c] \/ (lma_held' = lma_held /\ c = 0),
         held' = [held EXCEPT ![<<v, j>>] = @ + d] \/ (held' = held /\ d = 0)
  PROVE  ReadersInv'
<1>0. /\ v \in Uqids /\ \A k \in Keys : chnk[k].num_readers \in Nat /\ held[k] \in Nat
      /\ \A u \in Uqids : vctr[u].num_readers \in Nat /\ lma_held[u] \in Nat
  BY DEF TypeOK, VctrVal, ChnkVal
<1>1. RowMoves(v, a, c)
  <2> SUFFICES ASSUME NEW u \in Uqids
               PROVE  /\ vctr'[u].is_lma = vctr[u].is_lma
                      /\ vctr'[u].num_readers = vctr[u].num_readers + (IF u = v THEN a ELSE 0)
                      /\ lma_held'[u] = lma_held[u] + (IF u = v THEN c ELSE 0)
    BY DEF RowMoves
  <2>1. vctr'[u] = IF u = v THEN y ELSE vctr[u]
    BY DEF TypeOK
  <2>2. lma_held'[u] = IF u = v THEN lma_held[u] + c ELSE lma_held[u]
    BY <1>0 DEF TypeOK
  <2> QED BY <1>0, <2>1, <2>2
<1>2. PICK b \in Int : b = 0
  OBVIOUS
<1>3. ChnkMoves(v, j, b, d)
  <2> SUFFICES ASSUME NEW k \in Keys
               PROVE  /\ chnk'[k].num_readers =
                           chnk[k].num_readers + (IF k = <<v, j>> THEN b ELSE 0)
                      /\ held'[k] = held[k] + (IF k = <<v, j>> THEN d ELSE 0)
    BY DEF ChnkMoves
  <2>1. held'[k] = IF k = <<v, j>> THEN held[k] + d ELSE held[k]
    <3>1. CASE held' = [held EXCEPT ![<<v, j>>] = @ + d]
      BY <3>1 DEF TypeOK
    <3>2. CASE held' = held /\ d = 0
      BY <1>0, <3>2
    <3> QED BY <3>1, <3>2
  <2> QED BY <1>0, <1>2, <2>1
<1>4. /\ vctr[v].is_lma => a >= c + d
      /\ ~vctr[v].is_lma => b >= d /\ c = 0
      /\ b # 0 => <<v, j>> \in chnks
  BY <1>2
<1> QED BY <1>1, <1>3, <1>4, ReaderSteps

(* A step on a chunk alone, of a vector without a linear file.             *)
LEMMA ChnkSteps ==
  ASSUME TypeOK, TypeOK', UqidsGiven, ReadersInv, NEW v \in vctrs, NEW j \in ChnkIdxs,
         NEW y, chnk' = [chnk EXCEPT ![<<v, j>>] = y],
         NEW b \in Int, NEW d \in Int, <<v, j>> \in chnks, ~vctr[v].is_lma,
         UNCHANGED <<g_vctr_uqid, vctrs, vctr, half_deleted, chnks, lma_held>>,
         y.num_readers = chnk[<<v, j>>].num_readers + b, b >= d,
         held' = [held EXCEPT ![<<v, j>>] = @ + d] \/ (held' = held /\ d = 0)
  PROVE  ReadersInv'
<1>0. /\ v \in Uqids /\ \A k \in Keys : chnk[k].num_readers \in Nat /\ held[k] \in Nat
      /\ \A u \in Uqids : vctr[u].num_readers \in Nat /\ lma_held[u] \in Nat
  BY DEF TypeOK, VctrVal, ChnkVal
<1>1. PICK a \in Int, c \in Int : a = 0 /\ c = 0
  OBVIOUS
<1>2. RowMoves(v, a, c)
  BY <1>0, <1>1 DEF RowMoves
<1>3. ChnkMoves(v, j, b, d)
  <2> SUFFICES ASSUME NEW k \in Keys
               PROVE  /\ chnk'[k].num_readers =
                           chnk[k].num_readers + (IF k = <<v, j>> THEN b ELSE 0)
                      /\ held'[k] = held[k] + (IF k = <<v, j>> THEN d ELSE 0)
    BY DEF ChnkMoves
  <2>1. held'[k] = IF k = <<v, j>> THEN held[k] + d ELSE held[k]
    <3>1. CASE held' = [held EXCEPT ![<<v, j>>] = @ + d]
      BY <3>1 DEF TypeOK
    <3>2. CASE held' = held /\ d = 0
      BY <1>0, <3>2
    <3> QED BY <3>1, <3>2
  <2>2. chnk'[k] = IF k = <<v, j>> THEN y ELSE chnk[k]
    BY DEF TypeOK
  <2> QED BY <1>0, <2>1, <2>2
<1>4. vctr[v].is_lma => a >= c + d
  OBVIOUS
<1>5. ~vctr[v].is_lma => b >= d /\ c = 0
  BY <1>1
<1> QED BY <1>2, <1>3, <1>4, <1>5, ReaderSteps

(* Getting, giving back, and writing.                                      *)
LEMMA AccessReaders ==
  ASSUME TypeOK, TypeOK', UqidsGiven, ReadersInv, AccessNext
  PROVE  ReadersInv'
<1>0. /\ \A v \in Uqids : vctr[v] \in VctrVal
      /\ \A k \in Keys : chnk[k] \in ChnkVal
  BY DEF TypeOK
<1>z. PICK none \in Int, one \in Int, less \in Int : none = 0 /\ one = 1 /\ less = -1
  OBVIOUS
<1>i. 0 \in ChnkIdxs
  BY BoundsAssumption DEF BoundsAssumption, ChnkIdxs
<1>1. CASE VctrGetChunk
  <2>1. PICK v \in Uqids, i \in ChnkIdxs : vctr_get_chunk(v, i)
    BY <1>1 DEF VctrGetChunk
  <2>2. PICK y : y = chnk_get_data(<<v, i>>)
    OBVIOUS
  <2>3. /\ v \in vctrs /\ ~vctr[v].is_lma /\ <<v, i>> \in chnks
        /\ chnk' = [chnk EXCEPT ![<<v, i>>] = y]
        /\ UNCHANGED <<g_vctr_uqid, vctrs, vctr, half_deleted, chnks, lma_held>>
        /\ held' = [held EXCEPT ![<<v, i>>] = @ + 1] \/ held' = held
    BY <2>1, <2>2, Zenon DEF vctr_get_chunk, chnk_is, vctrTable
  <2>4. y.num_readers = chnk[<<v, i>>].num_readers + one
    BY <1>z, <2>2, KeyParts, GetDataCounts
  <2>5. PICK d \in Int :
          /\ one >= d
          /\ held' = [held EXCEPT ![<<v, i>>] = @ + d] \/ (held' = held /\ d = 0)
    BY <1>z, <2>3
  <2> QED BY <2>3, <2>4, <2>5, ChnkSteps
<1>2. CASE ChnkIncrReaders
  <2>1. PICK v \in Uqids, i \in ChnkIdxs : chnk_incr_num_readers(v, i)
    BY <1>2 DEF ChnkIncrReaders
  <2>2. PICK k \in Keys : k = <<v, i>>
    BY KeyParts
  <2>3. PICK r, y : r = chnk[k].num_readers + 1 /\ y = [chnk[k] EXCEPT !.num_readers = r]
    OBVIOUS
  <2>4. /\ v \in vctrs /\ ~vctr[v].is_lma /\ <<v, i>> \in chnks
        /\ chnk' = [chnk EXCEPT ![<<v, i>>] = y]
        /\ UNCHANGED <<g_vctr_uqid, vctrs, vctr, half_deleted, chnks, lma_held>>
        /\ held' = [held EXCEPT ![<<v, i>>] = @ + one]
    BY <1>z, <2>1, <2>2, <2>3 DEF chnk_incr_num_readers, chnk_is, vctrTable
  <2>5. y.num_readers = chnk[<<v, i>>].num_readers + one
    BY <1>0, <1>z, <2>2, <2>3, CountFields
  <2>6. one >= one
    BY <1>z
  <2> QED BY <1>z, <2>4, <2>5, <2>6, ChnkSteps
<1>3. CASE VctrGetChunkLma
  <2>1. PICK v \in Uqids : \E i \in AskedLma(v) : vctr_get_chunk_lma(v, i)
    BY <1>3 DEF VctrGetChunkLma
  <2>2. PICK i \in AskedLma(v) : vctr_get_chunk_lma(v, i)
    BY <2>1
  <2>3. PICK y : y = get_lma_X_nX(vctr[v])
    OBVIOUS
  <2>4. /\ v \in vctrs /\ vctr[v].is_lma /\ vctr' = [vctr EXCEPT ![v] = y]
        /\ UNCHANGED <<g_vctr_uqid, vctrs, half_deleted, chnks, chnk, lma_held>>
        /\ held' = [held EXCEPT ![<<v, i>>] = @ + 1] \/ held' = held
    BY <2>2, <2>3, Zenon DEF vctr_get_chunk_lma, chnkTable
  <2>5. y.num_readers = vctr[v].num_readers + one /\ y.is_lma = vctr[v].is_lma
    BY <1>0, <1>z, <2>3, RowReaders
  <2>6. PICK j \in ChnkIdxs, d \in Int :
          /\ one >= none + d
          /\ held' = [held EXCEPT ![<<v, j>>] = @ + d] \/ (held' = held /\ d = 0)
    <3>1. CASE i \in ChnkIdxs
      BY <1>z, <2>4, <3>1
    <3>2. CASE i \notin ChnkIdxs
      <4>1. <<v, i>> \notin Keys
        BY <3>2 DEF Keys
      <4>2. held' = held
        BY <2>4, <4>1 DEF TypeOK
      <4> QED BY <1>i, <1>z, <4>2
    <3> QED BY <3>1, <3>2
  <2> QED BY <1>z, <2>4, <2>5, <2>6, RowSteps
<1>4. CASE VctrUngetChunk
  <2>1. PICK v \in Uqids, i \in ChnkIdxs : vctr_unget_chunk(v, i)
    BY <1>4 DEF VctrUngetChunk
  <2>2. PICK k \in Keys : k = <<v, i>>
    BY KeyParts
  <2>3. /\ v \in vctrs /\ held' = [held EXCEPT ![<<v, i>>] = @ - 1]
        /\ UNCHANGED <<g_vctr_uqid, vctrs, half_deleted, chnks, lma_held>>
    BY <2>1, <2>2, Zenon DEF vctr_unget_chunk
  <2>4. held' = [held EXCEPT ![<<v, i>>] = @ + less]
    <3>1. held[<<v, i>>] \in Nat
      BY <2>2 DEF TypeOK
    <3> QED BY <1>z, <2>3, <3>1
  <2>5. CASE vctr[v].is_lma
    <3>1. PICK y : y = unget_lma_X_nX(vctr[v])
      OBVIOUS
    <3>2. vctr' = [vctr EXCEPT ![v] = y] /\ chnk' = chnk
      BY <2>1, <2>5, <3>1 DEF vctr_unget_chunk
    <3>3. y.num_readers = vctr[v].num_readers + less /\ y.is_lma = vctr[v].is_lma
      BY <1>0, <1>z, <3>1, RowReaders DEF VctrVal
    <3>4. less >= none + less
      BY <1>z
    <3> QED BY <1>z, <2>3, <2>4, <2>5, <3>2, <3>3, <3>4, RowSteps
  <2>6. CASE ~vctr[v].is_lma
    <3>1. PICK r, y : r = chnk[k].num_readers - 1 /\ y = [chnk[k] EXCEPT !.num_readers = r]
      OBVIOUS
    <3>2. /\ vctr' = vctr /\ chnk' = [chnk EXCEPT ![<<v, i>>] = y]
          /\ <<v, i>> \in chnks
      BY <2>1, <2>2, <2>6, <3>1 DEF vctr_unget_chunk, chnk_is
    <3>3. y.num_readers = chnk[<<v, i>>].num_readers + less
      BY <1>0, <1>z, <2>2, <3>1, CountFields DEF ChnkVal
    <3>4. less >= less
      BY <1>z
    <3> QED BY <2>3, <2>4, <2>6, <3>2, <3>3, <3>4, ChnkSteps
  <2> QED BY <2>5, <2>6
<1>5. CASE VctrGet1
  <2>1. PICK v \in Uqids, i \in ChnkIdxs : vctr_get1(v, i)
    BY <1>5 DEF VctrGet1
  <2>2. PICK k \in Keys : k = <<v, i>>
    BY KeyParts
  <2>3. /\ v \in vctrs
        /\ UNCHANGED <<g_vctr_uqid, vctrs, half_deleted, chnks, held, lma_held>>
    BY <2>1, Zenon DEF vctr_get1, client
  <2>4. CASE vctr[v].is_lma
    <3>1. PICK y : y = get_lma_X_nX(vctr[v])
      OBVIOUS
    <3>2. vctr' = [vctr EXCEPT ![v] = y] /\ chnk' = chnk
      BY <2>1, <2>4, <3>1 DEF vctr_get1
    <3>3. y.num_readers = vctr[v].num_readers + one /\ y.is_lma = vctr[v].is_lma
      BY <1>0, <1>z, <3>1, RowReaders
    <3>4. one >= none + none
      BY <1>z
    <3> QED BY <1>z, <2>3, <2>4, <3>2, <3>3, <3>4, RowSteps
  <2>5. CASE ~vctr[v].is_lma
    <3>1. PICK c, e : c = chnk_get_data(k) /\ e = [c EXCEPT !.num_readers = @ - 1]
      OBVIOUS
    <3>2. PICK y : /\ y = c \/ y = e
                   /\ chnk' = [chnk EXCEPT ![<<v, i>>] = y]
      BY <2>1, <2>2, <2>5, <3>1, Zenon DEF vctr_get1
    <3>3. vctr' = vctr /\ <<v, i>> \in chnks
      BY <2>1, <2>5, Zenon DEF vctr_get1, chnk_is
    <3>4. c.num_readers = chnk[k].num_readers + one /\ e.num_readers = chnk[k].num_readers + none
      BY <1>0, <1>z, <3>1, GetDataCounts DEF SameRow, ChnkVal
    <3>5. PICK b \in Int : y.num_readers = chnk[<<v, i>>].num_readers + b /\ b >= none
      BY <1>z, <2>2, <3>2, <3>4
    <3> QED BY <1>z, <2>3, <2>5, <3>2, <3>3, <3>5, ChnkSteps
  <2> QED BY <2>4, <2>5
<1>6. CASE VctrGetLmaRead
  <2>1. PICK v \in Uqids : vctr_get_lma_read(v)
    BY <1>6 DEF VctrGetLmaRead
  <2>2. PICK y : y = get_lma_X_nX(vctr[v])
    OBVIOUS
  <2>3. /\ v \in vctrs /\ vctr[v].is_lma /\ vctr' = [vctr EXCEPT ![v] = y]
        /\ UNCHANGED <<g_vctr_uqid, vctrs, half_deleted, chnks, chnk, held>>
        /\ lma_held' = [lma_held EXCEPT ![v] = @ + one]
    BY <1>z, <2>1, <2>2, Zenon DEF vctr_get_lma_read, chnkTable
  <2>4. /\ y.num_readers = vctr[v].num_readers + one /\ one >= one + none
        /\ y.is_lma = vctr[v].is_lma
    BY <1>0, <1>z, <2>2, RowReaders
  <2> QED BY <1>i, <1>z, <2>3, <2>4, RowSteps
<1>7. CASE VctrUngetLmaRead
  <2>1. PICK v \in Uqids : vctr_unget_lma_read(v)
    BY <1>7 DEF VctrUngetLmaRead
  <2>2. PICK y : y = unget_lma_X_nX(vctr[v])
    OBVIOUS
  <2>3. /\ v \in vctrs /\ vctr[v].is_lma /\ vctr' = [vctr EXCEPT ![v] = y]
        /\ UNCHANGED <<g_vctr_uqid, vctrs, half_deleted, chnks, chnk, held>>
        /\ lma_held' = [lma_held EXCEPT ![v] = @ - 1]
    BY <2>1, <2>2, Zenon DEF vctr_unget_lma_read, chnkTable
  <2>4. lma_held' = [lma_held EXCEPT ![v] = @ + less]
    BY <1>z, <2>3 DEF TypeOK
  <2>5. /\ y.num_readers = vctr[v].num_readers + less /\ less >= less + none
        /\ y.is_lma = vctr[v].is_lma
    BY <1>0, <1>z, <2>2, RowReaders DEF VctrVal
  <2> QED BY <1>i, <1>z, <2>3, <2>4, <2>5, RowSteps
<1>8. CASE GetLmaWrite
  <2>1. PICK v \in Uqids : get_lma_write(v)
    BY <1>8 DEF GetLmaWrite
  <2>2. PICK y : /\ y = vctr[v] \/ y = [vctr[v] EXCEPT !.X = TRUE, !.num_writers = 1]
                 /\ vctr' = [vctr EXCEPT ![v] = y] \/ (vctr' = vctr /\ y = vctr[v])
    BY <2>1 DEF get_lma_write
  <2> DEFINE Dropped(k) == [chnk[k] EXCEPT !.l1_mem = FALSE, !.l1_data = {}, !.l2_exists = FALSE]
  <2>3. PICK K : /\ v \in vctrs
                 /\ UNCHANGED <<g_vctr_uqid, vctrs, half_deleted, chnks, held, lma_held>>
                 /\ chnk' = [k \in Keys |-> IF k \in K THEN Dropped(k) ELSE chnk[k]]
    BY <2>1, Zenon DEF get_lma_write, client
  <2>4. \A k \in Keys : SameRow(chnk[k], Dropped(k))
    BY <1>0, CountFields
  <2> HIDE DEF Dropped
  <2>5. \A k \in Keys : chnk'[k].num_readers = chnk[k].num_readers
    BY <2>3, <2>4 DEF SameRow
  <2>6. /\ y.num_readers = vctr[v].num_readers + none /\ none >= none + none
        /\ y.is_lma = vctr[v].is_lma
    <3>1. vctr[v] \in VctrVal
      BY <1>0, <2>1
    <3>2. PICK z : z = [vctr[v] EXCEPT !.X = TRUE, !.num_writers = 1]
      OBVIOUS
    <3>3. z.num_readers = vctr[v].num_readers /\ z.is_lma = vctr[v].is_lma
      BY <3>1, <3>2, RowReaders
    <3>5. y.num_readers = vctr[v].num_readers /\ y.is_lma = vctr[v].is_lma
      BY <2>2, <3>2, <3>3
    <3>4. vctr[v].num_readers \in Nat
      BY <3>1 DEF VctrVal
    <3> QED BY <1>z, <3>4, <3>5
  <2> QED BY <1>i, <1>z, <2>2, <2>3, <2>5, <2>6, RowSteps
<1>9. CASE UngetLmaWrite
  <2>1. PICK v \in Uqids : vctr_unget_lma_write(v)
    BY <1>9 DEF UngetLmaWrite
  <2>2. PICK y : y = [vctr[v] EXCEPT !.num_writers = 0, !.X = FALSE]
    OBVIOUS
  <2> DEFINE Stale(k) == [chnk[k] EXCEPT !.l1_data = {}]
  <2>3. /\ v \in vctrs /\ vctr' = [vctr EXCEPT ![v] = y]
        /\ UNCHANGED <<g_vctr_uqid, vctrs, half_deleted, chnks, held, lma_held>>
        /\ chnk' = [k \in Keys |-> IF k[1] = v THEN Stale(k) ELSE chnk[k]]
    BY <2>1, <2>2 DEF vctr_unget_lma_write, client
  <2>4. \A k \in Keys : SameRow(chnk[k], Stale(k))
    BY <1>0, CountFields
  <2> HIDE DEF Stale
  <2>5. \A k \in Keys : chnk'[k].num_readers = chnk[k].num_readers
    BY <2>3, <2>4 DEF SameRow
  <2>6. /\ y.num_readers = vctr[v].num_readers + none /\ none >= none + none
        /\ y.is_lma = vctr[v].is_lma
    <3>1. vctr[v] \in VctrVal
      BY <1>0, <2>1
    <3>2. y.num_readers = vctr[v].num_readers /\ y.is_lma = vctr[v].is_lma
      BY <2>2, <3>1, RowReaders
    <3>3. vctr[v].num_readers \in Nat
      BY <3>1 DEF VctrVal
    <3> QED BY <1>z, <3>2, <3>3
  <2> QED BY <1>i, <1>z, <2>2, <2>3, <2>5, <2>6, RowSteps
<1> QED BY <1>1, <1>2, <1>3, <1>4, <1>5, <1>6, <1>7, <1>8, <1>9 DEF AccessNext

-----------------------------------------------------------------------------
(* The other operations: those that give no readers and take none.         *)

\* the readers of chunks, and of vectors that remain, stay; others are new
ChnkReadersStay == \A k \in Keys : chnk'[k].num_readers = chnk[k].num_readers
RowReadersStay ==
  \A v \in Live' : \/ v \in Live /\ vctr'[v].num_readers = vctr[v].num_readers
                   \/ v > g_vctr_uqid

(* They keep ReadersInv.                                                   *)
LEMMA QuietReaders ==
  ASSUME TypeOK, TypeOK', ReadersInv, ~MovesInUse, g_vctr_uqid <= g_vctr_uqid',
         UNCHANGED <<held, lma_held>>, ReadersKept, ChnkReadersStay, RowReadersStay
  PROVE  ReadersInv'
<1>0. /\ \A k \in Keys : chnk[k].num_readers \in Nat /\ held[k] \in Nat
      /\ \A v \in Uqids : vctr[v].num_readers \in Nat /\ lma_held[v] \in Nat
      /\ g_vctr_uqid \in Int /\ g_vctr_uqid' \in Int
  BY DEF TypeOK, VctrVal, ChnkVal
<1>1. ASSUME NEW v \in Live' PROVE Covered(v)'
  <2>0. v \in Uqids /\ v \in Int
    BY DEF Live, TypeOK, Uqids
  <2>1. CASE /\ v \in Live /\ vctr'[v].num_readers = vctr[v].num_readers
             /\ vctr'[v].is_lma = vctr[v].is_lma
    <3>1. PICK z \in Int, j \in ChnkIdxs : z = 0 /\ j = 0
      BY BoundsAssumption DEF BoundsAssumption, ChnkIdxs
    <3>2. /\ vctr'[v].num_readers = vctr[v].num_readers + z
          /\ lma_held'[v] = lma_held[v] + z /\ z >= z + z /\ z >= z
      BY <1>0, <2>0, <2>1, <3>1
    <3>3. ASSUME NEW i \in ChnkIdxs
          PROVE  /\ chnk'[<<v, i>>].num_readers =
                      chnk[<<v, i>>].num_readers + (IF i = j THEN z ELSE 0)
                 /\ held'[<<v, i>>] = held[<<v, i>>] + (IF i = j THEN z ELSE 0)
      <4>1. PICK k \in Keys : k = <<v, i>>
        BY <2>0, KeyParts
      <4>2. chnk'[k].num_readers = chnk[k].num_readers /\ held'[k] = held[k]
        BY DEF ChnkReadersStay
      <4> QED BY <1>0, <3>1, <4>1, <4>2
    <3>4. Covered(v)
      BY <2>1 DEF ReadersInv
    <3>5. Moved(v, j, z, z, z, z)
      BY <2>1, <3>1, <3>2, <3>3 DEF Moved
    <3> QED BY <2>0, <3>4, <3>5, Balance
  <2>2. CASE v \in Live /\ vctr'[v].is_lma # vctr[v].is_lma
    <3>1. ~(lma_held[v] > 0) /\ \A i \in ChnkIdxs : ~(held[<<v, i>>] > 0)
      BY <2>2 DEF MovesInUse
    <3>2. lma_held'[v] = 0
      BY <1>0, <2>0, <3>1
    <3>3. ASSUME NEW i \in ChnkIdxs PROVE held'[<<v, i>>] = 0
      <4>1. PICK k \in Keys : k = <<v, i>>
        BY <2>0, KeyParts
      <4> QED BY <1>0, <3>1, <4>1
    <3> QED BY <2>0, <3>2, <3>3, NothingOwed
  <2>3. CASE v > g_vctr_uqid
    <3>1. lma_held'[v] = 0
      BY <2>0, <2>3 DEF ReadersInv
    <3>2. ASSUME NEW i \in ChnkIdxs PROVE held'[<<v, i>>] = 0
      <4>1. PICK k \in Keys : k = <<v, i>>
        BY <2>0, KeyParts
      <4> QED BY <2>3, <4>1 DEF ReadersInv
    <3> QED BY <2>0, <3>1, <3>2, NothingOwed
  <2> QED BY <2>1, <2>2, <2>3 DEF RowReadersStay
<1>2. ASSUME NEW k \in Keys, k \notin chnks' PROVE chnk'[k].num_readers = 0
  <2>1. CASE k \in chnks
    BY <1>0, <1>2, <2>1 DEF ReadersKept, ChnkReadersStay
  <2>2. CASE k \notin chnks
    BY <2>2 DEF ReadersInv, ChnkReadersStay
  <2> QED BY <2>1, <2>2
<1>3. ASSUME NEW k \in Keys, k[1] > g_vctr_uqid' PROVE held'[k] = 0
  <2>1. k[1] \in Int
    BY KeyParts DEF Uqids
  <2> QED BY <1>0, <1>3, <2>1 DEF ReadersInv
<1>4. ASSUME NEW v \in Uqids, v > g_vctr_uqid' PROVE lma_held'[v] = 0
  BY <1>0, <1>4 DEF ReadersInv, Uqids
<1> QED BY <1>1, <1>2, <1>3, <1>4 DEF ReadersInv

(* A step that adds no vector, and leaves the access of the others alone.  *)
LEMMA LeftReaders ==
  ASSUME TypeOK, AccessLeft, vctrs' \subseteq vctrs, half_deleted \subseteq half_deleted'
  PROVE  RowReadersStay
  BY DEF AccessLeft, SameAccess, RowReadersStay, Live

(* Chunks whose rows are the same have the same readers.                   *)
LEMMA RowsReaders ==
  ASSUME SameRows
  PROVE  ChnkReadersStay
  BY DEF SameRows, SameRow, ChnkReadersStay

(* A chunk that is not in the table has no readers.                        *)
LEMMA AbsentReaders ==
  ASSUME TypeOK, ReadersInv, NEW v \in Uqids, NEW x \in VctrVal,
         NEW keys, keys \subseteq Keys, NEW c \in [Keys -> ChnkVal], NEW e, NEW m,
         StoreWithMemo(v, x, e, keys, c, m),
         \A k \in Keys : c[k].num_readers = IF k \in chnks THEN chnk[k].num_readers ELSE 0
  PROVE  ChnkReadersStay
<1>1. ASSUME NEW k \in Keys PROVE chnk'[k].num_readers = c[k].num_readers
  <2>1. PICK D : D = MemoDel(keys, c, v, x)
    OBVIOUS
  <2>2. chnk' = ChnkAfterDel(c, v, D)
    BY <2>1 DEF StoreWithMemo
  <2>3. D \subseteq ChnkIdxs /\ \A i \in D : c[<<v, i>>].num_readers = 0
    <3>1. x.min_chnk_idx \in Int /\ MemoMin(x) \in Int
      BY DEF VctrVal, MemoMin
    <3> QED BY <2>1, <3>1, KeyParts DEF MemoDel, Keys
  <2>4. /\ ~(k[1] = v /\ k[2] \in D) => chnk'[k] = c[k]
        /\ chnk'[k] \in {c[k], ZeroChnk}
    <3>1. PICK p : p = x.is_persist
      OBVIOUS
    <3>2. /\ ~(k[1] = v /\ k[2] \in D) => /\ ChnkAfterDel(c, v, D)[k] = c[k]
                                           /\ L2AfterDel(c, v, D, p)[k] = l2[k]
          /\ L2AfterDel(c, v, D, p)[k] \in {l2[k], NoFile}
          /\ ChnkAfterDel(c, v, D)[k] \in {c[k], ZeroChnk}
      BY <2>3, DelLeaves
    <3> QED BY <2>2, <3>2
  <2>5. k[1] = v /\ k[2] \in D => c[k].num_readers = 0
    BY <2>3, KeyParts
  <2>6. ZeroChnk.num_readers = 0
    BY DEF ZeroChnk
  <2> QED BY <2>4, <2>5, <2>6
<1>2. \A k \in Keys : k \notin chnks => chnk[k].num_readers = 0
  BY DEF ReadersInv
<1> QED BY <1>1, <1>2 DEF ChnkReadersStay

(* vctr_putn(), vctr_put_chunk() and vctr_eov().                           *)
LEMMA PutReadersStay ==
  ASSUME TypeOK, CopyInv, ReadersInv, VctrPutn \/ VctrPutChunk \/ VctrEov
  PROVE  ChnkReadersStay
<1>0. /\ \A v \in Uqids : vctr[v] \in VctrVal
      /\ chnks \subseteq Keys /\ chnk \in [Keys -> ChnkVal]
  BY DEF TypeOK
<1>00. \A k \in Keys : chnk[k].num_readers = IF k \in chnks THEN chnk[k].num_readers ELSE 0
  BY DEF ReadersInv
<1>1. CASE VctrPutn
  <2>1. PICK v \in Uqids, n \in 1..(MaxNumInChnk + 1) : vctr_putn(v, n)
    BY <1>1 DEF VctrPutn
  <2>2. PICK y, keys, c, m :
           /\ StoreWithMemo(v, y, FALSE, keys, c, m)
           /\ y \in VctrVal /\ keys \subseteq Keys /\ c \in [Keys -> ChnkVal]
           /\ \A k \in Keys : Filled_n(c, v, n, k)
    BY <2>1, PutnShape
  <2>3. ASSUME NEW k \in Keys
        PROVE  c[k].num_readers = IF k \in chnks THEN chnk[k].num_readers ELSE 0
    <3>1. Filled_n(c, v, n, k)
      BY <2>2
    <3>2. PICK S : S = SlotsFor(k[2], vctr[v].num_elements, n)
      OBVIOUS
    <3>3. \/ c[k] = chnk[k]
          \/ k \in chnks /\ c[k].num_readers = chnk[k].num_readers
          \/ k \notin chnks /\ c[k].num_readers = 0
      BY <3>1, <3>2 DEF Filled_n
    <3> QED BY <1>00, <3>3
  <2>4. PICK e : e = FALSE
    OBVIOUS
  <2>5. StoreWithMemo(v, y, e, keys, c, m)
    BY <2>2, <2>4
  <2> QED BY <2>2, <2>3, <2>5, AbsentReaders
<1>2. CASE VctrPutChunk
  <2>1. PICK v \in Uqids, n \in 1..MaxNumInChnk, s \in Steals : vctr_put_chunk(v, n, s)
    BY <1>2 DEF VctrPutChunk
  <2>2. PICK f : f = FALSE
    OBVIOUS
  <2> DEFINE x == vctr[v]
             i == IF x.num_elements = 0 THEN 0 ELSE x.max_chnk_idx + 1
             y == [x EXCEPT !.num_elements = @ + n, !.max_chnk_idx = i]
             keys == chnks \cup {<<v, i>>}
             d == [FreshChnk(x) EXCEPT !.num_elements = n, !.l1_data = 0..(n - 1)]
             c == [chnk EXCEPT ![<<v, i>>] = d]
             m == IF s THEN mem_used ELSE incr_mem_used(mem_used, 1)
             e == n < MaxNumInChnk /\ ~MemoFails(keys, c, v, y)
  <2>3. /\ v \in vctrs /\ ~x.is_eov /\ x.num_elements % MaxNumInChnk = 0 /\ i \in ChnkIdxs
        /\ \/ StoreWithMemo(v, x, f, chnks, chnk, mem_used)
           \/ StoreWithMemo(v, y, e, keys, c, m)
    BY <2>1, <2>2, Zenon DEF vctr_put_chunk
  <2>4. PutOk(v, y, keys, c) /\ <<v, i>> \notin chnks
    BY <2>3, PutChunkOk
  <2>5. d.num_readers = 0
    BY DEF FreshChnk, ZeroChnk
  <2> HIDE DEF d
  <2>6. ASSUME NEW k \in Keys
        PROVE  c[k].num_readers = IF k \in chnks THEN chnk[k].num_readers ELSE 0
    <3>1. c[k] = IF k = <<v, i>> THEN d ELSE chnk[k]
      BY <1>0
    <3> QED BY <1>00, <2>4, <2>5, <3>1
  <2> HIDE DEF x, i, y, keys, c, m, e
  <2>7. CASE StoreWithMemo(v, x, f, chnks, chnk, mem_used)
    BY <1>0, <1>00, <2>7, AbsentReaders DEF x
  <2>8. CASE StoreWithMemo(v, y, e, keys, c, m)
    <3>1. y \in VctrVal /\ keys \subseteq Keys /\ c \in [Keys -> ChnkVal]
      BY <2>4 DEF PutOk
    <3> QED BY <2>6, <2>8, <3>1, AbsentReaders
  <2> QED BY <2>3, <2>7, <2>8
<1>3. CASE VctrEov
  <2>1. PICK v \in Uqids : vctr_eov(v)
    BY <1>3 DEF VctrEov
  <2>2. PICK e : StoreWithMemo(v, vctr[v], e, chnks, chnk, mem_used)
    BY <2>1, Zenon DEF vctr_eov
  <2> QED BY <1>0, <1>00, <2>2, AbsentReaders
<1> QED BY <1>1, <1>2, <1>3

(* vctr_set_lma(): the chunks it puts have no readers, nor had their places.*)
LEMMA SetLmaReadersStay ==
  ASSUME TypeOK, CopyInv, ReadersInv, SetLma
  PROVE  ChnkReadersStay
<1>1. PICK v \in Uqids, n \in 1..MaxElems : vctr_set_lma(v, n)
  BY DEF SetLma
<1>2. v \in vctrs /\ vctr[v].num_elements = 0
  BY <1>1, Zenon DEF vctr_set_lma
<1>3. PICK low, top : LmaSet(v, n, low, top)
  BY <1>1, SetLmaShape
<1> SUFFICES ASSUME NEW k \in Keys PROVE chnk'[k].num_readers = chnk[k].num_readers
  BY DEF ChnkReadersStay
<1>4. CASE k[1] = v /\ k[2] \in low..top
  <2>1. chnk'[k].num_readers = 0
    BY <1>3, <1>4 DEF LmaSet
  <2>2. ~Reached(k)
    BY <1>2, <1>4 DEF Reached
  <2>3. k \notin chnks
    BY <2>2 DEF CopyInv, KeysReached
  <2> QED BY <2>1, <2>3 DEF ReadersInv
<1>5. CASE ~(k[1] = v /\ k[2] \in low..top)
  BY <1>3, <1>5 DEF LmaSet
<1> QED BY <1>4, <1>5

(* vctr_early_free().                                                      *)
LEMMA EarlyFreeReadersStay ==
  ASSUME TypeOK, VctrEarlyFree
  PROVE  ChnkReadersStay
<1>0. PICK v \in Uqids : \E ub \in EarlyFreeArgs(v) : vctr_early_free(v, ub)
  BY DEF VctrEarlyFree
<1>1. PICK ub \in EarlyFreeArgs(v) : vctr_early_free(v, ub)
  BY <1>0
<1>2. PICK D, top : EarlyFreed(v, D, top)
  BY <1>1, EarlyFreeShape DEF EarlyFreeArgs
<1> QED BY <1>2 DEF EarlyFreed, ChnkReadersStay

(* Deletions.                                                              *)
LEMMA DeletionReadersStay ==
  ASSUME TypeOK, Delete \/ Kill \/ BrkNnVec
  PROVE  /\ ChnkReadersStay /\ vctrs' \subseteq vctrs /\ half_deleted \subseteq half_deleted'
         /\ g_vctr_uqid' = g_vctr_uqid
<1>1. CASE UNCHANGED <<g_vctr_uqid, vctrs, rest>>
  BY <1>1 DEF rest, chnkTable, client, ChnkReadersStay
<1>2. ASSUME NEW v \in vctrs, NEW D, Deleted(v, D)
      PROVE  /\ ChnkReadersStay /\ vctrs' \subseteq vctrs
             /\ half_deleted \subseteq half_deleted' /\ g_vctr_uqid' = g_vctr_uqid
  <2>1. ChnkReadersStay
    BY <1>2 DEF Deleted, ChnkReadersStay
  <2> QED BY <1>2, <2>1 DEF Deleted
<1> QED BY <1>1, <1>2, DeletionShape

(* A new vector gets a uqid beyond the last one given.                     *)
LEMMA NewReaders ==
  ASSUME TypeOK, VctrAdd \/ AddWithNn
  PROVE  /\ RowReadersStay /\ g_vctr_uqid <= g_vctr_uqid'
<1>0. g_vctr_uqid \in Int /\ vctrs \subseteq Uqids
  BY DEF TypeOK
<1>1. CASE VctrAdd
  <2>1. PICK q \in Qtypes, memo \in MemoLens, kills \in {Never} \cup KillIgnores,
             frees \in {Never} \cup FreeIgnores : vctr_add(q, memo, kills, frees)
    BY <1>1 DEF VctrAdd
  <2>2. PICK u, y : u = g_vctr_uqid + 1 /\ y = NewVctr(q, memo, kills, frees)
    OBVIOUS
  <2>3. /\ \/ UNCHANGED <<vctrs, vctr>>
           \/ vctrs' = vctrs \cup {u} /\ vctr' = [vctr EXCEPT ![u] = y]
        /\ g_vctr_uqid' = u /\ half_deleted' = half_deleted
    BY <2>1, <2>2 DEF vctr_add, client
  <2>4. u > g_vctr_uqid
    BY <1>0, <2>2
  <2>5. ASSUME NEW v \in Live'
        PROVE  (v \in Live /\ vctr'[v].num_readers = vctr[v].num_readers) \/ v > g_vctr_uqid
    <3>1. v = u \/ v \in Live
      BY <2>3 DEF Live
    <3>2. v # u => vctr'[v] = vctr[v]
      BY <1>0, <2>3, <3>1 DEF TypeOK, Live
    <3> QED BY <2>4, <3>1, <3>2
  <2> QED BY <1>0, <2>2, <2>3, <2>5 DEF RowReadersStay
<1>2. CASE AddWithNn
  <2>1. PICK q \in Qtypes, memo \in MemoLens, kills \in {Never} \cup KillIgnores,
             frees \in {Never} \cup FreeIgnores : NewWithNn(q, memo, kills, frees)
    BY <1>2 DEF AddWithNn
  <2>2. PICK b, n : b = g_vctr_uqid + 1 /\ n = g_vctr_uqid + 2
    OBVIOUS
  <2>3. PICK p, r : /\ p = NewVctr(q, memo, kills, frees)
                    /\ r = NewVctr("BL", memo, kills, frees)
    OBVIOUS
  <2>4. /\ vctrs' = vctrs \cup {b, n} /\ g_vctr_uqid' = n
        /\ vctr' = Tied([vctr EXCEPT ![b] = p, ![n] = r], b, n)
        /\ half_deleted' = half_deleted
    BY <2>1, <2>2, <2>3 DEF NewWithNn, rest, client
  <2>5. b > g_vctr_uqid /\ n > g_vctr_uqid
    BY <1>0, <2>2
  <2>6. ASSUME NEW v \in Live'
        PROVE  (v \in Live /\ vctr'[v].num_readers = vctr[v].num_readers) \/ v > g_vctr_uqid
    <3>1. v \in {b, n} \/ v \in Live
      BY <2>4 DEF Live
    <3>2. v \notin {b, n} => vctr'[v] = vctr[v]
      BY <1>0, <2>4, <3>1 DEF TypeOK, Live, Tied
    <3> QED BY <2>5, <3>1, <3>2
  <2>7. RowReadersStay
    BY <2>6 DEF RowReadersStay
  <2>8. g_vctr_uqid <= g_vctr_uqid'
    <3>1. g_vctr_uqid' = g_vctr_uqid + 2
      BY <2>2, <2>4
    <3> QED BY <1>0, <3>1
  <2> QED BY <2>7, <2>8
<1> QED BY <1>1, <1>2

(* No operation but those on readers touches what clients hold.            *)
LEMMA ClientHolds ==
  ASSUME GrowNext \/ TierNext \/ LifeNext
  PROVE  UNCHANGED <<held, lma_held>>
<1>1. CASE GrowNext
  BY <1>1, Zenon DEF GrowNext, VctrAdd, VctrPutn, VctrPutChunk, VctrEov, VctrEarlyFree,
     vctr_add, vctr_putn, vctr_put_chunk, vctr_eov, vctr_early_free, client
<1>2. CASE TierNext
  BY <1>2, Zenon DEF TierNext, DropL1, DropL2, DropLma, MakeL1, MakeL2, L1ToL2, Unprefetch,
     ChnksToLma, LmaToChnks, SetLma, SetLmaFails, Append, drop_l1, drop_l2, drop_lma, make_l1,
     vctr_make_l2, make_l2, vctr_l1_to_l2, unprefetch, vctr_chnks_to_lma,
     vctr_lma_to_chnks, vctr_set_lma, set_lma_fails, vctr_append, client
<1>3. CASE LifeNext
  <2>1. ASSUME NEW x, NEW v, vctr_del(x, v) PROVE UNCHANGED <<held, lma_held>>
    BY <2>1, Zenon DEF vctr_del, rest, client
  <2>2. CASE Delete \/ Kill \/ BrkNnVec
    BY <2>1, <2>2, Zenon DEF Delete, Kill, BrkNnVec, delete, vctr_kill, vctr_brk_nn_vec,
       rest, client
  <2>3. CASE ~(Delete \/ Kill \/ BrkNnVec)
    BY <1>3, <2>3, Zenon DEF LifeNext, VctrPersist, VctrSetMemo, SetKillable, SetFreeable,
       SetError, SetNnVec, AddWithNn, vctr_persist, vctr_set_memo,
       vctr_set_num_kill_ignore, vctr_set_early_freeable, vctr_set_error, set_nn_vec,
       NewWithNn, rest, client
  <2> QED BY <2>2, <2>3
<1> QED BY <1>1, <1>2, <1>3

(* But for new vectors and deletions, nor which vectors there are.         *)
LEMMA SameVctrs ==
  ASSUME GrowNext \/ TierNext \/ LifeNext,
         ~(VctrAdd \/ AddWithNn \/ Delete \/ Kill \/ BrkNnVec)
  PROVE  UNCHANGED <<g_vctr_uqid, vctrs, half_deleted>>
<1>1. CASE GrowNext
  BY <1>1, Zenon DEF GrowNext, VctrPutn, VctrPutChunk, VctrEov, VctrEarlyFree,
     vctr_putn, vctr_put_chunk, vctr_eov, vctr_early_free, client
<1>2. CASE TierNext
  BY <1>2, Zenon DEF TierNext, DropL1, DropL2, DropLma, MakeL1, MakeL2, L1ToL2, Unprefetch,
     ChnksToLma, LmaToChnks, SetLma, SetLmaFails, Append, drop_l1, drop_l2, drop_lma, make_l1,
     vctr_make_l2, make_l2, vctr_l1_to_l2, unprefetch, vctr_chnks_to_lma,
     vctr_lma_to_chnks, vctr_set_lma, set_lma_fails, vctr_append, vctrTable, client
<1>3. CASE LifeNext
  BY <1>3, Zenon DEF LifeNext, VctrPersist, VctrSetMemo, SetKillable, SetFreeable,
     SetError, SetNnVec, vctr_persist, vctr_set_memo, vctr_set_num_kill_ignore,
     vctr_set_early_freeable, vctr_set_error, set_nn_vec, rest, client
<1> QED BY <1>1, <1>2, <1>3

(* Every step that is not MovesInUse keeps ReadersInv.                     *)
LEMMA NextReaders ==
  ASSUME TypeOK, TypeOK', CopyInv, LmaAccess, UqidsGiven, ReadersInv, ~MovesInUse, Next
  PROVE  ReadersInv'
<1>1. CASE AccessNext
  BY <1>1, AccessReaders
<1>2. CASE GrowNext \/ TierNext \/ LifeNext
  <2>1. UNCHANGED <<held, lma_held>>
    BY <1>2, ClientHolds
  <2>2. ChnkReadersStay
    BY <1>2, RowsReaders, AttributeCounts, TierCounts, PutReadersStay, SetLmaReadersStay,
       EarlyFreeReadersStay, DeletionReadersStay DEF GrowNext, TierNext, LifeNext
  <2>3. ReadersKept
    BY <1>2, RowsCounts, CountsKept, AttributeCounts, TierCounts, PutReaders,
       SetLmaReaders, EarlyFreeReaders, DeletionReaders DEF GrowNext, TierNext, LifeNext
  <2>4. RowReadersStay /\ g_vctr_uqid <= g_vctr_uqid'
    <3>0. g_vctr_uqid \in Int
      BY DEF TypeOK
    <3>1. CASE VctrAdd \/ AddWithNn
      BY <3>1, NewReaders
    <3>2. CASE ~(VctrAdd \/ AddWithNn)
      <4>1. AccessLeft
        BY <1>2, <3>2, GrowAccess, TierAccess, LifeAccess
      <4>2. /\ vctrs' \subseteq vctrs /\ half_deleted \subseteq half_deleted'
            /\ g_vctr_uqid' = g_vctr_uqid
        BY <1>2, <3>2, SameVctrs, DeletionReadersStay
      <4> QED BY <3>0, <4>1, <4>2, LeftReaders
    <3> QED BY <3>1, <3>2
  <2> QED BY <2>1, <2>2, <2>3, <2>4, QuietReaders
<1> QED BY <1>1, <1>2 DEF Next

(* So does no step at all.                                                 *)
LEMMA IdleReaders ==
  ASSUME TypeOK, TypeOK', ReadersInv, UNCHANGED vars
  PROVE  ReadersInv'
<1>1. /\ vctrs' = vctrs /\ vctr' = vctr /\ chnks' = chnks /\ chnk' = chnk
      /\ g_vctr_uqid' = g_vctr_uqid /\ half_deleted' = half_deleted
      /\ UNCHANGED <<held, lma_held>>
  BY DEF vars, vctrTable, chnkTable, client
<1>2. ChnkReadersStay /\ RowReadersStay
  BY <1>1 DEF ChnkReadersStay, RowReadersStay, Live
<1>3. ReadersKept
  <2>1. \A k \in chnks : chnk[k].num_elements >= chnk[k].num_elements
    BY DEF TypeOK, ChnkVal
  <2> QED BY <1>1, <2>1 DEF ReadersKept
<1>4. g_vctr_uqid <= g_vctr_uqid'
  BY <1>1 DEF TypeOK
<1>5. ~MovesInUse
  BY <1>1 DEF MovesInUse
<1> QED BY <1>1, <1>2, <1>3, <1>4, <1>5, QuietReaders

(* At the start nobody reads.                                              *)
LEMMA InitReaders == Init => ReadersInv
<1> SUFFICES ASSUME Init PROVE ReadersInv
  OBVIOUS
<1>1. /\ vctrs = {} /\ chnks = {} /\ chnk = [k \in Keys |-> ZeroChnk]
      /\ held = [k \in Keys |-> 0] /\ lma_held = [v \in Uqids |-> 0]
  BY DEF Init, VctrInit
<1>2. Live = {}
  BY <1>1 DEF Live
<1>3. ZeroChnk.num_readers = 0
  BY DEF ZeroChnk
<1> QED BY <1>1, <1>2, <1>3 DEF ReadersInv

-----------------------------------------------------------------------------
(* For as long as clients hold the linear file of a vector, readers are    *)
(* counted on its row for all of them, so it stays mapped and no writer is *)
(* let in, unless the file is made or dropped while somebody holds a chunk *)
(* of the vector or the file: vctr_unget_chunk() decides by is_lma which   *)
(* count to take from, and then takes from another one than was added to.  *)
THEOREM VctrLmaReadersCounted == Spec /\ [][~MovesInUse]_vars => []LmaReadersCounted
<1>1. /\ TypeOK /\ TypeOK' /\ CopyInv /\ LmaAccess /\ NnMutual /\ UqidsGiven
      /\ ReadersInv /\ [Next]_vars /\ [~MovesInUse]_vars
      => ReadersInv'
  BY NextReaders, IdleReaders
<1>2. TypeOK /\ ReadersInv => LmaReadersCounted
  <2> SUFFICES ASSUME TypeOK, ReadersInv, NEW v \in Live
               PROVE  vctr[v].num_readers >= lma_held[v]
    BY DEF LmaReadersCounted
  <2>1. v \in Uqids /\ Covered(v)
    BY DEF Live, TypeOK, ReadersInv
  <2>2. vctr[v].num_readers \in Nat /\ lma_held[v] \in Nat
    BY <2>1 DEF TypeOK, VctrVal
  <2>3. CASE vctr[v].is_lma
    <3>1. vctr[v].num_readers >= Owed(v)
      BY <2>1, <2>3 DEF Covered
    <3>2. Owed(v) \in Int /\ Owed(v) >= lma_held[v]
      BY <2>1, OwedAtLeast
    <3> QED BY <2>2, <3>1, <3>2
  <2>4. CASE ~vctr[v].is_lma
    BY <2>1, <2>2, <2>4 DEF Covered
  <2> QED BY <2>3, <2>4
<1> QED BY <1>1, <1>2, InitReaders, VctrTypeOK, VctrCopyInv, VctrLmaAccess, TiesAndUqids, PTL
   DEF Spec

-----------------------------------------------------------------------------
(* Memory.                                                                 *)

\* the chunks of a chunk table that are in RAM
InRam(keys, c) == {k \in keys : c[k].l1_mem}

\* there is memory left for all the chunks of one more vector
MemRoom == mem_used + MaxChnks <= MemAllowed

(* The chunks D of v are finitely many, and as many as their keys.         *)
LEMMA KeysCount ==
  ASSUME NEW v, NEW D, D \subseteq ChnkIdxs
  PROVE  /\ IsFiniteSet(D) /\ Cardinality(D) \in Nat /\ Cardinality(D) <= MaxChnks
         /\ IsFiniteSet(KeysOf(v, D)) /\ Cardinality(KeysOf(v, D)) = Cardinality(D)
<1>1. PICK n \in Int : n = MaxChnks - 1 /\ n >= 0 /\ MaxChnks \in Nat
  BY BoundsAssumption DEF BoundsAssumption
<1>2. ChnkIdxs = 0..n
  BY <1>1 DEF ChnkIdxs
<1>3. IsFiniteSet(ChnkIdxs) /\ Cardinality(ChnkIdxs) = MaxChnks
  <2>1. IsFiniteSet(0..n) /\ Cardinality(0..n) = IF 0 > n THEN 0 ELSE n - 0 + 1
    BY FS_Interval
  <2> QED BY <1>1, <1>2, <2>1
<1>4. IsFiniteSet(D) /\ Cardinality(D) <= MaxChnks
  BY <1>3, FS_Subset
<1>5. Cardinality(D) \in Nat
  BY <1>4, FS_CardinalityType
<1>6. IsFiniteSet({v}) /\ Cardinality({v}) = 1
  BY FS_Singleton
<1>7. IsFiniteSet({v} \X D) /\ Cardinality({v} \X D) = Cardinality({v}) * Cardinality(D)
  BY <1>4, <1>6, FS_Product
<1> QED BY <1>4, <1>5, <1>6, <1>7 DEF KeysOf

(* There are finitely many keys.                                           *)
LEMMA KeysFinite ==
  ASSUME NEW S, S \subseteq Keys
  PROVE  IsFiniteSet(S) /\ Cardinality(S) \in Nat
<1>1. IsFiniteSet(ChnkIdxs)
  BY KeysCount
<1>2. IsFiniteSet(Uqids)
  BY BoundsAssumption, FS_Interval DEF BoundsAssumption, Uqids
<1>3. IsFiniteSet(Keys)
  BY <1>1, <1>2, FS_Product DEF Keys
<1>4. IsFiniteSet(S)
  BY <1>3, FS_Subset
<1> QED BY <1>4, FS_CardinalityType

(* Chunks of one vector added to a set of chunks, and taken from it.       *)
LEMMA MoreKeys ==
  ASSUME NEW S, S \subseteq Keys, NEW v \in Uqids, NEW D, D \subseteq ChnkIdxs,
         NEW T, \A k \in Keys : k \in T <=> k \in S \/ k \in KeysOf(v, D), T \subseteq Keys,
         \A k \in Keys : k \in KeysOf(v, D) => k \notin S
  PROVE  Cardinality(T) = Cardinality(S) + Cardinality(D)
<1>1. PICK K : K = KeysOf(v, D)
  OBVIOUS
<1>2. K \subseteq Keys
  BY <1>1 DEF KeysOf, Keys
<1>3. T = S \cup K /\ S \cap K = {}
  BY <1>1, <1>2
<1>4. IsFiniteSet(S) /\ Cardinality(S) \in Nat
  BY KeysFinite
<1>5. IsFiniteSet(K) /\ Cardinality(K) = Cardinality(D) /\ Cardinality(D) \in Nat
  BY <1>1, KeysCount
<1>6. Cardinality(S \cup K) = Cardinality(S) + Cardinality(K) - Cardinality(S \cap K)
  BY <1>4, <1>5, FS_Union
<1>7. Cardinality(S \cap K) = 0
  BY <1>3, FS_EmptySet
<1> QED BY <1>3, <1>4, <1>5, <1>6, <1>7

(* Some of the keys of S go.                                             *)
LEMMA FewerKeys ==
  ASSUME NEW S, S \subseteq Keys, NEW v \in Uqids, NEW D, D \subseteq ChnkIdxs,
         NEW T, \A k \in Keys : k \in T <=> k \in S /\ k \notin KeysOf(v, D), T \subseteq Keys,
         \A k \in Keys : k \in KeysOf(v, D) => k \in S
  PROVE  /\ Cardinality(T) = Cardinality(S) - Cardinality(D)
         /\ Cardinality(D) <= Cardinality(S)
<1>1. PICK K : K = KeysOf(v, D)
  OBVIOUS
<1>2. K \subseteq Keys
  BY <1>1 DEF KeysOf, Keys
<1>3. T = S \ K /\ S \cap K = K
  BY <1>1, <1>2
<1>4. IsFiniteSet(S) /\ Cardinality(S) \in Nat
  BY KeysFinite
<1>5. IsFiniteSet(K) /\ Cardinality(K) = Cardinality(D) /\ Cardinality(D) \in Nat
  BY <1>1, KeysCount
<1>6. Cardinality(S \ K) = Cardinality(S) - Cardinality(S \cap K)
  BY <1>4, FS_Difference
<1>7. Cardinality(K) <= Cardinality(S)
  BY <1>1, <1>2, <1>3, <1>4, FS_Subset
<1> QED BY <1>3, <1>4, <1>5, <1>6, <1>7

\* account m of ram chunks is never too high, nor short by more than s
Short(m, ram, s) == m <= ram /\ ram <= m + s
Within(s) == Short(mem_used, Cardinality(InRam(chnks, chnk)), s)

\* chunk k is in RAM
Loaded(k) == k \in chnks /\ chnk[k].l1_mem

(* What is in RAM, counted.                                                *)
LEMMA LoadedCount ==
  ASSUME TypeOK, TypeOK'
  PROVE  /\ InRam(chnks, chnk) \subseteq Keys /\ InRam(chnks, chnk)' \subseteq Keys
         /\ \A k \in Keys : /\ k \in InRam(chnks, chnk) <=> Loaded(k)
                            /\ k \in InRam(chnks, chnk)' <=> Loaded(k)'
  BY DEF TypeOK, InRam, Loaded

(* A step that leaves RAM and its account alone.                           *)
LEMMA SameRam ==
  ASSUME TypeOK, TypeOK', NEW more \in Nat, Within(more), mem_used' = mem_used,
         \A k \in Keys : Loaded(k)' <=> Loaded(k)
  PROVE  Within(more)'
<1>1. InRam(chnks, chnk)' = InRam(chnks, chnk)
  BY LoadedCount
<1> QED BY <1>1 DEF Within, Short

(* A step that brings the chunks D of v into RAM.                          *)
LEMMA MoreRam ==
  ASSUME TypeOK, TypeOK', NEW more \in Nat, Within(more), MemRoom, NEW v \in Uqids,
         NEW D, D \subseteq ChnkIdxs, mem_used' = incr_mem_used(mem_used, Cardinality(D)),
         \A k \in Keys : Loaded(k)' <=> Loaded(k) \/ k \in KeysOf(v, D),
         \A k \in Keys : k \in KeysOf(v, D) => ~Loaded(k)
  PROVE  Within(more)'
<1>1. PICK S, T : S = InRam(chnks, chnk) /\ T = InRam(chnks, chnk)'
  OBVIOUS
<1>2. S \subseteq Keys /\ T \subseteq Keys /\ \A k \in Keys :
        (k \in S <=> Loaded(k)) /\ (k \in T <=> Loaded(k)')
  BY <1>1, LoadedCount
<1>3. Cardinality(T) = Cardinality(S) + Cardinality(D)
  BY <1>2, MoreKeys
<1>4. Cardinality(D) \in Nat /\ Cardinality(D) <= MaxChnks /\ Cardinality(S) \in Nat
  BY <1>2, KeysCount, KeysFinite, FS_CardinalityType
<1>5. Short(mem_used, Cardinality(S), more)
  BY <1>1 DEF Within
<1>6. mem_used \in Nat /\ MemAllowed \in Nat /\ MaxChnks \in Nat
  BY BoundsAssumption DEF BoundsAssumption, TypeOK
<1>7. Short(mem_used', Cardinality(T), more)
  BY <1>3, <1>4, <1>5, <1>6 DEF MemRoom, incr_mem_used, Short
<1> QED BY <1>1, <1>7 DEF Within

(* And one that takes them out of it.                                      *)
LEMMA LessRam ==
  ASSUME TypeOK, TypeOK', NEW more \in Nat, Within(more), NEW v \in Uqids,
         NEW D, D \subseteq ChnkIdxs, mem_used' = decr_mem_used(mem_used, Cardinality(D)),
         \A k \in Keys : Loaded(k)' <=> Loaded(k) /\ k \notin KeysOf(v, D),
         \A k \in Keys : k \in KeysOf(v, D) => Loaded(k)
  PROVE  Within(more)'
<1>1. PICK S, T : S = InRam(chnks, chnk) /\ T = InRam(chnks, chnk)'
  OBVIOUS
<1>2. S \subseteq Keys /\ T \subseteq Keys /\ \A k \in Keys :
        (k \in S <=> Loaded(k)) /\ (k \in T <=> Loaded(k)')
  BY <1>1, LoadedCount
<1>3. /\ Cardinality(T) = Cardinality(S) - Cardinality(D)
      /\ Cardinality(D) <= Cardinality(S)
  BY <1>2, FewerKeys
<1>4. Cardinality(D) \in Nat /\ Cardinality(S) \in Nat
  BY <1>2, KeysCount, KeysFinite, FS_CardinalityType
<1>5. Short(mem_used, Cardinality(S), more)
  BY <1>1 DEF Within
<1>6. mem_used \in Nat
  BY DEF TypeOK
<1>7. Short(mem_used', Cardinality(T), more)
  BY <1>3, <1>4, <1>5, <1>6 DEF decr_mem_used, Short
<1> QED BY <1>1, <1>7 DEF Within

(* What the deletion of chunks D of v does to an account m of table        *)
(* (keys, c).                                                              *)
LEMMA DelRam ==
  ASSUME NEW keys, keys \subseteq Keys, NEW c \in [Keys -> ChnkVal], NEW v \in Uqids,
         NEW D, D \subseteq ChnkIdxs, \A i \in D : <<v, i>> \in keys,
         NEW m \in Nat, NEW more \in Nat, Short(m, Cardinality(InRam(keys, c)), more)
  PROVE  Short(MemAfterDel(m, c, v, D),
               Cardinality(InRam(keys \ KeysOf(v, D), ChnkAfterDel(c, v, D))), more)
<1>1. PICK S, T, E : /\ S = InRam(keys, c)
                     /\ T = InRam(keys \ KeysOf(v, D), ChnkAfterDel(c, v, D))
                     /\ E = {i \in D : c[<<v, i>>].l1_mem}
  OBVIOUS
<1>2. S \subseteq Keys /\ T \subseteq Keys /\ E \subseteq ChnkIdxs
  BY <1>1 DEF InRam
<1>3. ASSUME NEW k \in Keys
      PROVE  /\ k \in KeysOf(v, D) <=> k[1] = v /\ k[2] \in D
             /\ k \in KeysOf(v, E) <=> k[1] = v /\ k[2] \in E
             /\ k = <<k[1], k[2]>>
  BY KeyInKeysOf, KeyParts
<1>4. ASSUME NEW k \in Keys
      PROVE  k \in S <=> k \in keys /\ c[k].l1_mem
  BY <1>1 DEF InRam
<1>5. ASSUME NEW k \in Keys
      PROVE  k \in KeysOf(v, E) <=> k \in KeysOf(v, D) /\ c[k].l1_mem
  BY <1>1, <1>3
<1>6. ASSUME NEW k \in Keys
      PROVE  k \in T <=> k \in keys /\ k \notin KeysOf(v, D) /\ c[k].l1_mem
  <2>1. k \in T <=> k \in keys /\ k \notin KeysOf(v, D) /\ ChnkAfterDel(c, v, D)[k].l1_mem
    BY <1>1 DEF InRam
  <2>2. k \notin KeysOf(v, D) => ChnkAfterDel(c, v, D)[k] = c[k]
    BY DEF ChnkAfterDel
  <2> QED BY <2>1, <2>2
<1>7. /\ \A k \in Keys : k \in T <=> k \in S /\ k \notin KeysOf(v, E)
      /\ \A k \in Keys : k \in KeysOf(v, E) => k \in S
  <2>1. \A k \in Keys : k \in KeysOf(v, D) => k \in keys
    BY <1>3
  <2> QED BY <2>1, <1>4, <1>5, <1>6
<1>8. /\ Cardinality(T) = Cardinality(S) - Cardinality(E)
      /\ Cardinality(E) <= Cardinality(S)
  BY <1>2, <1>7, FewerKeys
<1>9. Cardinality(E) \in Nat /\ Cardinality(S) \in Nat
  BY <1>2, KeysCount, KeysFinite, FS_CardinalityType
<1>10. MemAfterDel(m, c, v, D) = decr_mem_used(m, Cardinality(E))
  BY <1>1 DEF MemAfterDel
<1>11. Short(m, Cardinality(S), more)
  BY <1>1
<1>12. Short(MemAfterDel(m, c, v, D), Cardinality(T), more)
  BY <1>8, <1>9, <1>10, <1>11 DEF decr_mem_used, Short
<1> QED BY <1>1, <1>12

(* What the updates of a chunk do to its place in RAM.                     *)
LEMMA RamFields ==
  ASSUME NEW c \in ChnkVal, NEW b, NEW r, NEW e
  PROVE  /\ [c EXCEPT !.l1_mem = TRUE, !.l1_data = b].l1_mem
         /\ ~[c EXCEPT !.l1_mem = FALSE, !.l1_data = b].l1_mem
         /\ ~[c EXCEPT !.l1_mem = FALSE, !.l1_data = b, !.l2_exists = e].l1_mem
         /\ [c EXCEPT !.l2_exists = e].l1_mem <=> c.l1_mem
         /\ [c EXCEPT !.l1_data = b].l1_mem <=> c.l1_mem
         /\ [c EXCEPT !.num_readers = r].l1_mem <=> c.l1_mem
<1>1. [c EXCEPT !.l1_mem = TRUE, !.l1_data = b].l1_mem
  BY DEF ChnkVal
<1>2. ~[c EXCEPT !.l1_mem = FALSE, !.l1_data = b].l1_mem
  BY DEF ChnkVal
<1>3. ~[c EXCEPT !.l1_mem = FALSE, !.l1_data = b, !.l2_exists = e].l1_mem
  BY DEF ChnkVal
<1>4. [c EXCEPT !.l2_exists = e].l1_mem <=> c.l1_mem
  BY DEF ChnkVal
<1>5. [c EXCEPT !.l1_data = b].l1_mem <=> c.l1_mem
  BY DEF ChnkVal
<1>6. [c EXCEPT !.num_readers = r].l1_mem <=> c.l1_mem
  BY DEF ChnkVal
<1> QED BY <1>1, <1>2, <1>3, <1>4, <1>5, <1>6

(* Readers come and go, attributes change and vectors are added: nothing   *)
(* goes in or out of RAM.                                                  *)
LEMMA QuietMem ==
  ASSUME TypeOK, TypeOK', NEW more \in Nat, Within(more),
         \/ VctrAdd \/ VctrPersist \/ VctrSetMemo \/ SetKillable \/ SetFreeable
         \/ SetError \/ SetNnVec \/ AddWithNn
         \/ ChnkIncrReaders \/ VctrGetChunkLma \/ VctrUngetChunk
         \/ VctrGetLmaRead \/ VctrUngetLmaRead \/ DropLma \/ ChnksToLma
         \/ SetLmaFails \/ Append
  PROVE  Within(more)'
<1>1. CASE \/ VctrAdd \/ VctrPersist \/ VctrSetMemo \/ SetKillable \/ SetFreeable
           \/ SetError \/ SetNnVec \/ AddWithNn
  <2>1. chnks' = chnks /\ chnk' = chnk /\ mem_used' = mem_used
    BY <1>1, Zenon DEF VctrAdd, VctrPersist, VctrSetMemo, SetKillable, SetFreeable,
       SetError, SetNnVec, AddWithNn, vctr_add, vctr_persist, vctr_set_memo,
       vctr_set_num_kill_ignore, vctr_set_early_freeable, vctr_set_error, set_nn_vec,
       NewWithNn, rest, chnkTable, usage
  <2> QED BY <2>1, SameRam DEF Loaded
<1>2. CASE DropLma \/ ChnksToLma \/ SetLmaFails \/ Append
  <2>1. chnks' = chnks /\ chnk' = chnk /\ mem_used' = mem_used
    BY <1>2, Zenon DEF DropLma, ChnksToLma, SetLmaFails, Append, drop_lma,
       vctr_chnks_to_lma, set_lma_fails, vctr_append, chnkTable
  <2> QED BY <2>1, SameRam DEF Loaded
<1>3. CASE \/ ChnkIncrReaders \/ VctrGetChunkLma \/ VctrUngetChunk
           \/ VctrGetLmaRead \/ VctrUngetLmaRead
  <2>1. SameTable /\ \A k \in Keys : chnk'[k].l1_mem = chnk[k].l1_mem
    BY <1>3, ReadersKeep
  <2>2. mem_used' = mem_used
    BY <1>3, Zenon DEF ChnkIncrReaders, VctrGetChunkLma, VctrUngetChunk, VctrGetLmaRead,
       VctrUngetLmaRead, chnk_incr_num_readers, vctr_get_chunk_lma, vctr_unget_chunk,
       vctr_get_lma_read, vctr_unget_lma_read, usage
  <2> QED BY <2>1, <2>2, SameRam DEF Loaded, SameTable
<1> QED BY <1>1, <1>2, <1>3

(* A step that brings at most one chunk into RAM, and counts it.           *)
LEMMA OneMoreRam ==
  ASSUME TypeOK, TypeOK', NEW more \in Nat, Within(more), MemRoom, NEW k \in chnks, NEW c,
         chnks' = chnks, chnk' = [chnk EXCEPT ![k] = c],
         c.l1_mem <=> chnk[k].l1_mem \/ LoadsL1(k),
         mem_used' = IF LoadsL1(k) THEN incr_mem_used(mem_used, 1) ELSE mem_used
  PROVE  Within(more)'
<1>0. k \in Keys /\ k[1] \in Uqids /\ k[2] \in ChnkIdxs /\ k = <<k[1], k[2]>>
  BY KeyParts DEF TypeOK
<1>1. \A j \in Keys : chnk'[j] = IF j = k THEN c ELSE chnk[j]
  BY DEF TypeOK
<1>2. CASE LoadsL1(k)
  <2>1. PICK D : D = {k[2]}
    OBVIOUS
  <2>2. D \subseteq ChnkIdxs /\ Cardinality(D) = 1
    BY <1>0, <2>1, FS_Singleton
  <2>3. \A j \in Keys : j \in KeysOf(k[1], D) <=> j = k
    BY <1>0, <2>1, KeyInKeysOf, KeyParts
  <2>4. mem_used' = incr_mem_used(mem_used, Cardinality(D))
    BY <1>2, <2>2
  <2>5. ~chnk[k].l1_mem /\ c.l1_mem
    BY <1>2 DEF LoadsL1
  <2>6. \A j \in Keys : Loaded(j)' <=> Loaded(j) \/ j \in KeysOf(k[1], D)
    BY <1>1, <2>3, <2>5 DEF Loaded
  <2>7. \A j \in Keys : j \in KeysOf(k[1], D) => ~Loaded(j)
    BY <2>3, <2>5 DEF Loaded
  <2> QED BY <1>0, <2>2, <2>4, <2>6, <2>7, MoreRam
<1>3. CASE ~LoadsL1(k)
  <2>1. \A j \in Keys : Loaded(j)' <=> Loaded(j)
    BY <1>1, <1>3 DEF Loaded
  <2> QED BY <1>3, <2>1, SameRam
<1> QED BY <1>2, <1>3

(* Getting a chunk, or one element.                                        *)
LEMMA GetMem ==
  ASSUME TypeOK, TypeOK', NEW more \in Nat, Within(more), MemRoom, VctrGetChunk \/ VctrGet1
  PROVE  Within(more)'
<1>1. ASSUME NEW k \in Keys, NEW d, NEW e, d = chnk_get_data(k),
             e = [d EXCEPT !.num_readers = @ - 1]
      PROVE  /\ d.l1_mem <=> chnk[k].l1_mem \/ LoadsL1(k)
             /\ e.l1_mem <=> chnk[k].l1_mem \/ LoadsL1(k)
  <2>1. PICK r, c : r = chnk[k].num_readers + 1 /\ c = [chnk[k] EXCEPT !.num_readers = r]
    OBVIOUS
  <2>2. chnk[k] \in ChnkVal /\ r \in Nat /\ l2[k].data \in SUBSET Slots
    BY <2>1 DEF TypeOK, ChnkVal, L2File
  <2>3. c \in ChnkVal /\ (c.l1_mem <=> chnk[k].l1_mem)
    <3>1. c \in ChnkVal
      BY <2>1, <2>2, ChnkFieldTypes
    <3> QED BY <2>1, <2>2, <3>1, RamFields
  <2>4. d = IF chnk[k].l1_mem \/ ~chnk[k].l2_exists THEN c
            ELSE [c EXCEPT !.l1_mem = TRUE, !.l1_data = l2[k].data]
    BY <1>1, <2>1, Zenon DEF chnk_get_data, LoadL1
  <2>5. d \in ChnkVal /\ (d.l1_mem <=> chnk[k].l1_mem \/ LoadsL1(k))
    <3>1. PICK b : b = l2[k].data
      OBVIOUS
    <3>2. [c EXCEPT !.l1_mem = TRUE, !.l1_data = b] \in ChnkVal
      BY <2>2, <2>3, <3>1 DEF ChnkVal
    <3>3. [c EXCEPT !.l1_mem = TRUE, !.l1_data = b].l1_mem
      BY <2>3, RamFields
    <3>4. CASE chnk[k].l1_mem \/ ~chnk[k].l2_exists
      BY <2>3, <2>4, <3>4 DEF LoadsL1
    <3>5. CASE ~(chnk[k].l1_mem \/ ~chnk[k].l2_exists)
      <4>1. d = [c EXCEPT !.l1_mem = TRUE, !.l1_data = b]
        BY <2>4, <3>1, <3>5
      <4> QED BY <3>2, <3>3, <3>5, <4>1 DEF LoadsL1
    <3> QED BY <3>4, <3>5
  <2>6. PICK q : q = d.num_readers - 1
    OBVIOUS
  <2>7. e = [d EXCEPT !.num_readers = q]
    BY <1>1, <2>6
  <2>8. e.l1_mem <=> d.l1_mem
    BY <2>5, <2>7, RamFields
  <2> QED BY <2>5, <2>8
<1>2. CASE VctrGetChunk
  <2>1. PICK v \in Uqids, i \in ChnkIdxs : vctr_get_chunk(v, i)
    BY <1>2 DEF VctrGetChunk
  <2>2. PICK k \in Keys : k = <<v, i>>
    BY KeyParts
  <2>3. PICK d : d = chnk_get_data(k)
    OBVIOUS
  <2>4. /\ k \in chnks /\ chnks' = chnks /\ chnk' = [chnk EXCEPT ![k] = d]
        /\ mem_used' = IF LoadsL1(k) THEN incr_mem_used(mem_used, 1) ELSE mem_used
    BY <2>1, <2>2, <2>3, Zenon DEF vctr_get_chunk, chnk_is
  <2>5. d.l1_mem <=> chnk[k].l1_mem \/ LoadsL1(k)
    BY <1>1, <2>3
  <2> QED BY <2>4, <2>5, OneMoreRam
<1>3. CASE VctrGet1
  <2>1. PICK v \in Uqids, i \in ChnkIdxs : vctr_get1(v, i)
    BY <1>3 DEF VctrGet1
  <2>2. PICK k \in Keys : k = <<v, i>>
    BY KeyParts
  <2>3. PICK d, e : d = chnk_get_data(k) /\ e = [d EXCEPT !.num_readers = @ - 1]
    OBVIOUS
  <2>4. /\ chnks' = chnks
        /\ \/ UNCHANGED <<chnk, mem_used>>
           \/ /\ k \in chnks
              /\ chnk' = [chnk EXCEPT ![k] = e] \/ chnk' = [chnk EXCEPT ![k] = d]
              /\ mem_used' = IF LoadsL1(k) THEN incr_mem_used(mem_used, 1) ELSE mem_used
    BY <2>1, <2>2, <2>3, Zenon DEF vctr_get1, chnk_is
  <2>5. /\ d.l1_mem <=> chnk[k].l1_mem \/ LoadsL1(k)
        /\ e.l1_mem <=> chnk[k].l1_mem \/ LoadsL1(k)
    BY <1>1, <2>3
  <2>6. CASE UNCHANGED <<chnk, mem_used>>
    BY <2>4, <2>6, SameRam DEF Loaded
  <2>7. CASE ~UNCHANGED <<chnk, mem_used>>
    BY <2>4, <2>5, <2>7, OneMoreRam
  <2> QED BY <2>6, <2>7
<1> QED BY <1>2, <1>3

(* Chunks that change only in what they hold elsewhere.                    *)
LEMMA SameInRam ==
  ASSUME TypeOK, TypeOK', NEW more \in Nat, Within(more), chnks' = chnks, mem_used' = mem_used,
         \A k \in Keys : chnk'[k].l1_mem <=> chnk[k].l1_mem
  PROVE  Within(more)'
  BY SameRam DEF Loaded

(* Files written, or dropped, and a linear file that has been written.     *)
LEMMA FilesMem ==
  ASSUME TypeOK, TypeOK', NEW more \in Nat, Within(more),
         DropL2 \/ MakeL2 \/ L1ToL2 \/ UngetLmaWrite
  PROVE  Within(more)'
<1>0. \A k \in Keys : chnk[k] \in ChnkVal
  BY DEF TypeOK
<1> DEFINE Bare(k)   == [chnk[k] EXCEPT !.l2_exists = FALSE]
           Backed(k) == [chnk[k] EXCEPT !.l2_exists = TRUE]
           Stale(k)  == [chnk[k] EXCEPT !.l1_data = {}]
<1>1. \A k \in Keys : /\ Bare(k).l1_mem <=> chnk[k].l1_mem
                      /\ Backed(k).l1_mem <=> chnk[k].l1_mem
                      /\ Stale(k).l1_mem <=> chnk[k].l1_mem
  BY <1>0, RamFields
<1>2. CASE DropL2
  <2>1. PICK K : /\ chnks' = chnks /\ mem_used' = mem_used
                 /\ chnk' = [k \in Keys |-> IF k \in K THEN Bare(k) ELSE chnk[k]]
    BY <1>2, Zenon DEF DropL2, drop_l2, ChnkWith
  <2> HIDE DEF Bare
  <2> QED BY <1>1, <2>1, SameInRam
<1>3. CASE MakeL2 \/ L1ToL2
  <2>1. ASSUME NEW v, NEW D, WriteL2(v, D), chnks' = chnks, mem_used' = mem_used
        PROVE  Within(more)'
    <3>1. chnk' = [k \in Keys |-> IF k \in KeysOf(v, D) THEN Backed(k) ELSE chnk[k]]
      BY <2>1, Zenon DEF WriteL2, ChnkWith
    <3> HIDE DEF Backed
    <3> QED BY <1>1, <2>1, <3>1, SameInRam
  <2>2. ASSUME NEW v, NEW S, NEW N, make_l2(v, S, N) PROVE Within(more)'
    BY <2>1, <2>2, Zenon DEF make_l2
  <2>3. ASSUME NEW v, vctr_l1_to_l2(v) PROVE Within(more)'
    BY <2>1, <2>3, Zenon DEF vctr_l1_to_l2
  <2> QED BY <1>3, <2>2, <2>3, Zenon DEF MakeL2, L1ToL2, vctr_make_l2
<1>4. CASE UngetLmaWrite
  <2>1. PICK v \in Uqids : vctr_unget_lma_write(v)
    BY <1>4 DEF UngetLmaWrite
  <2>2. /\ chnks' = chnks /\ mem_used' = mem_used
        /\ chnk' = [k \in Keys |-> IF k[1] = v THEN Stale(k) ELSE chnk[k]]
    BY <2>1, Zenon DEF vctr_unget_lma_write, usage
  <2> HIDE DEF Stale
  <2> QED BY <1>1, <2>2, SameInRam
<1> QED BY <1>2, <1>3, <1>4

(* L1 copies made, from the chunks' files or from the linear file.         *)
LEMMA MakeMem ==
  ASSUME TypeOK, TypeOK', NEW more \in Nat, Within(more), MemRoom, MakeL1 \/ LmaToChnks
  PROVE  Within(more)'
<1>0. /\ \A k \in Keys : chnk[k] \in ChnkVal
      /\ \A v \in Uqids : vctr[v] \in VctrVal
  BY DEF TypeOK
<1> DEFINE Read(k)   == LoadL1(chnk[k], k)
           Backed(k) == [chnk[k] EXCEPT !.l2_exists = TRUE]
<1>1. \A k \in Keys : Read(k).l1_mem /\ (Backed(k).l1_mem <=> chnk[k].l1_mem)
  BY <1>0, RamFields DEF LoadL1
<1>2. CASE MakeL1
  <2>0. PICK v \in Uqids : \E S \in Named(v, CanMakeL1(v)) : make_l1(v, S)
    BY <1>2 DEF MakeL1
  <2>1. PICK S \in Named(v, CanMakeL1(v)) : make_l1(v, S)
    BY <2>0
  <2>2. S \subseteq Present(v)
    BY NamedPresent DEF CanMakeL1, Present
  <2>3. PICK D : D = {i \in S : ~chnk[<<v, i>>].l1_mem}
    OBVIOUS
  <2>4. /\ chnks' = chnks /\ mem_used' = incr_mem_used(mem_used, Cardinality(D))
        /\ chnk' = [k \in Keys |-> IF k \in KeysOf(v, D) THEN Read(k) ELSE chnk[k]]
    BY <2>1, <2>3, Zenon DEF make_l1, ChnkWith
  <2> HIDE DEF Read
  <2>5. D \subseteq ChnkIdxs
    BY <2>2, <2>3 DEF Present
  <2>6. \A k \in Keys : k \in KeysOf(v, D) => k \in chnks /\ ~chnk[k].l1_mem
    BY <2>2, <2>3, KeyInKeysOf, KeyParts DEF Present, chnk_is
  <2>7. \A k \in Keys : Loaded(k)' <=> Loaded(k) \/ k \in KeysOf(v, D)
    BY <1>1, <2>4, <2>6 DEF Loaded
  <2>8. \A k \in Keys : k \in KeysOf(v, D) => ~Loaded(k)
    BY <2>6 DEF Loaded
  <2> QED BY <2>4, <2>5, <2>7, <2>8, MoreRam
<1>3. CASE LmaToChnks
  <2>1. PICK v \in Uqids, level \in 1..2 : vctr_lma_to_chnks(v, level)
    BY <1>3 DEF LmaToChnks
  <2> DEFINE Copied(k) == [chnk[k] EXCEPT !.l1_mem = TRUE, !.l1_data = FromLma(v, k[2])]
  <2>2. \A k \in Keys : Copied(k).l1_mem
    BY <1>0, RamFields
  <2>3. PICK S : S = Run(0, NumChnks(vctr[v].num_elements) - 1, Present(v))
    OBVIOUS
  <2>4. S \subseteq Present(v)
    <3>1. NumChnks(vctr[v].num_elements) - 1 \in Int
      <4>1. vctr[v].num_elements + MaxNumInChnk - 1 \in Nat
        BY <1>0, BoundsAssumption DEF BoundsAssumption, VctrVal
      <4> QED BY <4>1, Quotients DEF NumChnks
    <3> QED BY <2>3, <3>1, RunInOk DEF Present
  <2>5. PICK D, E :
          /\ D = {i \in S : ~chnk[<<v, i>>].l1_mem
                              /\ (chnk[<<v, i>>].l2_exists \/ level = 1)}
          /\ E = {i \in S : ~chnk[<<v, i>>].l1_mem
                              /\ ~chnk[<<v, i>>].l2_exists /\ level = 2}
    OBVIOUS
  <2>6. /\ chnks' = chnks /\ mem_used' = incr_mem_used(mem_used, Cardinality(D))
        /\ chnk' = [k \in Keys |->
                     IF k \in KeysOf(v, D)
                     THEN IF chnk[k].l2_exists THEN Read(k) ELSE Copied(k)
                     ELSE IF k \in KeysOf(v, E) THEN Backed(k) ELSE chnk[k]]
    BY <2>1, <2>3, <2>5, Zenon DEF vctr_lma_to_chnks
  <2> HIDE DEF Read, Copied, Backed
  <2>7. D \subseteq ChnkIdxs
    BY <2>4, <2>5 DEF Present
  <2>8. \A k \in Keys : k \in KeysOf(v, D) => k \in chnks /\ ~chnk[k].l1_mem
    BY <2>4, <2>5, KeyInKeysOf, KeyParts DEF Present, chnk_is
  <2>9. \A k \in Keys : Loaded(k)' <=> Loaded(k) \/ k \in KeysOf(v, D)
    BY <1>1, <2>2, <2>6, <2>8 DEF Loaded
  <2>10. \A k \in Keys : k \in KeysOf(v, D) => ~Loaded(k)
    BY <2>8 DEF Loaded
  <2> QED BY <2>6, <2>7, <2>9, <2>10, MoreRam
<1> QED BY <1>2, <1>3

(* L1 copies dropped: on their own, through a file, or for a writer of the *)
(* linear file.                                                            *)
LEMMA DropMem ==
  ASSUME TypeOK, TypeOK', NEW more \in Nat, Within(more), DropL1 \/ Unprefetch \/ GetLmaWrite
  PROVE  Within(more)'
<1>0. /\ \A k \in Keys : chnk[k] \in ChnkVal
      /\ \A v \in Uqids : vctr[v] \in VctrVal
  BY DEF TypeOK
<1> DEFINE Out(k)    == [chnk[k] EXCEPT !.l1_mem = FALSE, !.l1_data = {}]
           OutOf(k)  == [chnk[k] EXCEPT !.l1_mem = FALSE, !.l1_data = {}, !.l2_exists = FALSE]
           OutTo(k)  == [chnk[k] EXCEPT !.l1_mem = FALSE, !.l1_data = {}, !.l2_exists = TRUE]
<1>1. \A k \in Keys : ~Out(k).l1_mem /\ ~OutOf(k).l1_mem /\ ~OutTo(k).l1_mem
  BY <1>0, RamFields
<1>2. CASE DropL1
  <2>0. PICK v \in Uqids : \E S \in Named(v, Present(v)) : drop_l1(v, S)
    BY <1>2 DEF DropL1
  <2>1. PICK S \in Named(v, Present(v)) : drop_l1(v, S)
    BY <2>0
  <2>2. S \subseteq Present(v)
    BY NamedPresent DEF Present
  <2>3. PICK D : D = DropsL1(v, S)
    OBVIOUS
  <2>4. /\ chnks' = chnks /\ mem_used' = decr_mem_used(mem_used, Cardinality(D))
        /\ chnk' = [k \in Keys |-> IF k \in KeysOf(v, D) THEN Out(k) ELSE chnk[k]]
    BY <2>1, <2>3, Zenon DEF drop_l1, ChnkWith
  <2> HIDE DEF Out
  <2>5. D \subseteq ChnkIdxs
    BY <2>2, <2>3 DEF Present, DropsL1
  <2>6. \A k \in Keys : k \in KeysOf(v, D) => Loaded(k)
    BY <2>2, <2>3, KeyInKeysOf, KeyParts DEF Present, chnk_is, DropsL1, Loaded
  <2>7. \A k \in Keys : Loaded(k)' <=> Loaded(k) /\ k \notin KeysOf(v, D)
    BY <1>1, <2>4, <2>6 DEF Loaded
  <2> QED BY <2>4, <2>5, <2>6, <2>7, LessRam
<1>3. CASE Unprefetch
  <2>1. PICK v \in Uqids, i \in ChnkIdxs : unprefetch(v, i)
    BY <1>3 DEF Unprefetch
  <2>2. PICK k \in Keys : k = <<v, i>>
    BY KeyParts
  <2>3. PICK c, D : c = OutTo(k) /\ D = {i}
    OBVIOUS
  <2>4. /\ k \in chnks /\ chnk[k].l1_mem /\ chnks' = chnks
        /\ mem_used' = decr_mem_used(mem_used, 1)
        /\ chnk' = [chnk EXCEPT ![k].l1_mem = FALSE, ![k].l1_data = {}, ![k].l2_exists = TRUE]
    BY <2>1, <2>2, Zenon DEF unprefetch, chnk_is
  <2>5. chnk' = [chnk EXCEPT ![k] = c]
    BY <2>3, <2>4 DEF TypeOK
  <2>6. ~c.l1_mem
    BY <1>1, <2>3
  <2>7. Cardinality(D) = 1 /\ D \subseteq ChnkIdxs
    BY <2>3, FS_Singleton
  <2>8. \A j \in Keys : j \in KeysOf(v, D) <=> j = k
    BY <2>2, <2>3, KeyInKeysOf, KeyParts
  <2>9. \A j \in Keys : chnk'[j] = IF j = k THEN c ELSE chnk[j]
    BY <2>5 DEF TypeOK
  <2>10. \A j \in Keys : j \in KeysOf(v, D) => Loaded(j)
    BY <2>4, <2>8 DEF Loaded
  <2>11. \A j \in Keys : Loaded(j)' <=> Loaded(j) /\ j \notin KeysOf(v, D)
    BY <2>4, <2>6, <2>8, <2>9 DEF Loaded
  <2>12. mem_used' = decr_mem_used(mem_used, Cardinality(D))
    BY <2>4, <2>7
  <2> QED BY <2>7, <2>10, <2>11, <2>12, LessRam
<1>4. CASE GetLmaWrite
  <2>1. PICK v \in Uqids : get_lma_write(v)
    BY <1>4 DEF GetLmaWrite
  <2>2. PICK S, D : S = DropRun(v) /\ D = {i \in S : chnk[<<v, i>>].l1_mem}
    OBVIOUS
  <2>3. /\ chnks' = chnks /\ mem_used' = decr_mem_used(mem_used, Cardinality(D))
        /\ chnk' = [k \in Keys |-> IF k \in KeysOf(v, S) THEN OutOf(k) ELSE chnk[k]]
    BY <2>1, <2>2, Zenon DEF get_lma_write
  <2> HIDE DEF OutOf
  <2>4. S \subseteq Present(v)
    BY <1>0, <2>2, RunInOk DEF DropRun, Present, VctrVal
  <2>5. D \subseteq ChnkIdxs
    BY <2>2, <2>4 DEF Present
  <2>6. \A k \in Keys : k \in KeysOf(v, D) <=> k \in KeysOf(v, S) /\ chnk[k].l1_mem
    BY <2>2, KeyInKeysOf, KeyParts
  <2>7. \A k \in Keys : k \in KeysOf(v, S) => k \in chnks
    BY <2>4, KeyInKeysOf, KeyParts DEF Present, chnk_is
  <2>8. \A k \in Keys : k \in KeysOf(v, D) => Loaded(k)
    BY <2>6, <2>7 DEF Loaded
  <2>9. \A k \in Keys : Loaded(k)' <=> Loaded(k) /\ k \notin KeysOf(v, D)
    BY <1>1, <2>3, <2>6 DEF Loaded
  <2> QED BY <2>3, <2>5, <2>8, <2>9, LessRam
<1> QED BY <1>2, <1>3, <1>4

(* The chunks of a file taken over are not in RAM, nor were their places.  *)
LEMMA SetLmaMem ==
  ASSUME TypeOK, TypeOK', CopyInv, NEW more \in Nat, Within(more), SetLma
  PROVE  Within(more)'
<1>1. PICK v \in Uqids, n \in 1..MaxElems : vctr_set_lma(v, n)
  BY DEF SetLma
<1>2. v \in vctrs /\ vctr[v].num_elements = 0 /\ mem_used' = mem_used
  BY <1>1, Zenon DEF vctr_set_lma
<1>3. PICK low, top : LmaSet(v, n, low, top)
  BY <1>1, SetLmaShape
<1>4. ASSUME NEW k \in Keys PROVE Loaded(k)' <=> Loaded(k)
  <2>1. CASE k[1] = v /\ k[2] \in low..top
    <3>1. ~chnk'[k].l1_mem
      BY <1>3, <2>1 DEF LmaSet
    <3>2. ~Reached(k)
      BY <1>2, <2>1 DEF Reached
    <3>3. k \notin chnks
      BY <3>2 DEF CopyInv, KeysReached
    <3> QED BY <3>1, <3>3 DEF Loaded
  <2>2. CASE ~(k[1] = v /\ k[2] \in low..top)
    BY <1>3, <2>2 DEF LmaSet, Loaded
  <2> QED BY <2>1, <2>2
<1> QED BY <1>2, <1>4, SameRam

(* Chunks D of v that are deleted: the memory of those in RAM is given     *)
(* back.                                                                   *)
LEMMA DeletedMem ==
  ASSUME TypeOK, TypeOK', NEW more \in Nat, Within(more), NEW v \in Uqids,
         NEW D, D \subseteq Present(v),
         mem_used' = MemAfterDel(mem_used, chnk, v, D),
         \A k \in Keys : LET gone == k[1] = v /\ k[2] \in D
                         IN  /\ k \in chnks' <=> k \in chnks /\ ~gone
                             /\ ~gone => chnk'[k].l1_mem = chnk[k].l1_mem
  PROVE  Within(more)'
<1>1. PICK E : E = {i \in D : chnk[<<v, i>>].l1_mem}
  OBVIOUS
<1>2. E \subseteq ChnkIdxs /\ mem_used' = decr_mem_used(mem_used, Cardinality(E))
  BY <1>1 DEF MemAfterDel, Present
<1>3. \A k \in Keys : k \in KeysOf(v, E) <=> k[1] = v /\ k[2] \in D /\ chnk[k].l1_mem
  BY <1>1, KeyInKeysOf, KeyParts
<1>4. \A k \in Keys : k[1] = v /\ k[2] \in D => k \in chnks
  BY KeyParts DEF Present, chnk_is
<1>5. \A k \in Keys : k \in KeysOf(v, E) => Loaded(k)
  BY <1>3, <1>4 DEF Loaded
<1>6. \A k \in Keys : Loaded(k)' <=> Loaded(k) /\ k \notin KeysOf(v, E)
  BY <1>3 DEF Loaded
<1> QED BY <1>2, <1>5, <1>6, LessRam

(* early_free, and the deletion of a vector.                               *)
LEMMA EarlyFreeMem ==
  ASSUME TypeOK, TypeOK', NEW more \in Nat, Within(more), VctrEarlyFree
  PROVE  Within(more)'
<1>0. PICK v \in Uqids : \E ub \in EarlyFreeArgs(v) : vctr_early_free(v, ub)
  BY DEF VctrEarlyFree
<1>1. PICK ub \in EarlyFreeArgs(v) : vctr_early_free(v, ub)
  BY <1>0
<1>2. PICK D, top : EarlyFreed(v, D, top)
  BY <1>1, EarlyFreeShape DEF EarlyFreeArgs
<1>3. D \subseteq Present(v) /\ mem_used' = MemAfterDel(mem_used, chnk, v, D)
  BY <1>2 DEF EarlyFreed, Present
<1>4. \A k \in Keys : LET gone == k[1] = v /\ k[2] \in D
                      IN  /\ k \in chnks' <=> k \in chnks /\ ~gone
                          /\ ~gone => chnk'[k].l1_mem = chnk[k].l1_mem
  BY <1>2 DEF EarlyFreed
<1> QED BY <1>3, <1>4, DeletedMem

(* vctr_del(), of the vector and then of its nn vector.                    *)
LEMMA DeletionMem ==
  ASSUME TypeOK, TypeOK', NEW more \in Nat, Within(more), Delete \/ Kill \/ BrkNnVec
  PROVE  Within(more)'
<1>1. CASE UNCHANGED <<g_vctr_uqid, vctrs, rest>>
  <2>1. chnks' = chnks /\ chnk' = chnk /\ mem_used' = mem_used
    BY <1>1 DEF rest, chnkTable, usage
  <2> QED BY <2>1, SameRam DEF Loaded
<1>2. ASSUME NEW v \in vctrs, NEW D, Deleted(v, D) PROVE Within(more)'
  <2>1. v \in Uqids /\ D \subseteq Present(v) /\ mem_used' = MemAfterDel(mem_used, chnk, v, D)
    BY <1>2 DEF Deleted, Present, TypeOK
  <2>2. \A k \in Keys : LET gone == k[1] = v /\ k[2] \in D
                        IN  /\ k \in chnks' <=> k \in chnks /\ ~gone
                            /\ ~gone => chnk'[k].l1_mem = chnk[k].l1_mem
    BY <1>2 DEF Deleted
  <2> QED BY <2>1, <2>2, DeletedMem
<1> QED BY <1>1, <1>2, DeletionShape

(* Puts.  Before memo is run the account is short by no more than the      *)
(* chunk table the put has made allows; memo gives back what it deletes.   *)
LEMMA StoreMem ==
  ASSUME NEW v \in Uqids, NEW x \in VctrVal,
         NEW keys, keys \subseteq Keys, NEW c \in [Keys -> ChnkVal], NEW e, NEW m,
         StoreWithMemo(v, x, e, keys, c, m),
         m \in Nat, NEW more \in Nat, Short(m, Cardinality(InRam(keys, c)), more)
  PROVE  Within(more)'
<1>1. PICK D : D = MemoDel(keys, c, v, x)
  OBVIOUS
<1>2. /\ chnks' = keys \ KeysOf(v, D) /\ chnk' = ChnkAfterDel(c, v, D)
      /\ mem_used' = MemAfterDel(m, c, v, D)
  BY <1>1, Zenon DEF StoreWithMemo
<1>3. D \subseteq ChnkIdxs /\ \A i \in D : <<v, i>> \in keys
  <2>1. x.min_chnk_idx \in Int /\ MemoMin(x) \in Int
    BY DEF VctrVal, MemoMin
  <2> QED BY <1>1, <2>1, KeyParts DEF MemoDel, Keys
<1>4. Short(MemAfterDel(m, c, v, D),
            Cardinality(InRam(keys \ KeysOf(v, D), ChnkAfterDel(c, v, D))), more)
  BY <1>3, DelRam
<1> QED BY <1>2, <1>4, Zenon DEF Within

(* The chunk table with the chunks D of v made, in RAM and counted.        *)
LEMMA MadeRam ==
  ASSUME TypeOK, NEW more \in Nat, Within(more), MemRoom, NEW v \in Uqids,
         NEW D, D \subseteq ChnkIdxs, NEW keys, keys \subseteq Keys, NEW c,
         \A k \in Keys : k \in keys /\ c[k].l1_mem <=> Loaded(k) \/ k \in KeysOf(v, D),
         \A k \in Keys : k \in KeysOf(v, D) => ~Loaded(k)
  PROVE  /\ incr_mem_used(mem_used, Cardinality(D)) \in Nat
         /\ Short(incr_mem_used(mem_used, Cardinality(D)), Cardinality(InRam(keys, c)), more)
         /\ Cardinality(D) = 1 =>
              Short(mem_used, Cardinality(InRam(keys, c)), more + 1)
<1>1. PICK S, T : S = InRam(chnks, chnk) /\ T = InRam(keys, c)
  OBVIOUS
<1>2. /\ S \subseteq Keys /\ T \subseteq Keys
      /\ \A k \in Keys : (k \in S <=> Loaded(k)) /\ (k \in T <=> k \in keys /\ c[k].l1_mem)
  BY <1>1 DEF TypeOK, InRam, Loaded
<1>3. Cardinality(T) = Cardinality(S) + Cardinality(D)
  BY <1>2, MoreKeys
<1>4. Cardinality(D) \in Nat /\ Cardinality(D) <= MaxChnks /\ Cardinality(S) \in Nat
  BY <1>2, KeysCount, KeysFinite, FS_CardinalityType
<1>5. Short(mem_used, Cardinality(S), more)
  BY <1>1 DEF Within
<1>6. mem_used \in Nat /\ MemAllowed \in Nat /\ MaxChnks \in Nat
  BY BoundsAssumption DEF BoundsAssumption, TypeOK
<1>7. /\ incr_mem_used(mem_used, Cardinality(D)) = mem_used + Cardinality(D)
      /\ incr_mem_used(mem_used, Cardinality(D)) \in Nat
  BY <1>4, <1>6 DEF MemRoom, incr_mem_used
<1>8. /\ Short(mem_used + Cardinality(D), Cardinality(T), more)
      /\ Cardinality(D) = 1 => Short(mem_used, Cardinality(T), more + 1)
  BY <1>3, <1>4, <1>5, <1>6 DEF Short
<1> QED BY <1>1, <1>7, <1>8

(* vctr_putn(), vctr_put_chunk() and vctr_eov().  A buffer given away      *)
(* leaves the account one chunk shorter.                                   *)
LEMMA PutMem ==
  ASSUME TypeOK, CopyInv, NEW more \in Nat, Within(more), MemRoom,
         VctrPutn \/ VctrPutChunk \/ VctrEov
  PROVE  Within(more)' \/ (PutsStolen /\ Within(more + 1)')
<1>0. /\ \A v \in Uqids : vctr[v] \in VctrVal
      /\ chnks \subseteq Keys /\ chnk \in [Keys -> ChnkVal]
      /\ mem_used \in Nat /\ Short(mem_used, Cardinality(InRam(chnks, chnk)), more)
  BY DEF TypeOK, Within
<1>1. CASE VctrPutn
  <2>1. PICK v \in Uqids, n \in 1..(MaxNumInChnk + 1) : vctr_putn(v, n)
    BY <1>1 DEF VctrPutn
  <2>2. PICK y, keys, c, m :
           /\ StoreWithMemo(v, y, FALSE, keys, c, m)
           /\ y \in VctrVal /\ keys \subseteq Keys /\ c \in [Keys -> ChnkVal]
           /\ m = incr_mem_used(mem_used, Cardinality(NewIdxs(v, n)))
           /\ \A k \in Keys :
                /\ k \in keys <=> \/ k \in chnks
                                  \/ /\ k[1] = v
                                     /\ SlotsFor(k[2], vctr[v].num_elements, n) # {}
                /\ Filled_n(c, v, n, k)
    BY <2>1, PutnShape
  <2>3. PICK D : D = NewIdxs(v, n)
    OBVIOUS
  <2>4. ASSUME NEW k \in Keys
        PROVE  /\ k \in keys /\ c[k].l1_mem <=> Loaded(k) \/ k \in KeysOf(v, D)
               /\ k \in KeysOf(v, D) => ~Loaded(k)
    <3>1. PICK S : S = SlotsFor(k[2], vctr[v].num_elements, n)
      OBVIOUS
    <3>2. k \in KeysOf(v, D) <=> k[1] = v /\ S # {} /\ k \notin chnks
      BY <2>3, <3>1, KeyInKeysOf, KeyParts DEF NewIdxs, chnk_is
    <3>3. k \in keys <=> k \in chnks \/ (k[1] = v /\ S # {})
      BY <2>2, <3>1
    <3>4. Filled_n(c, v, n, k)
      BY <2>2
    <3>5. /\ k \in chnks => c[k].l1_mem = chnk[k].l1_mem
          /\ k \notin chnks /\ k[1] = v /\ S # {} => c[k].l1_mem
      BY <3>1, <3>4 DEF Filled_n
    <3> QED BY <3>2, <3>3, <3>5 DEF Loaded
  <2>5. D \subseteq ChnkIdxs
    BY <2>3 DEF NewIdxs
  <2>6. m \in Nat /\ Short(m, Cardinality(InRam(keys, c)), more)
    BY <2>2, <2>3, <2>4, <2>5, MadeRam
  <2>7. PICK f : f = FALSE
    OBVIOUS
  <2> QED BY <2>2, <2>6, <2>7, StoreMem
<1>2. CASE VctrPutChunk
  <2>1. PICK v \in Uqids, n \in 1..MaxNumInChnk, s \in Steals : vctr_put_chunk(v, n, s)
    BY <1>2 DEF VctrPutChunk
  <2>2. s \in BOOLEAN /\ (s => PutsStolen)
    BY <2>1, InputsAssumption DEF InputsAssumption, PutsStolen
  <2>3. PICK f : f = FALSE
    OBVIOUS
  <2> DEFINE x == vctr[v]
             i == IF x.num_elements = 0 THEN 0 ELSE x.max_chnk_idx + 1
             y == [x EXCEPT !.num_elements = @ + n, !.max_chnk_idx = i]
             keys == chnks \cup {<<v, i>>}
             d == [FreshChnk(x) EXCEPT !.num_elements = n, !.l1_data = 0..(n - 1)]
             c == [chnk EXCEPT ![<<v, i>>] = d]
             m == IF s THEN mem_used ELSE incr_mem_used(mem_used, 1)
             e == n < MaxNumInChnk /\ ~MemoFails(keys, c, v, y)
  <2>4. /\ v \in vctrs /\ ~x.is_eov /\ x.num_elements % MaxNumInChnk = 0 /\ i \in ChnkIdxs
        /\ \/ StoreWithMemo(v, x, f, chnks, chnk, mem_used)
           \/ StoreWithMemo(v, y, e, keys, c, m)
    BY <2>1, <2>3, Zenon DEF vctr_put_chunk
  <2>5. PutOk(v, y, keys, c) /\ <<v, i>> \notin chnks
    BY <2>4, PutChunkOk
  <2>6. d.l1_mem
    BY DEF FreshChnk, ZeroChnk
  <2>7. m = IF s THEN mem_used ELSE incr_mem_used(mem_used, 1)
    OBVIOUS
  <2> HIDE DEF d
  <2>8. \A k \in Keys : c[k] = IF k = <<v, i>> THEN d ELSE chnk[k]
    BY <1>0
  <2>9. y \in VctrVal /\ keys \subseteq Keys /\ c \in [Keys -> ChnkVal]
    BY <2>5 DEF PutOk
  <2>10. \A k \in Keys : k \in keys <=> k \in chnks \/ k = <<v, i>>
    OBVIOUS
  <2> HIDE DEF x, i, y, keys, c, m, e
  <2>11. CASE StoreWithMemo(v, x, f, chnks, chnk, mem_used)
    BY <1>0, <2>11, StoreMem DEF x
  <2>12. CASE StoreWithMemo(v, y, e, keys, c, m)
    <3>1. PICK D : D = {i}
      OBVIOUS
    <3>2. D \subseteq ChnkIdxs /\ Cardinality(D) = 1
      BY <2>4, <3>1, FS_Singleton
    <3>3. \A k \in Keys : k \in KeysOf(v, D) <=> k = <<v, i>>
      BY <2>4, <3>1, KeyInKeysOf, KeyParts
    <3>4. \A k \in Keys : /\ k \in keys /\ c[k].l1_mem <=> Loaded(k) \/ k \in KeysOf(v, D)
                          /\ k \in KeysOf(v, D) => ~Loaded(k)
      BY <2>5, <2>6, <2>8, <2>10, <3>3 DEF Loaded
    <3>5. /\ incr_mem_used(mem_used, 1) \in Nat
          /\ Short(incr_mem_used(mem_used, 1), Cardinality(InRam(keys, c)), more)
          /\ Short(mem_used, Cardinality(InRam(keys, c)), more + 1)
      BY <2>9, <3>2, <3>4, MadeRam
    <3>6. CASE s
      <4>1. PICK most \in Nat : most = more + 1
        OBVIOUS
      <4>2. m \in Nat /\ Short(m, Cardinality(InRam(keys, c)), most)
        BY <1>0, <2>7, <3>5, <3>6, <4>1
      <4>3. Within(most)'
        BY <2>9, <2>12, <4>2, StoreMem
      <4> QED BY <2>2, <3>6, <4>1, <4>3
    <3>7. CASE ~s
      <4>1. m \in Nat /\ Short(m, Cardinality(InRam(keys, c)), more)
        BY <2>7, <3>5, <3>7
      <4> QED BY <2>9, <2>12, <4>1, StoreMem
    <3> QED BY <3>6, <3>7
  <2> QED BY <2>4, <2>11, <2>12
<1>3. CASE VctrEov
  <2>1. PICK v \in Uqids : vctr_eov(v)
    BY <1>3 DEF VctrEov
  <2>2. PICK e : StoreWithMemo(v, vctr[v], e, chnks, chnk, mem_used)
    BY <2>1, Zenon DEF vctr_eov
  <2> QED BY <1>0, <2>2, StoreMem
<1> QED BY <1>1, <1>2, <1>3

(* Every step.                                                             *)
LEMMA NextMem ==
  ASSUME TypeOK, TypeOK', CopyInv, NEW more \in Nat, Within(more), MemRoom, Next
  PROVE  Within(more)' \/ (PutsStolen /\ Within(more + 1)')
<1>1. CASE GrowNext
  BY <1>1, QuietMem, PutMem, EarlyFreeMem DEF GrowNext
<1>2. CASE AccessNext
  BY <1>2, GetMem, QuietMem, DropMem, FilesMem DEF AccessNext
<1>3. CASE TierNext
  BY <1>3, DropMem, FilesMem, QuietMem, MakeMem, SetLmaMem DEF TierNext
<1>4. CASE LifeNext
  BY <1>4, QuietMem, DeletionMem DEF LifeNext
<1> QED BY <1>1, <1>2, <1>3, <1>4 DEF Next

-----------------------------------------------------------------------------
(* g_mem_used is the memory of the chunks in RAM, but for the buffers that *)
(* were given away: every operation that makes, loads, drops or deletes a  *)
(* chunk, in a loop or on its own, counts it, and none counts one twice.   *)
(* A buffer that vctr_put_chunk() takes over is not added, and leaves the  *)
(* account short by no more than itself, however chunks come and go.  It   *)
(* takes that no quota is hit, for then incr_mem_used() leaves the counter *)
(* alone and nobody learns of it.                                          *)
THEOREM VctrMemWithin == StolenSpec /\ []MemRoom => []MemWithin
<1>1. StolenSpec => Spec
  <2>1. StolenInit => Init
    BY DEF StolenInit
  <2>2. [StolenNext]_<<vars, stolen>> => [Next]_vars
    BY DEF StolenNext
  <2> QED BY <2>1, <2>2, PTL DEF StolenSpec, Spec
<1> DEFINE StolenInv == stolen \in Nat /\ Within(stolen)
<1>2. StolenInit => StolenInv
  <2> SUFFICES ASSUME StolenInit PROVE StolenInv
    OBVIOUS
  <2>1. chnks = {} /\ mem_used = 0 /\ stolen = 0
    BY DEF StolenInit, Init, VctrInit
  <2>2. InRam(chnks, chnk) = {}
    BY <2>1 DEF InRam
  <2> QED BY <2>1, <2>2, FS_EmptySet DEF Within, Short
<1>3. TypeOK /\ TypeOK' /\ CopyInv /\ MemRoom /\ StolenInv /\ [StolenNext]_<<vars, stolen>>
      => StolenInv'
  <2> SUFFICES ASSUME TypeOK, TypeOK', CopyInv, MemRoom, StolenInv,
                      [StolenNext]_<<vars, stolen>>
               PROVE  StolenInv'
    OBVIOUS
  <2>1. PICK more \in Nat : more = stolen
    OBVIOUS
  <2>2. Within(more)
    BY <2>1
  <2>3. CASE StolenNext
    <3>1. Within(more)' \/ (PutsStolen /\ Within(more + 1)')
      BY <2>2, <2>3, NextMem DEF StolenNext
    <3>2. Within(more)' => Within(more + 1)'
      <4>1. PICK m, q : m \in Nat /\ m = mem_used' /\ q = Cardinality(InRam(chnks, chnk)')
        BY DEF TypeOK
      <4>2. q \in Nat
        <5>1. InRam(chnks, chnk)' \subseteq Keys
          BY LoadedCount
        <5> QED BY <4>1, <5>1, KeysFinite, FS_CardinalityType
      <4>3. Short(m, q, more) => Short(m, q, more + 1)
        BY <4>1, <4>2 DEF Short
      <4> QED BY <4>1, <4>3 DEF Within
    <3>3. stolen' = IF PutsStolen THEN more + 1 ELSE more
      BY <2>1, <2>3 DEF StolenNext
    <3>4. CASE PutsStolen
      <4>1. Within(more + 1)' /\ stolen' = more + 1
        BY <3>1, <3>2, <3>3, <3>4
      <4>2. stolen' \in Nat
        BY <4>1
      <4> QED BY <4>1, <4>2 DEF Within
    <3>5. CASE ~PutsStolen
      <4>1. Within(more)' /\ stolen' = more
        BY <3>1, <3>3, <3>5
      <4> QED BY <4>1 DEF Within
    <3> QED BY <3>4, <3>5
  <2>4. CASE UNCHANGED <<vars, stolen>>
    <3>1. chnks' = chnks /\ chnk' = chnk /\ mem_used' = mem_used /\ stolen' = stolen
      BY <2>4 DEF vars, chnkTable, usage
    <3> QED BY <3>1 DEF Within, InRam
  <2> QED BY <2>3, <2>4
<1>4. StolenInv => MemWithin
  BY DEF Within, Short, MemWithin, InRam
<1> HIDE DEF StolenInv
<1> QED BY <1>1, <1>2, <1>3, <1>4, VctrTypeOK, VctrCopyInv, PTL DEF StolenSpec

(* So the account is exact for as long as no buffer has been given away.   *)
THEOREM VctrMemExact == StolenSpec /\ []MemRoom => [](stolen = 0 => MemExact)
<1>1. []TypeOK /\ []MemWithin => [](stolen = 0 => MemExact)
  <2>1. TypeOK /\ MemWithin => (stolen = 0 => MemExact)
    <3> SUFFICES ASSUME TypeOK, MemWithin, stolen = 0 PROVE MemExact
      OBVIOUS
    <3>1. PICK q : q = Cardinality({k \in chnks : chnk[k].l1_mem})
      OBVIOUS
    <3>2. q \in Nat /\ mem_used \in Nat
      <4>1. {k \in chnks : chnk[k].l1_mem} \subseteq Keys
        BY DEF TypeOK
      <4> QED BY <3>1, <4>1, KeysFinite, FS_CardinalityType DEF TypeOK
    <3>3. mem_used <= q /\ q <= mem_used + 0
      BY <3>1 DEF MemWithin
    <3> QED BY <3>1, <3>2, <3>3 DEF MemExact
  <2> QED BY <2>1, PTL
<1>2. StolenSpec => []TypeOK
  <2>1. StolenInit => Init
    BY DEF StolenInit
  <2>2. [StolenNext]_<<vars, stolen>> => [Next]_vars
    BY DEF StolenNext
  <2> QED BY <2>1, <2>2, VctrTypeOK, PTL DEF StolenSpec, Spec
<1> QED BY <1>1, <1>2, VctrMemWithin, PTL

-----------------------------------------------------------------------------
(* Whole vectors.  A vector that sheds no chunks has them all, from the    *)
(* first on: this takes no supposition about readers.                      *)

\* the vector keeps the chunks it has got
KeepsAll(x) == x.memo_len = 0 /\ ~x.is_early_freeable

Whole(v) ==
  v \in Live /\ KeepsAll(vctr[v]) /\ vctr[v].num_elements > 0 =>
    0..vctr[v].max_chnk_idx \subseteq Present(v)

WholeInv == \A v \in Uqids : Whole(v)

(* What rests stays whole.                                                 *)
LEMMA RestsWhole ==
  ASSUME TypeOK, TypeOK', NEW u \in Uqids, Whole(u), Rests(u)
  PROVE  Whole(u)'
<1> SUFFICES ASSUME u \in Live', KeepsAll(vctr'[u]), vctr'[u].num_elements > 0
             PROVE  0..vctr'[u].max_chnk_idx \subseteq Present(u)'
  BY DEF Whole
<1>1. u \in Live /\ u \in vctrs
  BY DEF Rests, Live
<1>2. RowStays(vctr[u], vctr'[u])
  BY <1>1 DEF Rests
<1>3. vctr[u].num_elements \in Nat /\ vctr'[u].num_elements \in Nat
  BY LivesType DEF TypeOK
<1>4. /\ KeepsAll(vctr[u]) /\ vctr[u].num_elements > 0
      /\ vctr'[u].max_chnk_idx = vctr[u].max_chnk_idx
  BY <1>2, <1>3 DEF RowStays, KeepsAll
<1>5. \A i \in ChnkIdxs : <<u, i>> \in chnks' <=> <<u, i>> \in chnks
  BY KeyParts DEF Rests
<1>6. Present(u)' = Present(u)
  BY <1>5 DEF Present, chnk_is
<1> QED BY <1>1, <1>4, <1>6 DEF Whole

(* A step on the vectors W, if these come out whole.                       *)
LEMMA OnlyWhole ==
  ASSUME TypeOK, TypeOK', WholeInv, NEW W, \A u \in Uqids \ W : Rests(u),
         \A v \in Uqids \cap W : Whole(v)'
  PROVE  WholeInv'
<1>1. \A u \in Uqids \ W : Whole(u)'
  BY RestsWhole DEF WholeInv
<1> QED BY <1>1 DEF WholeInv

(* A step that leaves rows and the keys of the chunk table alone.          *)
LEMMA QuietWhole ==
  ASSUME TypeOK, TypeOK', WholeInv, RangesStay, chnks' = chnks
  PROVE  WholeInv'
<1> SUFFICES ASSUME NEW u \in Uqids PROVE Whole(u)'
  BY DEF WholeInv
<1> SUFFICES ASSUME u \in Live', KeepsAll(vctr'[u]), vctr'[u].num_elements > 0
             PROVE  0..vctr'[u].max_chnk_idx \subseteq Present(u)'
  BY DEF Whole
<1>1. u \in Live /\ u \in vctrs
  BY DEF RangesStay, Live
<1>2. RowStays(vctr[u], vctr'[u])
  BY <1>1 DEF RangesStay
<1>3. vctr[u].num_elements \in Nat /\ vctr'[u].num_elements \in Nat
  BY LivesType DEF TypeOK
<1>4. /\ KeepsAll(vctr[u]) /\ vctr[u].num_elements > 0
      /\ vctr'[u].max_chnk_idx = vctr[u].max_chnk_idx
  BY <1>2, <1>3 DEF RowStays, KeepsAll
<1>5. Present(u)' = Present(u)
  BY DEF Present, chnk_is
<1> QED BY <1>1, <1>4, <1>5 DEF Whole, WholeInv

(* Reading, writing, making and dropping copies, attributes and ties.      *)
LEMMA QuietStepsWhole ==
  ASSUME TypeOK, TypeOK', CopyInv, WholeInv,
         \/ (AccessNext \/ TierNext) /\ ~SetLma
         \/ VctrPersist \/ VctrSetMemo \/ SetKillable \/ SetFreeable \/ SetError
         \/ SetNnVec
  PROVE  WholeInv'
<1>1. CASE AccessNext
  BY <1>1, AccessRanges, AccessCounts, QuietWhole DEF SameCounts
<1>2. CASE TierNext /\ ~SetLma
  BY <1>2, TierRanges, TierCounts, RowsCounts, QuietWhole DEF TierNext, SameCounts
<1>3. CASE \/ VctrPersist \/ VctrSetMemo \/ SetKillable \/ SetFreeable \/ SetError
           \/ SetNnVec
  <2>1. SameTable
    BY <1>3, AttributesKeep
  <2> QED BY <2>1, SameTableStays, QuietWhole DEF SameTable
<1> QED BY <1>1, <1>2, <1>3

(* New vectors are empty.                                                  *)
LEMMA NewWhole ==
  ASSUME TypeOK, TypeOK', WholeInv, VctrAdd \/ AddWithNn
  PROVE  WholeInv'
<1>1. CASE VctrAdd
  <2>1. PICK q \in Qtypes, memo \in MemoLens, kills \in {Never} \cup KillIgnores,
             frees \in {Never} \cup FreeIgnores : vctr_add(q, memo, kills, frees)
    BY <1>1 DEF VctrAdd
  <2>2. PICK u, y : u = g_vctr_uqid + 1 /\ y = NewVctr(q, memo, kills, frees)
    OBVIOUS
  <2>3. /\ u \in Uqids
        /\ \/ UNCHANGED <<vctrs, vctr>>
           \/ vctrs' = vctrs \cup {u} /\ vctr' = [vctr EXCEPT ![u] = y]
        /\ UNCHANGED <<chnks, chnk, l2, half_deleted>>
    BY <2>1, <2>2 DEF vctr_add, chnkTable, client
  <2>4. CASE UNCHANGED <<vctrs, vctr>>
    BY <2>3, <2>4 DEF WholeInv, Whole, Live, Present, chnk_is
  <2>5. CASE vctrs' = vctrs \cup {u} /\ vctr' = [vctr EXCEPT ![u] = y]
    <3>1. \A w \in Uqids \ {u} : Rests(w)
      BY <2>3, <2>5, OthersUntouched, UntouchedRests
    <3>2. vctr'[u] = y /\ y.num_elements = 0
      BY <2>2, <2>3, <2>5 DEF TypeOK, NewVctr, ZeroVctr
    <3>3. Whole(u)'
      BY <3>2 DEF Whole
    <3>4. PICK W : W = {u}
      OBVIOUS
    <3> QED BY <3>1, <3>3, <3>4, OnlyWhole
  <2> QED BY <2>3, <2>4, <2>5
<1>2. CASE AddWithNn
  <2>1. PICK q \in Qtypes, memo \in MemoLens, kills \in {Never} \cup KillIgnores,
             frees \in {Never} \cup FreeIgnores : NewWithNn(q, memo, kills, frees)
    BY <1>2 DEF AddWithNn
  <2>2. PICK b, n, p, r : /\ b = g_vctr_uqid + 1 /\ n = g_vctr_uqid + 2
                          /\ p = NewVctr(q, memo, kills, frees)
                          /\ r = NewVctr("BL", memo, kills, frees)
    OBVIOUS
  <2>3. /\ b \in Uqids /\ n \in Uqids /\ vctrs' = vctrs \cup {b, n}
        /\ vctr' = Tied([vctr EXCEPT ![b] = p, ![n] = r], b, n)
        /\ UNCHANGED <<chnks, chnk, l2, half_deleted>>
    BY <2>1, <2>2 DEF NewWithNn, rest, chnkTable, client
  <2>4. b # n
    BY <2>2 DEF TypeOK
  <2>5. PICK y, z : y = [p EXCEPT !.nn_key = n] /\ z = [r EXCEPT !.parent_key = b]
    OBVIOUS
  <2>6. /\ p \in VctrVal /\ p.num_elements = 0 /\ r \in VctrVal /\ r.num_elements = 0
    <3>1. /\ q \in {"BL", "SC", "I4"} /\ memo \in Nat
          /\ kills \in Nat \cup {Never} /\ frees \in Nat \cup {Never}
      BY InputTypes
    <3>2. p \in VctrVal /\ r \in VctrVal
      BY <2>2, <3>1, NewVctrType
    <3> QED BY <2>2, <3>2 DEF NewVctr, ZeroVctr
  <2>7. y.num_elements = 0 /\ z.num_elements = 0
    BY <2>5, <2>6 DEF VctrVal
  <2>8. vctr'[b] = y /\ vctr'[n] = z /\ \A u \in Uqids \ {b, n} : vctr'[u] = vctr[u]
    BY <2>3, <2>4, <2>5 DEF TypeOK, Tied
  <2>9. \A u \in Uqids \ {b, n} : Rests(u)
    <3> SUFFICES ASSUME NEW u \in Uqids \ {b, n} PROVE Rests(u)
      OBVIOUS
    <3>1. vctr'[u] = vctr[u] /\ RowStays(vctr[u], vctr[u])
      BY <2>8, FieldsStay DEF TypeOK
    <3> QED BY <2>3, <3>1 DEF Rests, Live
  <2>10. Whole(b)' /\ Whole(n)'
    BY <2>7, <2>8 DEF Whole
  <2>11. PICK W : W = {b, n}
    OBVIOUS
  <2>12. (\A u \in Uqids \ W : Rests(u)) /\ \A v \in Uqids \cap W : Whole(v)'
    BY <2>9, <2>10, <2>11
  <2> QED BY <2>12, OnlyWhole
<1> QED BY <1>1, <1>2

\* the chunk table keys has all the chunks of row x of v
WholePut(v, x, keys) ==
  v \in Live /\ KeepsAll(x) /\ x.num_elements > 0 =>
    \A i \in 0..x.max_chnk_idx : <<v, i>> \in keys

(* Memo deletes nothing of a vector that keeps all.                        *)
LEMMA StoreWhole ==
  ASSUME TypeOK, TypeOK', WholeInv, NEW v \in vctrs, NEW x, NEW e \in BOOLEAN,
         NEW keys, NEW c, NEW m, PutOk(v, x, keys, c), WholePut(v, x, keys),
         StoreWithMemo(v, x, e, keys, c, m), UNCHANGED <<g_vctr_uqid, vctrs, half_deleted>>
  PROVE  WholeInv'
<1>0. /\ v \in Uqids /\ x \in VctrVal /\ keys \subseteq Keys /\ c \in [Keys -> ChnkVal]
  BY DEF PutOk, TypeOK
<1>1. PICK y : y = [x EXCEPT !.min_chnk_idx = MemoMin(x), !.is_eov = e]
  OBVIOUS
<1>2. vctr' = [vctr EXCEPT ![v] = y] /\ vctr'[v] = y
  BY <1>0, <1>1 DEF StoreWithMemo, TypeOK
<1>3. /\ y.num_elements = x.num_elements /\ y.max_chnk_idx = x.max_chnk_idx
      /\ KeepsAll(y) => KeepsAll(x)
  BY <1>0, <1>1 DEF VctrVal, KeepsAll
<1>5. \A u \in Uqids \ {v} : Rests(u)
  <2>1. \A k \in Keys : k[1] # v =>
          (k \in chnks' <=> k \in chnks) /\ chnk'[k] = chnk[k] /\ l2'[k] = l2[k]
    BY <1>0, MemoLeaves DEF PutOk
  <2> QED BY <1>0, <1>2, <2>1, OthersUntouched, UntouchedRests
<1>6. Whole(v)'
  <2> SUFFICES ASSUME v \in Live', KeepsAll(y), y.num_elements > 0,
                      NEW i \in 0..y.max_chnk_idx
               PROVE  i \in Present(v)'
    BY <1>2 DEF Whole
  <2>1. <<v, i>> \in keys /\ KeepsAll(x)
    BY <1>3 DEF WholePut, Live
  <2>2. MemoMin(x) = 0
    <3>1. x.min_chnk_idx = 0
      BY <2>1 DEF KeepsAll, PutOk
    <3> QED BY <2>1, <3>1 DEF MemoMin, KeepsAll
  <2>3. <<v, i>> \in Keys /\ i \in ChnkIdxs /\ i >= 0
    BY <1>0, <2>1 DEF Keys, ChnkIdxs
  <2>4. PICK k : k = <<v, i>>
    OBVIOUS
  <2>5. k \in keys /\ k \in Keys /\ k[1] = v /\ k[2] >= MemoMin(x)
    BY <2>1, <2>2, <2>3, <2>4
  <2>6. k \in chnks'
    BY <1>0, <2>5, MemoLeaves
  <2> QED BY <2>3, <2>4, <2>6 DEF Present, chnk_is
<1>9. PICK W : W = {v}
  OBVIOUS
<1> QED BY <1>5, <1>6, <1>9, OnlyWhole

(* put1 and putn leave no gap, and put_chunk makes the next chunk.         *)
LEMMA PutWhole ==
  ASSUME TypeOK, TypeOK', CopyInv, WholeInv, VctrPutn \/ VctrPutChunk \/ VctrEov
  PROVE  WholeInv'
<1>0. PICK ff : ff = FALSE
  OBVIOUS
<1>9. ASSUME NEW v \in Uqids
      PROVE  v \in Live /\ KeepsAll(vctr[v]) /\ vctr[v].num_elements > 0 =>
               \A i \in 0..vctr[v].max_chnk_idx : <<v, i>> \in chnks
  BY DEF WholeInv, Whole, Present, chnk_is
<1>1. CASE VctrPutn
  <2>1. PICK v \in Uqids, n \in 1..(MaxNumInChnk + 1) : vctr_putn(v, n)
    BY <1>1 DEF VctrPutn
  <2>2. /\ v \in vctrs /\ ~vctr[v].is_eov /\ vctr[v].num_elements + n <= MaxElems
        /\ vctr[v].num_elements > 0 => chnk_is(v, vctr[v].max_chnk_idx)
        /\ UNCHANGED <<g_vctr_uqid, vctrs, half_deleted>>
    BY <2>1, Zenon DEF vctr_putn, client
  <2>3. PICK y, keys, c, m :
             /\ StoreWithMemo(v, y, ff, keys, c, m)
             /\ y \in VctrVal /\ keys \subseteq Keys /\ c \in [Keys -> ChnkVal]
             /\ y = [vctr[v] EXCEPT !.num_elements = vctr[v].num_elements + n,
                       !.max_chnk_idx = (vctr[v].num_elements + n - 1) \div MaxNumInChnk]
             /\ \A k \in Keys :
                  /\ k \in keys <=> \/ k \in chnks
                                    \/ /\ k[1] = v
                                       /\ SlotsFor(k[2], vctr[v].num_elements, n) # {}
                  /\ Filled_n(c, v, n, k)
    BY <1>0, <2>1, PutnShape
  <2>4. PutOk(v, y, keys, c)
    BY <2>2, <2>3, PutnOk
  <2>5. PICK x, t, last : /\ x = vctr[v] /\ t = vctr[v].num_elements
                          /\ last = (t + n - 1) \div MaxNumInChnk
    OBVIOUS
  <2>6. /\ x \in VctrVal /\ MaxNumInChnk \in Nat /\ MaxNumInChnk > 0
        /\ MaxChnks \in Nat /\ n \in Nat /\ n >= 1 /\ t \in Nat
        /\ x.max_chnk_idx \in Nat
    BY <2>5, BoundsAssumption, LivesType DEF TypeOK, BoundsAssumption
  <2>7. y.num_elements = t + n /\ y.max_chnk_idx = last /\ (KeepsAll(y) => KeepsAll(x))
    BY <2>3, <2>5, <2>6 DEF VctrVal, KeepsAll
  <2>8. last \in Nat /\ last < MaxChnks
    <3>1. PICK a, M : a = t + n - 1 /\ M = MaxNumInChnk
      OBVIOUS
    <3>2. a \in Nat /\ last = a \div M /\ last \in Nat
      BY <2>5, <2>6, <3>1, ChnkOf
    <3>3. (MaxChnks - 1) * M + M = MaxChnks * M
      BY <2>6, <3>1
    <3>4. a < MaxChnks * M
      BY <2>2, <2>5, <2>6, <3>1 DEF MaxElems
    <3>5. last <= MaxChnks - 1
      BY <2>6, <3>1, <3>2, <3>3, <3>4, ChnkBounds
    <3> QED BY <2>6, <3>2, <3>5
  <2>9. WholePut(v, y, keys)
    <3> SUFFICES ASSUME v \in Live, KeepsAll(y), NEW i \in 0..last PROVE <<v, i>> \in keys
      BY <2>7 DEF WholePut
    <3>1. i \in Nat /\ i <= last /\ i \in ChnkIdxs /\ <<v, i>> \in Keys
      BY <2>6, <2>8, KeyParts DEF ChnkIdxs
    <3>2. CASE t > 0 /\ i <= x.max_chnk_idx
      <4>1. <<v, i>> \in chnks
        BY <1>9, <2>5, <2>6, <2>7, <3>1, <3>2
      <4> QED BY <2>3, <3>1, <4>1
    <3>3. CASE t > 0 => x.max_chnk_idx < i
      <4>1. t > 0 => (t - 1) \div MaxNumInChnk < i
        <5>1. RowOk(x)
          BY <2>2, <2>5 DEF CopyInv, RowsOk
        <5> QED BY <2>2, <2>5, <3>3, <5>1 DEF RowOk
      <4>2. SlotsFor(i, t, n) # {}
        BY <2>5, <2>6, <3>1, <4>1, SlotsFilled
      <4>3. <<v, i>>[1] = v /\ <<v, i>>[2] = i
        OBVIOUS
      <4> QED BY <2>3, <2>5, <3>1, <4>2, <4>3
    <3> QED BY <2>6, <3>1, <3>2, <3>3
  <2>10. ff \in BOOLEAN
    BY <1>0
  <2> QED BY <2>2, <2>3, <2>4, <2>9, <2>10, StoreWhole
<1>2. CASE VctrPutChunk
  <2>1. PICK v \in Uqids, n \in 1..MaxNumInChnk, s \in Steals : vctr_put_chunk(v, n, s)
    BY <1>2 DEF VctrPutChunk
  <2> DEFINE x == vctr[v]
             i == IF x.num_elements = 0 THEN 0 ELSE x.max_chnk_idx + 1
             y == [x EXCEPT !.num_elements = @ + n, !.max_chnk_idx = i]
             keys == chnks \cup {<<v, i>>}
             c == [chnk EXCEPT ![<<v, i>>] =
                     [FreshChnk(x) EXCEPT !.num_elements = n, !.l1_data = 0..(n - 1)]]
             m == IF s THEN mem_used ELSE incr_mem_used(mem_used, 1)
             e == n < MaxNumInChnk /\ ~MemoFails(keys, c, v, y)
  <2>2. /\ v \in vctrs /\ ~x.is_eov /\ x.num_elements % MaxNumInChnk = 0 /\ i \in ChnkIdxs
        /\ \/ StoreWithMemo(v, x, ff, chnks, chnk, mem_used)
           \/ StoreWithMemo(v, y, e, keys, c, m)
        /\ UNCHANGED <<g_vctr_uqid, vctrs, half_deleted>>
    BY <1>0, <2>1, Zenon DEF vctr_put_chunk, client
  <2>3. PutOk(v, x, chnks, chnk) /\ PutOk(v, y, keys, c)
    BY <2>2, UnfinishedOk, PutChunkOk
  <2>4. e \in BOOLEAN /\ ff \in BOOLEAN
    BY <1>0
  <2>5. WholePut(v, x, chnks)
    BY <1>9 DEF WholePut
  <2>6. y.max_chnk_idx = i /\ (KeepsAll(y) => KeepsAll(x)) /\ x \in VctrVal
    BY DEF TypeOK, VctrVal, KeepsAll
  <2>7. WholePut(v, y, keys)
    <3> SUFFICES ASSUME v \in Live, KeepsAll(y), NEW j \in 0..i, j # i
                 PROVE  <<v, j>> \in chnks
      BY <2>6 DEF WholePut
    <3>1. x.max_chnk_idx \in Nat /\ x.num_elements \in Nat
      BY <2>6, LivesType
    <3>2. x.num_elements > 0 /\ j \in 0..x.max_chnk_idx
      BY <3>1
    <3> HIDE DEF x, y, i
    <3> QED BY <1>9, <2>6, <3>2 DEF x
  <2> HIDE DEF x, y, keys, c, m, e
  <2> QED BY <2>2, <2>3, <2>4, <2>5, <2>7, StoreWhole
<1>3. CASE VctrEov
  <2>1. PICK v \in Uqids : vctr_eov(v)
    BY <1>3 DEF VctrEov
  <2> DEFINE e == ~MemoFails(chnks, chnk, v, vctr[v])
  <2>2. /\ v \in vctrs /\ ~vctr[v].is_eov
        /\ StoreWithMemo(v, vctr[v], e, chnks, chnk, mem_used)
        /\ UNCHANGED <<g_vctr_uqid, vctrs, half_deleted>>
    BY <2>1 DEF vctr_eov, client
  <2>3. e \in BOOLEAN /\ WholePut(v, vctr[v], chnks)
    BY <1>9 DEF WholePut
  <2> HIDE DEF e
  <2> QED BY <2>2, <2>3, UnfinishedOk, StoreWhole
<1> QED BY <1>1, <1>2, <1>3

(* Early free is refused to a vector that keeps all.                       *)
LEMMA EarlyFreeWhole ==
  ASSUME TypeOK, TypeOK', WholeInv, VctrEarlyFree
  PROVE  WholeInv'
<1>0. PICK v \in Uqids : \E ub \in EarlyFreeArgs(v) : vctr_early_free(v, ub)
  BY DEF VctrEarlyFree
<1>1. PICK ub \in EarlyFreeArgs(v) : vctr_early_free(v, ub)
  BY <1>0
<1>2. /\ ub \in Int /\ v \in vctrs /\ vctr[v].is_early_freeable
      /\ UNCHANGED <<g_vctr_uqid, vctrs, half_deleted>>
  <2>1. ub \in Int
    BY <1>1 DEF EarlyFreeArgs
  <2> QED BY <1>1, <2>1, Zenon DEF vctr_early_free, client
<1>3. PICK D, top : EarlyFreed(v, D, top)
  BY <1>1, <1>2, EarlyFreeShape
<1>4. PICK y : y = [vctr[v] EXCEPT !.min_chnk_idx = top]
  OBVIOUS
<1>5. vctr' = [vctr EXCEPT ![v] = y] /\ vctr'[v] = y
  BY <1>3, <1>4 DEF EarlyFreed, TypeOK
<1>6. \A u \in Uqids \ {v} : Rests(u)
  <2>1. \A k \in Keys : k[1] # v =>
          (k \in chnks' <=> k \in chnks) /\ chnk'[k] = chnk[k] /\ l2'[k] = l2[k]
    BY <1>3 DEF EarlyFreed
  <2> QED BY <1>2, <1>5, <2>1, OthersUntouched, UntouchedRests
<1>7. ~KeepsAll(y)
  BY <1>2, <1>4 DEF TypeOK, VctrVal, KeepsAll
<1>8. Whole(v)'
  BY <1>5, <1>7 DEF Whole
<1>9. PICK W : W = {v}
  OBVIOUS
<1> QED BY <1>6, <1>8, <1>9, OnlyWhole

(* A file taken over has the chunks from 0 on, if memo does not apply.     *)
LEMMA SetLmaWhole ==
  ASSUME TypeOK, TypeOK', WholeInv, SetLma
  PROVE  WholeInv'
<1>1. PICK v \in Uqids, n \in 1..MaxElems : vctr_set_lma(v, n)
  BY DEF SetLma
<1>2. /\ v \in vctrs /\ vctr[v].num_elements = 0
      /\ UNCHANGED <<g_vctr_uqid, vctrs, l2, half_deleted>>
  BY <1>1, Zenon DEF vctr_set_lma, client
<1>3. PICK low, top : LmaSet(v, n, low, top)
  BY <1>1, SetLmaShape
<1>4. PICK y : y = [vctr[v] EXCEPT !.num_elements = n, !.min_chnk_idx = low,
                            !.max_chnk_idx = top, !.is_eov = TRUE, !.is_lma = TRUE]
  OBVIOUS
<1>5. /\ vctr[v] \in VctrVal /\ vctr' = [vctr EXCEPT ![v] = y] /\ vctr'[v] = y
      /\ top \in ChnkIdxs /\ (vctr[v].memo_len = 0 => low = 0)
  BY <1>3, <1>4 DEF TypeOK, LmaSet
<1>6. y.max_chnk_idx = top /\ y.memo_len = vctr[v].memo_len
  BY <1>4, <1>5 DEF VctrVal
<1>7. \A k \in Keys : k \in chnks' <=> k \in chnks \/ (k[1] = v /\ k[2] \in low..top)
  BY <1>3 DEF LmaSet
<1>8. \A u \in Uqids \ {v} : Rests(u)
  <2>1. \A k \in Keys : k[1] # v => chnk'[k] = chnk[k]
    BY <1>3 DEF LmaSet
  <2>2. \A k \in Keys : k[1] # v =>
          (k \in chnks' <=> k \in chnks) /\ chnk'[k] = chnk[k] /\ l2'[k] = l2[k]
    BY <1>2, <1>7, <2>1
  <2> QED BY <1>2, <1>5, <2>2, OthersUntouched, UntouchedRests
<1>9. Whole(v)'
  <2> SUFFICES ASSUME KeepsAll(y), NEW i \in 0..top PROVE i \in Present(v)'
    BY <1>5, <1>6 DEF Whole
  <2>1. i \in low..top /\ i \in ChnkIdxs
    BY <1>5, <1>6, BoundsAssumption DEF KeepsAll, ChnkIdxs, BoundsAssumption
  <2>2. <<v, i>> \in Keys /\ <<v, i>>[1] = v /\ <<v, i>>[2] = i
    BY <2>1, KeyParts
  <2>3. <<v, i>> \in chnks'
    BY <1>7, <2>1, <2>2
  <2> QED BY <2>1, <2>3 DEF Present, chnk_is
<1>10. PICK W : W = {v}
  OBVIOUS
<1> QED BY <1>8, <1>9, <1>10, OnlyWhole

(* Deletion takes chunks of the one vector it ends, or breaks.             *)
LEMMA DeletionWhole ==
  ASSUME TypeOK, TypeOK', WholeInv, Delete \/ Kill \/ BrkNnVec
  PROVE  WholeInv'
<1>1. CASE /\ \A u \in Uqids : Keeps(vctr[u], vctr'[u])
           /\ UNCHANGED <<g_vctr_uqid, vctrs, rest>>
  <2>1. SameTable /\ chnks' = chnks
    BY <1>1 DEF SameTable, TypeOK, rest, chnkTable, client
  <2> QED BY <2>1, SameTableStays, QuietWhole
<1>2. ASSUME NEW v \in vctrs, NEW D, Deleted(v, D) PROVE WholeInv'
  <2>1. ASSUME NEW u \in Uqids \ {v} PROVE Rests(u)
    <3>1. Keeps(vctr[u], vctr'[u]) /\ (u \in vctrs' <=> u \in vctrs)
      BY <1>2 DEF Deleted
    <3>2. u \in Live' => u \in Live
      BY <1>2 DEF Deleted, Live
    <3>3. \A k \in Keys : k[1] = u =>
            (k \in chnks' <=> k \in chnks) /\ chnk'[k] = chnk[k] /\ l2'[k] = l2[k]
      BY <1>2 DEF Deleted
    <3>4. Untouched(u)
      BY <3>1, <3>2, <3>3 DEF Untouched
    <3> QED BY <3>1, <3>4, UntouchedRests
  <2>2. v \notin Live'
    BY <1>2 DEF Deleted, Live
  <2>3. Whole(v)'
    BY <2>2 DEF Whole
  <2>4. PICK W : W = {v}
    OBVIOUS
  <2> QED BY <2>1, <2>3, <2>4, OnlyWhole
<1> QED BY <1>1, <1>2, DeletionShape

(* WholeInv is an invariant.                                               *)
LEMMA VctrWholeInv == Spec => []WholeInv
<1>1. Init => WholeInv
  BY DEF Init, VctrInit, WholeInv, Whole, Live
<1>2. TypeOK /\ TypeOK' /\ CopyInv /\ WholeInv /\ [Next]_vars => WholeInv'
  <2> SUFFICES ASSUME TypeOK, TypeOK', CopyInv, WholeInv, [Next]_vars PROVE WholeInv'
    OBVIOUS
  <2>1. CASE UNCHANGED vars
    <3>1. SameTable
      BY <2>1, TableUntouched DEF vars, vctrTable, chnkTable, client
    <3> QED BY <3>1, SameTableStays, QuietWhole DEF SameTable
  <2>2. CASE GrowNext
    BY <2>2, NewWhole, PutWhole, EarlyFreeWhole DEF GrowNext
  <2>3. CASE AccessNext \/ TierNext
    BY <2>3, SetLmaWhole, QuietStepsWhole
  <2>4. CASE LifeNext
    BY <2>4, NewWhole, QuietStepsWhole, DeletionWhole DEF LifeNext
  <2> QED BY <2>1, <2>2, <2>3, <2>4 DEF Next
<1> QED BY <1>1, <1>2, VctrTypeOK, VctrCopyInv, PTL DEF Spec

-----------------------------------------------------------------------------
(* Disk.                                                                   *)

Full(k)   == l2[k].file = "full"
FullFiles == {k \in Keys : Full(k)}
LmaTotal  == SumTo([v \in Uqids |-> lma[v].size], MaxUqid)

\* there is disk left for the files of one more vector
DskRoom == dsk_used + MaxElems <= DskAllowed

\* the linear file has the size of the vector x; without one there is no file,
\* unless a failing vctr_set_lma() left it
SizeFits(x, size) == IF x.is_lma THEN size = x.num_elements ELSE FilesFail \/ size = 0

LmaSized(v) ==
  /\ v > g_vctr_uqid => lma[v].size = 0
  /\ v \in vctrs => SizeFits(vctr[v], lma[v].size) /\ vctr[v].num_elements <= MaxElems

SizedInv == half_deleted = {} => \A v \in Uqids : LmaSized(v)

(* One summand changes by d, and so does the sum.                          *)
LEMMA SumChanges ==
  ASSUME NEW n \in Nat, NEW f \in [1..n -> Int], NEW g \in [1..n -> Int],
         NEW j \in 1..n, NEW d \in Int,
         \A i \in 1..n : g[i] = f[i] + (IF i = j THEN d ELSE 0)
  PROVE  /\ SumTo(f, n) \in Int /\ SumTo(g, n) \in Int
         /\ SumTo(g, n) = SumTo(f, n) + d
<1>1. PICK e \in Int : e = -d
  OBVIOUS
<1>2. j \in Int
  OBVIOUS
<1>3. \A i \in 1..n : g[i] >= f[i] + (IF i = j THEN d ELSE 0)
  OBVIOUS
<1>4. ASSUME NEW i \in 1..n PROVE f[i] >= g[i] + (IF i = j THEN e ELSE 0)
  <2>1. g[i] = f[i] + (IF i = j THEN d ELSE 0) /\ f[i] \in Int /\ g[i] \in Int
    OBVIOUS
  <2>2. CASE i = j
    BY <1>1, <2>1, <2>2
  <2>3. CASE i # j
    BY <1>1, <2>1, <2>3
  <2> QED BY <2>2, <2>3
<1>5. /\ SumTo(f, n) \in Int /\ SumTo(g, n) \in Int
      /\ SumTo(g, n) >= SumTo(f, n) + d
  BY <1>2, <1>3, SumGrows
<1>6. SumTo(f, n) >= SumTo(g, n) + e
  BY <1>2, <1>4, SumGrows
<1>7. PICK p, q : p = SumTo(f, n) /\ q = SumTo(g, n)
  OBVIOUS
<1>8. p \in Int /\ q \in Int /\ q >= p + d /\ p >= q + e
  BY <1>5, <1>6, <1>7
<1>9. q = p + d
  BY <1>1, <1>8
<1> QED BY <1>7, <1>8, <1>9

(* No summand is more than the sum.                                        *)
LEMMA SumHolds ==
  ASSUME NEW n \in Nat, NEW f \in [1..n -> Int], \A i \in 1..n : f[i] >= 0, NEW j \in 1..n
  PROVE  SumTo(f, n) \in Int /\ SumTo(f, n) >= f[j]
<1>1. PICK z : z = [i \in 1..n |-> 0]
  OBVIOUS
<1>2. z \in [1..n -> Int] /\ \A i \in 1..n : z[i] = 0
  BY <1>1
<1>3. PICK d \in Int : d = f[j]
  OBVIOUS
<1>4. \A i \in 1..n : f[i] >= z[i] + (IF i = j THEN d ELSE 0)
  BY <1>2, <1>3
<1>5. j \in Int
  OBVIOUS
<1>6. SumTo(f, n) \in Int /\ SumTo(f, n) >= SumTo(z, n) + d /\ SumTo(z, n) \in Int
  BY <1>2, <1>4, <1>5, SumGrows
<1>7. SumTo(z, n) = 0
  BY <1>2, SumZero
<1> QED BY <1>3, <1>6, <1>7

(* The sizes of files, one for each vector, taken together.                *)
LEMMA SizesSum ==
  ASSUME NEW g, \A v \in Uqids : g[v].size \in Nat,
         NEW t, t = SumTo([v \in Uqids |-> g[v].size], MaxUqid)
  PROVE  t \in Nat /\ \A v \in Uqids : g[v].size <= t
<1>1. PICK f, n : f = [v \in Uqids |-> g[v].size] /\ n = MaxUqid
  OBVIOUS
<1>2. n \in Nat /\ n > 0 /\ Uqids = 1..n
  BY <1>1, BoundsAssumption DEF BoundsAssumption, Uqids
<1>3. f \in [1..n -> Int] /\ \A v \in 1..n : f[v] = g[v].size /\ f[v] >= 0
  BY <1>1, <1>2
<1>4. \A v \in 1..n : SumTo(f, n) \in Int /\ SumTo(f, n) >= f[v]
  BY <1>2, <1>3, SumHolds
<1>5. t = SumTo(f, n)
  BY <1>1
<1>6. 1 \in 1..n
  BY <1>2
<1>7. \A v \in 1..n : t \in Int /\ t >= f[v]
  BY <1>4, <1>5
<1>8. t \in Nat
  BY <1>3, <1>6, <1>7
<1>9. \A v \in 1..n : g[v].size <= t
  BY <1>2, <1>3, <1>7, <1>8
<1> QED BY <1>2, <1>8, <1>9

(* The linear files taken together.                                        *)
LEMMA LmaSums ==
  ASSUME TypeOK
  PROVE  LmaTotal \in Nat /\ \A v \in Uqids : lma[v].size \in Nat /\ lma[v].size <= LmaTotal
<1>1. \A v \in Uqids : lma[v].size \in Nat
  BY DEF TypeOK, LmaFile
<1>2. PICK t : t = LmaTotal
  OBVIOUS
<1> QED BY <1>1, <1>2, SizesSum DEF LmaTotal

(* No linear file changes its size.                                        *)
LEMMA LmaSame ==
  ASSUME \A v \in Uqids : lma'[v].size = lma[v].size
  PROVE  LmaTotal' = LmaTotal
<1>1. [v \in Uqids |-> lma'[v].size] = [v \in Uqids |-> lma[v].size]
  OBVIOUS
<1> QED BY <1>1, Zenon DEF LmaTotal

(* One does.                                                               *)
LEMMA LmaChanges ==
  ASSUME TypeOK, TypeOK', NEW v \in Uqids, NEW x, lma' = [lma EXCEPT ![v] = x],
         NEW d \in Int, x.size = lma[v].size + d
  PROVE  LmaTotal' = LmaTotal + d
<1>1. PICK f, g, n : /\ f = [u \in Uqids |-> lma[u].size] /\ n = MaxUqid
                     /\ g = [u \in Uqids |-> lma'[u].size]
  OBVIOUS
<1>2. n \in Nat /\ Uqids = 1..n
  BY <1>1, BoundsAssumption DEF BoundsAssumption, Uqids
<1>3. \A u \in Uqids : lma[u].size \in Int /\ lma'[u].size \in Int
  BY DEF TypeOK, LmaFile
<1>4. \A u \in Uqids : lma'[u].size = lma[u].size + (IF u = v THEN d ELSE 0)
  <2>1. lma'[v] = x /\ \A u \in Uqids : u # v => lma'[u] = lma[u]
    BY DEF TypeOK
  <2> QED BY <1>3, <2>1
<1>5. f \in [1..n -> Int] /\ g \in [1..n -> Int] /\ v \in 1..n
  BY <1>1, <1>2, <1>3
<1>6. \A u \in 1..n : g[u] = f[u] + (IF u = v THEN d ELSE 0)
  BY <1>1, <1>2, <1>4
<1>7. SumTo(g, n) = SumTo(f, n) + d
  BY <1>2, <1>5, <1>6, SumChanges
<1> QED BY <1>1, <1>7, Zenon DEF LmaTotal

(* With room for them, n files are counted in full.                        *)
LEMMA FilesRoom ==
  ASSUME NEW a \in Nat, NEW n \in Nat, n <= MaxChnks, a + MaxElems <= DskAllowed
  PROVE  incr_dsk_chnks(a, n) = a + MaxNumInChnk * n
<1>1. PICK M, c, q : M = MaxNumInChnk /\ c = MaxChnks /\ q = DskAllowed - a
  OBVIOUS
<1>2. M \in Nat /\ M > 0 /\ c \in Nat /\ DskAllowed \in Nat /\ MaxElems = c * M
  BY <1>1, BoundsAssumption DEF BoundsAssumption, MaxElems
<1>3. c * M \in Nat /\ n * M \in Nat /\ c * M <= q /\ q \in Int
  BY <1>1, <1>2
<1>4. n * M <= c * M
  <2>1. CASE n = c
    BY <1>3, <2>1
  <2>2. CASE n < c
    <3>1. n * M + M <= c * M
      BY <1>1, <1>2, <2>2, ChnksInOrder
    <3> QED BY <1>2, <1>3, <3>1
  <2> QED BY <1>1, <1>2, <2>1, <2>2
<1>5. q \in Nat /\ n * M <= q
  BY <1>3, <1>4
<1>6. n <= q \div M
  BY <1>1, <1>5, ChnkBounds
<1>7. a <= DskAllowed
  BY <1>1, <1>2, <1>5
<1> QED BY <1>1, <1>6, <1>7 DEF incr_dsk_chnks

(* What was counted for n files is given back in full.                     *)
LEMMA FilesBack ==
  ASSUME NEW a \in Nat, NEW n \in Nat, MaxNumInChnk * n <= a
  PROVE  decr_dsk_chnks(a, n) = a - MaxNumInChnk * n
<1>1. MaxNumInChnk \in Nat
  BY BoundsAssumption DEF BoundsAssumption
<1>2. n * MaxNumInChnk <= a
  BY <1>1
<1>3. n <= a \div MaxNumInChnk
  BY <1>2, ChnkBounds
<1> QED BY <1>3 DEF decr_dsk_chnks

(* A step that leaves the files and their account alone.                   *)
LEMMA SameDsk ==
  ASSUME DskExact, half_deleted' = {} => half_deleted = {}, dsk_used' = dsk_used,
         \A k \in Keys : Full(k)' <=> Full(k), \A v \in Uqids : lma'[v].size = lma[v].size
  PROVE  DskExact'
<1>1. FullFiles' = FullFiles
  BY DEF FullFiles
<1>2. LmaTotal' = LmaTotal
  BY LmaSame
<1> QED BY <1>1, <1>2, Zenon DEF DskExact, FullFiles, Full, LmaTotal

(* What DskExact says, and what makes it so.                               *)
LEMMA DskCount ==
  ASSUME TypeOK
  PROVE  /\ DskExact /\ half_deleted = {} =>
              dsk_used = MaxNumInChnk * Cardinality(FullFiles) + LmaTotal
         /\ dsk_used \in Nat /\ LmaTotal \in Nat /\ MaxNumInChnk \in Nat
         /\ FullFiles \subseteq Keys /\ Cardinality(FullFiles) \in Nat
         /\ MaxNumInChnk * Cardinality(FullFiles) \in Nat
         /\ MaxElems \in Nat /\ DskAllowed \in Nat
<1>1. FullFiles \subseteq Keys
  BY DEF FullFiles
<1>2. Cardinality(FullFiles) \in Nat
  BY <1>1, KeysFinite
<1>3. MaxNumInChnk \in Nat /\ MaxChnks \in Nat /\ DskAllowed \in Nat
  BY BoundsAssumption DEF BoundsAssumption
<1>4. MaxNumInChnk * Cardinality(FullFiles) \in Nat /\ MaxElems \in Nat
  BY <1>2, <1>3 DEF MaxElems
<1>5. DskExact /\ half_deleted = {} =>
        dsk_used = MaxNumInChnk * Cardinality(FullFiles) + LmaTotal
  BY DEF DskExact, FullFiles, Full, LmaTotal
<1> QED BY <1>1, <1>2, <1>3, <1>4, <1>5, LmaSums DEF TypeOK

(* With no half-deleted vector, the equation is all there is to show.      *)
LEMMA DskCounted ==
  ASSUME half_deleted' = {} =>
           dsk_used' = MaxNumInChnk * Cardinality(FullFiles') + LmaTotal'
  PROVE  DskExact'
  BY DEF DskExact, FullFiles, Full, LmaTotal

(* A step that writes files for the chunks D of v.                         *)
LEMMA MoreFiles ==
  ASSUME TypeOK, TypeOK', DskExact, DskRoom, half_deleted' = half_deleted, lma' = lma,
         NEW v \in Uqids, NEW D, D \subseteq ChnkIdxs,
         dsk_used' = incr_dsk_chnks(dsk_used, Cardinality(D)),
         \A k \in Keys : Full(k)' <=> Full(k) \/ k \in KeysOf(v, D),
         \A k \in Keys : k \in KeysOf(v, D) => ~Full(k)
  PROVE  DskExact'
<1> SUFFICES ASSUME half_deleted = {}
             PROVE  dsk_used' = MaxNumInChnk * Cardinality(FullFiles') + LmaTotal'
  BY DskCounted
<1>1. PICK S, T : S = FullFiles /\ T = FullFiles'
  OBVIOUS
<1>2. S \subseteq Keys /\ T \subseteq Keys /\ \A k \in Keys :
        (k \in S <=> Full(k)) /\ (k \in T <=> Full(k)')
  BY <1>1 DEF FullFiles
<1>3. Cardinality(T) = Cardinality(S) + Cardinality(D)
  BY <1>2, MoreKeys
<1>4. PICK n, s : n = Cardinality(D) /\ s = Cardinality(S)
  OBVIOUS
<1>5. n \in Nat /\ n <= MaxChnks /\ s \in Nat /\ MaxNumInChnk \in Nat
  BY <1>1, <1>4, KeysCount, DskCount
<1>6. dsk_used' = dsk_used + MaxNumInChnk * n
  BY <1>4, <1>5, DskCount, FilesRoom DEF DskRoom
<1>7. dsk_used = MaxNumInChnk * s + LmaTotal /\ LmaTotal \in Nat
  BY <1>1, <1>4, DskCount
<1>8. LmaTotal' = LmaTotal
  BY LmaSame
<1>9. MaxNumInChnk * (s + n) = MaxNumInChnk * s + MaxNumInChnk * n
  BY <1>5
<1>10. MaxNumInChnk * s \in Nat /\ MaxNumInChnk * n \in Nat
  BY <1>5
<1>11. dsk_used' = MaxNumInChnk * (s + n) + LmaTotal
  BY <1>6, <1>7, <1>9, <1>10
<1> QED BY <1>1, <1>3, <1>4, <1>8, <1>11

(* Files of the chunks D of v that go, taken off an account a of all files *)
(* and t besides.                                                          *)
LEMMA FewerFiles ==
  ASSUME TypeOK, NEW v \in Uqids, NEW D, D \subseteq ChnkIdxs,
         \A k \in Keys : Full(k)' <=> Full(k) /\ k \notin KeysOf(v, D),
         \A k \in Keys : k \in KeysOf(v, D) => Full(k),
         NEW t \in Nat, NEW a, a = MaxNumInChnk * Cardinality(FullFiles) + t
  PROVE  decr_dsk_chnks(a, Cardinality(D)) = MaxNumInChnk * Cardinality(FullFiles') + t
<1>1. PICK S, T : S = FullFiles /\ T = FullFiles'
  OBVIOUS
<1>2. S \subseteq Keys /\ T \subseteq Keys /\ \A k \in Keys :
        (k \in S <=> Full(k)) /\ (k \in T <=> Full(k)')
  BY <1>1 DEF FullFiles
<1>3. /\ Cardinality(T) = Cardinality(S) - Cardinality(D)
      /\ Cardinality(D) <= Cardinality(S)
  BY <1>2, FewerKeys
<1>4. PICK n, s, r : n = Cardinality(D) /\ s = Cardinality(S) /\ r = s - n
  OBVIOUS
<1>5. n \in Nat /\ s \in Nat /\ r \in Nat /\ MaxNumInChnk \in Nat
  <2>1. n \in Nat /\ s \in Nat
    BY <1>1, <1>4, KeysCount, DskCount
  <2> QED BY <1>3, <1>4, <2>1, DskCount
<1>6. MaxNumInChnk * s = MaxNumInChnk * r + MaxNumInChnk * n
  <2>1. s = r + n
    BY <1>4, <1>5
  <2> QED BY <1>5, <2>1
<1>7. MaxNumInChnk * s \in Nat /\ MaxNumInChnk * n \in Nat /\ MaxNumInChnk * r \in Nat
  BY <1>5
<1>8. a = MaxNumInChnk * s + t
  BY <1>1, <1>4
<1>9. a \in Nat /\ MaxNumInChnk * n <= a /\ a - MaxNumInChnk * n = MaxNumInChnk * r + t
  BY <1>6, <1>7, <1>8
<1>10. decr_dsk_chnks(a, n) = a - MaxNumInChnk * n
  BY <1>5, <1>9, FilesBack
<1> QED BY <1>1, <1>3, <1>4, <1>9, <1>10

(* A step that drops them.                                                 *)
LEMMA FilesDropped ==
  ASSUME TypeOK, TypeOK', DskExact, half_deleted' = half_deleted, lma' = lma,
         NEW v \in Uqids, NEW D, D \subseteq ChnkIdxs,
         dsk_used' = decr_dsk_chnks(dsk_used, Cardinality(D)),
         \A k \in Keys : Full(k)' <=> Full(k) /\ k \notin KeysOf(v, D),
         \A k \in Keys : k \in KeysOf(v, D) => Full(k)
  PROVE  DskExact'
<1>1. LmaTotal' = LmaTotal
  BY LmaSame
<1>2. half_deleted = {} => dsk_used' = MaxNumInChnk * Cardinality(FullFiles') + LmaTotal
  BY DskCount, FewerFiles
<1> QED BY <1>1, <1>2, DskCounted

(* The chunks D of v go, as c has it, and their files unless these persist.*)
LEMMA FilesGone ==
  ASSUME TypeOK, NEW v \in Uqids, NEW D, D \subseteq ChnkIdxs, NEW c, NEW p \in BOOLEAN,
         \A i \in D : c[<<v, i>>].l2_exists <=> Full(<<v, i>>),
         l2' = L2AfterDel(c, v, D, p),
         NEW t \in Nat, NEW a, a = MaxNumInChnk * Cardinality(FullFiles) + t
  PROVE  DskAfterDel(a, c, v, D, p) = MaxNumInChnk * Cardinality(FullFiles') + t
<1>1. CASE p
  <2>1. l2' = l2 /\ DskAfterDel(a, c, v, D, p) = a
    BY <1>1 DEF L2AfterDel, DskAfterDel
  <2>2. FullFiles' = FullFiles
    BY <2>1 DEF FullFiles, Full
  <2> QED BY <2>1, <2>2
<1>2. CASE ~p
  <2>1. PICK E : E = WithL2(c, v, D)
    OBVIOUS
  <2>2. /\ DskAfterDel(a, c, v, D, p) = decr_dsk_chnks(a, Cardinality(E))
        /\ l2' = [k \in Keys |-> IF k \in KeysOf(v, E) THEN NoFile ELSE l2[k]]
    BY <1>2, <2>1 DEF L2AfterDel, DskAfterDel
  <2>3. E \subseteq ChnkIdxs /\ \A i \in E : Full(<<v, i>>)
    BY <2>1 DEF WithL2
  <2>4. \A k \in Keys : k \in KeysOf(v, E) => Full(k)
    BY <2>3, KeyInKeysOf, KeyParts
  <2>5. \A k \in Keys : Full(k)' <=> Full(k) /\ k \notin KeysOf(v, E)
    BY <2>2 DEF Full, NoFile
  <2> QED BY <2>2, <2>3, <2>4, <2>5, FewerFiles
<1> QED BY <1>1, <1>2

(* A chunk's row knows whether it has a file.                              *)
LEMMA RowsKnow ==
  ASSUME TypeOK, CopyInv, NEW v \in Uqids, NEW i \in Present(v)
  PROVE  chnk[<<v, i>>].l2_exists <=> Full(<<v, i>>)
  BY DEF CopyInv, FilesKnown, Present, chnk_is, Full

(* Steps that no file is concerned by, but for what is in it.              *)
LEMMA QuietDsk ==
  ASSUME TypeOK, DskExact,
         \/ VctrAdd \/ VctrPersist \/ VctrSetMemo \/ SetKillable \/ SetFreeable
         \/ SetError \/ SetNnVec \/ AddWithNn
         \/ ChnkIncrReaders \/ VctrGetChunkLma \/ VctrUngetChunk
         \/ VctrGetLmaRead \/ VctrUngetLmaRead \/ VctrGetChunk \/ VctrGet1
         \/ DropL1 \/ MakeL1 \/ UngetLmaWrite
  PROVE  DskExact'
<1>1. ASSUME UNCHANGED <<half_deleted, dsk_used, lma, l2>> PROVE DskExact'
  BY <1>1, SameDsk DEF Full
<1>2. CASE \/ VctrAdd \/ VctrPersist \/ VctrSetMemo \/ SetKillable \/ SetFreeable
           \/ SetError \/ SetNnVec \/ AddWithNn
  <2>1. UNCHANGED <<half_deleted, dsk_used, lma, l2>>
    BY <1>2, Zenon DEF VctrAdd, VctrPersist, VctrSetMemo, SetKillable, SetFreeable,
       SetError, SetNnVec, AddWithNn, vctr_add, vctr_persist, vctr_set_memo,
       vctr_set_num_kill_ignore, vctr_set_early_freeable, vctr_set_error, set_nn_vec,
       NewWithNn, rest, client, usage
  <2> QED BY <1>1, <2>1
<1>3. CASE \/ ChnkIncrReaders \/ VctrGetChunkLma \/ VctrUngetChunk
           \/ VctrGetLmaRead \/ VctrUngetLmaRead \/ VctrGetChunk \/ VctrGet1
  <2>1. UNCHANGED <<half_deleted, dsk_used, lma, l2>>
    BY <1>3, Zenon DEF ChnkIncrReaders, VctrGetChunkLma, VctrUngetChunk, VctrGetLmaRead,
       VctrUngetLmaRead, VctrGetChunk, VctrGet1, chnk_incr_num_readers, vctr_get_chunk_lma,
       vctr_unget_chunk, vctr_get_lma_read, vctr_unget_lma_read, vctr_get_chunk, vctr_get1,
       usage, client
  <2> QED BY <1>1, <2>1
<1>4. CASE DropL1 \/ MakeL1
  <2>1. UNCHANGED <<half_deleted, dsk_used, lma, l2>>
    BY <1>4, Zenon DEF DropL1, MakeL1, drop_l1, make_l1, client
  <2> QED BY <1>1, <2>1
<1>5. CASE UngetLmaWrite
  <2>1. PICK v \in Uqids : vctr_unget_lma_write(v)
    BY <1>5 DEF UngetLmaWrite
  <2>2. /\ UNCHANGED <<half_deleted, dsk_used, lma>>
        /\ l2' = [k \in Keys |-> IF k[1] = v THEN [l2[k] EXCEPT !.data = {}] ELSE l2[k]]
    BY <2>1, Zenon DEF vctr_unget_lma_write, usage, client
  <2>3. \A k \in Keys : l2'[k].file = l2[k].file
    BY <2>2 DEF TypeOK, L2File
  <2> QED BY <2>2, <2>3, SameDsk DEF Full
<1> QED BY <1>2, <1>3, <1>4, <1>5

(* L2 copies written.                                                      *)
LEMMA BackupDsk ==
  ASSUME TypeOK, TypeOK', CopyInv, DskExact, DskRoom, MakeL2 \/ L1ToL2 \/ Unprefetch
  PROVE  DskExact'
<1>0. \A v \in Uqids : vctr[v].min_chnk_idx \in Int /\ vctr[v].max_chnk_idx \in Int
  BY DEF TypeOK, VctrVal
<1>1. ASSUME NEW v \in Uqids, NEW D, D \subseteq Present(v), \A i \in D : ~Full(<<v, i>>),
             NEW N, \A k \in Keys : k \in KeysOf(v, N) => ~Full(k) /\ k \notin KeysOf(v, D),
             dsk_used' = incr_dsk_chnks(dsk_used, Cardinality(D)),
             l2' = [k \in Keys |-> IF k \in KeysOf(v, N) THEN [file |-> "empty", data |-> {}]
                                   ELSE L2With(v, D)[k]],
             UNCHANGED <<half_deleted, lma>>
      PROVE  DskExact'
  <2>1. D \subseteq ChnkIdxs
    BY <1>1 DEF Present
  <2>2. \A k \in Keys : k \in KeysOf(v, D) => ~Full(k)
    BY <1>1, KeyInKeysOf, KeyParts
  <2>3. \A k \in Keys : L2With(v, D)[k].file = IF k \in KeysOf(v, D) THEN "full" ELSE l2[k].file
    BY DEF L2With
  <2>4. ASSUME NEW k \in Keys PROVE Full(k)' <=> Full(k) \/ k \in KeysOf(v, D)
    <3>1. CASE k \in KeysOf(v, N)
      <4>1. l2'[k].file = "empty"
        BY <1>1, <3>1
      <4> QED BY <1>1, <3>1, <4>1 DEF Full
    <3>2. CASE k \notin KeysOf(v, N)
      <4>1. l2'[k] = L2With(v, D)[k]
        BY <1>1, <3>2
      <4> QED BY <2>3, <4>1 DEF Full
    <3> QED BY <3>1, <3>2
  <2> QED BY <1>1, <2>1, <2>2, <2>4, MoreFiles
<1>2. ASSUME NEW v \in Uqids, NEW S, S \subseteq CanMakeL2(v),
             NEW N, N \subseteq NoL1L2(v), make_l2(v, S, N)
      PROVE  DskExact'
  <2>1. PICK D : D = {i \in S : ~chnk[<<v, i>>].l2_exists}
    OBVIOUS
  <2>2. /\ dsk_used' = incr_dsk_chnks(dsk_used, Cardinality(D))
        /\ l2' = [k \in Keys |-> IF k \in KeysOf(v, N) THEN [file |-> "empty", data |-> {}]
                                 ELSE L2With(v, D)[k]]
        /\ UNCHANGED <<half_deleted, lma>>
    BY <1>2, <2>1, Zenon DEF make_l2, WriteL2, client
  <2>3. /\ D \subseteq Present(v) /\ N \subseteq Present(v) /\ D \cap N = {}
        /\ \A i \in D : ~chnk[<<v, i>>].l2_exists
        /\ \A i \in N : ~chnk[<<v, i>>].l2_exists
    BY <1>2, <2>1 DEF CanMakeL2, NoL1L2
  <2>4. /\ \A i \in D : ~Full(<<v, i>>)
        /\ \A i \in N : ~Full(<<v, i>>)
    BY <2>3, RowsKnow
  <2>5. \A k \in Keys : k \in KeysOf(v, N) => ~Full(k) /\ k \notin KeysOf(v, D)
    BY <2>3, <2>4, KeyInKeysOf, KeyParts
  <2> QED BY <1>1, <2>2, <2>3, <2>4, <2>5
<1>3. CASE MakeL2
  <2>1. PICK v \in Uqids : \/ vctr_make_l2(v)
                           \/ \E i \in CanMakeL2(v) : make_l2(v, {i}, {})
                           \/ \E i \in NoL1L2(v) : make_l2(v, {}, {i})
    BY <1>3 DEF MakeL2
  <2>2. CASE vctr_make_l2(v)
    <3> DEFINE S == Run(vctr[v].min_chnk_idx, vctr[v].max_chnk_idx, CanMakeL2(v))
               Null == {i \in Idxs(vctr[v]) \cap NoL1L2(v) :
                          vctr[v].min_chnk_idx .. (i - 1) \subseteq S}
    <3>1. make_l2(v, S, Null)
      BY <2>2 DEF vctr_make_l2
    <3>2. S \subseteq CanMakeL2(v) /\ Null \subseteq NoL1L2(v)
      BY <1>0, RunInOk
    <3> HIDE DEF S, Null
    <3> QED BY <1>2, <3>1, <3>2
  <2>3. CASE \E i \in CanMakeL2(v) : make_l2(v, {i}, {})
    BY <1>2, <2>3
  <2>4. CASE \E i \in NoL1L2(v) : make_l2(v, {}, {i})
    BY <1>2, <2>4
  <2> QED BY <2>1, <2>2, <2>3, <2>4
<1>4. ASSUME NEW v \in Uqids, NEW D, D \subseteq Present(v), \A i \in D : ~Full(<<v, i>>),
             dsk_used' = incr_dsk_chnks(dsk_used, Cardinality(D)), l2' = L2With(v, D),
             UNCHANGED <<half_deleted, lma>>
      PROVE  DskExact'
  <2>1. PICK N : N = {}
    OBVIOUS
  <2>2. \A k \in Keys : k \notin KeysOf(v, N)
    BY <2>1, KeyInKeysOf
  <2>3. l2' = [k \in Keys |-> IF k \in KeysOf(v, N) THEN [file |-> "empty", data |-> {}]
                              ELSE L2With(v, D)[k]]
    BY <1>4, <2>2 DEF L2With
  <2> QED BY <1>1, <1>4, <2>2, <2>3
<1>5. CASE L1ToL2
  <2>1. PICK v \in Uqids : vctr_l1_to_l2(v)
    BY <1>5 DEF L1ToL2
  <2>2. PICK S, D : /\ S = Run(vctr[v].min_chnk_idx, vctr[v].max_chnk_idx, CanL1ToL2(v))
                    /\ D = {i \in S : l2[<<v, i>>].file = "none"}
    OBVIOUS
  <2>3. /\ dsk_used' = incr_dsk_chnks(dsk_used, Cardinality(D)) /\ l2' = L2With(v, D)
        /\ UNCHANGED <<half_deleted, lma>>
    BY <2>1, <2>2, Zenon DEF vctr_l1_to_l2, WriteL2, client
  <2>4. S \subseteq CanL1ToL2(v)
    BY <1>0, <2>2, RunInOk
  <2>5. D \subseteq Present(v) /\ \A i \in D : ~Full(<<v, i>>)
    BY <2>2, <2>4 DEF CanL1ToL2, Full
  <2> QED BY <1>4, <2>3, <2>5
<1>6. CASE Unprefetch
  <2>1. PICK v \in Uqids, i \in ChnkIdxs : unprefetch(v, i)
    BY <1>6 DEF Unprefetch
  <2>2. PICK D : D = IF chnk[<<v, i>>].l2_exists THEN {} ELSE {i}
    OBVIOUS
  <2>3. /\ chnk_is(v, i) /\ l2' = L2With(v, D)
        /\ dsk_used' = incr_dsk_chnks(dsk_used, Cardinality(D))
        /\ UNCHANGED <<half_deleted, lma>>
    BY <2>1, <2>2, Zenon DEF unprefetch, client
  <2>4. i \in Present(v)
    BY <2>3 DEF Present
  <2>5. chnk[<<v, i>>].l2_exists <=> Full(<<v, i>>)
    BY <2>4, RowsKnow
  <2>6. D \subseteq Present(v) /\ \A j \in D : ~Full(<<v, j>>)
    BY <2>2, <2>4, <2>5
  <2> QED BY <1>4, <2>3, <2>6
<1> QED BY <1>3, <1>5, <1>6

(* The linear file written to the chunks' own files.                       *)
LEMMA LmaToChnksDsk ==
  ASSUME TypeOK, TypeOK', CopyInv, DskExact, DskRoom, LmaToChnks
  PROVE  DskExact'
<1>1. PICK v \in Uqids, level \in 1..2 : vctr_lma_to_chnks(v, level)
  BY DEF LmaToChnks
<1>2. PICK S, D : /\ S = Run(0, NumChnks(vctr[v].num_elements) - 1, Present(v))
                  /\ D = {i \in S : ~chnk[<<v, i>>].l1_mem
                                     /\ ~chnk[<<v, i>>].l2_exists /\ level = 2}
  OBVIOUS
<1>3. /\ l2' = [k \in Keys |->
                 IF k \in KeysOf(v, D)
                 THEN [file |-> "full", data |-> FromLma(v, k[2])] ELSE l2[k]]
      /\ dsk_used' = incr_dsk_chnks(dsk_used, Cardinality(D))
      /\ UNCHANGED <<half_deleted, lma>>
  BY <1>1, <1>2, Zenon DEF vctr_lma_to_chnks, client
<1>4. D \subseteq Present(v) /\ D \subseteq ChnkIdxs
  BY <1>2 DEF Run, Present
<1>5. \A i \in D : ~Full(<<v, i>>)
  BY <1>2, <1>4, RowsKnow
<1>6. \A k \in Keys : k \in KeysOf(v, D) => ~Full(k)
  BY <1>5, KeyInKeysOf, KeyParts
<1>7. \A k \in Keys : Full(k)' <=> Full(k) \/ k \in KeysOf(v, D)
  BY <1>3 DEF Full
<1> QED BY <1>3, <1>4, <1>6, <1>7, MoreFiles

(* L2 copies dropped, on their own or for a writer of the linear file.     *)
LEMMA DropDsk ==
  ASSUME TypeOK, TypeOK', CopyInv, DskExact, DropL2 \/ GetLmaWrite
  PROVE  DskExact'
<1>1. ASSUME NEW v \in Uqids, NEW D, D \subseteq Present(v),
             \A i \in D : chnk[<<v, i>>].l2_exists,
             dsk_used' = decr_dsk_chnks(dsk_used, Cardinality(D)),
             l2' = [k \in Keys |-> IF k \in KeysOf(v, D) THEN NoFile ELSE l2[k]],
             UNCHANGED <<half_deleted, lma>>
      PROVE  DskExact'
  <2>1. D \subseteq ChnkIdxs /\ \A i \in D : Full(<<v, i>>)
    BY <1>1, RowsKnow DEF Present
  <2>2. \A k \in Keys : k \in KeysOf(v, D) => Full(k)
    BY <2>1, KeyInKeysOf, KeyParts
  <2>3. \A k \in Keys : Full(k)' <=> Full(k) /\ k \notin KeysOf(v, D)
    BY <1>1 DEF Full, NoFile
  <2> QED BY <1>1, <2>1, <2>2, <2>3, FilesDropped
<1>2. CASE DropL2
  <2>0. PICK v \in Uqids : \E S \in Named(v, Present(v)) : drop_l2(v, S)
    BY <1>2 DEF DropL2
  <2>1. PICK S \in Named(v, Present(v)) : drop_l2(v, S)
    BY <2>0
  <2>2. S \subseteq Present(v)
    BY NamedPresent DEF Present
  <2>3. PICK D : D = DropsL2(v, S)
    OBVIOUS
  <2>4. /\ dsk_used' = decr_dsk_chnks(dsk_used, Cardinality(D))
        /\ l2' = [k \in Keys |-> IF k \in KeysOf(v, D) THEN NoFile ELSE l2[k]]
        /\ UNCHANGED <<half_deleted, lma>>
    BY <2>1, <2>3, Zenon DEF drop_l2, client
  <2>5. D \subseteq Present(v) /\ \A i \in D : chnk[<<v, i>>].l2_exists
    BY <2>2, <2>3 DEF DropsL2
  <2> QED BY <1>1, <2>4, <2>5
<1>3. CASE GetLmaWrite
  <2>1. PICK v \in Uqids : get_lma_write(v)
    BY <1>3 DEF GetLmaWrite
  <2>2. PICK S, D : S = DropRun(v) /\ D = {i \in S : chnk[<<v, i>>].l2_exists}
    OBVIOUS
  <2>3. /\ dsk_used' = decr_dsk_chnks(dsk_used, Cardinality(D))
        /\ l2' = [k \in Keys |-> IF k \in KeysOf(v, D) THEN NoFile ELSE l2[k]]
        /\ UNCHANGED <<half_deleted, lma>>
    BY <2>1, <2>2, Zenon DEF get_lma_write, client
  <2>4. S \subseteq Present(v)
    BY <2>2, RunInOk DEF DropRun, Present, TypeOK, VctrVal
  <2>5. D \subseteq Present(v) /\ \A i \in D : chnk[<<v, i>>].l2_exists
    BY <2>2, <2>4
  <2> QED BY <1>1, <2>3, <2>5
<1> QED BY <1>2, <1>3

(* Puts and the end of a vector: memo deletes.                             *)
LEMMA StoreDsk ==
  ASSUME TypeOK, TypeOK', DskExact, NEW v \in Uqids, NEW x, NEW keys, NEW c,
         NEW e, NEW m, PutOk(v, x, keys, c), StoreWithMemo(v, x, e, keys, c, m),
         UNCHANGED <<half_deleted, lma>>
  PROVE  DskExact'
<1>0. x \in VctrVal /\ keys \subseteq Keys
  BY DEF PutOk
<1>1. PICK D, p : D = MemoDel(keys, c, v, x) /\ p = x.is_persist
  OBVIOUS
<1>2. /\ l2' = L2AfterDel(c, v, D, p)
      /\ dsk_used' = DskAfterDel(dsk_used, c, v, D, p)
  BY <1>1, Zenon DEF StoreWithMemo
<1>3. D \subseteq ChnkIdxs /\ \A i \in D : <<v, i>> \in keys
  <2>1. x.min_chnk_idx \in Int /\ MemoMin(x) \in Int
    BY <1>0 DEF VctrVal, MemoMin
  <2> QED BY <1>0, <1>1, <2>1, KeyParts DEF MemoDel, Keys
<1>4. p \in BOOLEAN
  BY <1>0, <1>1 DEF VctrVal
<1>5. \A i \in D : c[<<v, i>>].l2_exists <=> Full(<<v, i>>)
  BY <1>0, <1>3 DEF PutOk, Full
<1>6. LmaTotal' = LmaTotal
  BY LmaSame
<1>7. half_deleted = {} => dsk_used' = MaxNumInChnk * Cardinality(FullFiles') + LmaTotal
  BY <1>2, <1>3, <1>4, <1>5, DskCount, FilesGone
<1> QED BY <1>6, <1>7, DskCounted

(* put1, putn, put_chunk and eov.                                          *)
LEMMA PutDsk ==
  ASSUME TypeOK, TypeOK', CopyInv, DskExact, VctrPutn \/ VctrPutChunk \/ VctrEov
  PROVE  DskExact'
<1>0. PICK ff : ff = FALSE
  OBVIOUS
<1>1. CASE VctrPutn
  <2>1. PICK v \in Uqids, n \in 1..(MaxNumInChnk + 1) : vctr_putn(v, n)
    BY <1>1 DEF VctrPutn
  <2>2. /\ v \in vctrs /\ ~vctr[v].is_eov /\ vctr[v].num_elements + n <= MaxElems
        /\ vctr[v].num_elements > 0 => chnk_is(v, vctr[v].max_chnk_idx)
        /\ UNCHANGED <<half_deleted, lma>>
    BY <2>1, Zenon DEF vctr_putn, client
  <2>3. PICK y, keys, c, m :
             /\ StoreWithMemo(v, y, ff, keys, c, m)
             /\ y \in VctrVal /\ keys \subseteq Keys /\ c \in [Keys -> ChnkVal]
             /\ y = [vctr[v] EXCEPT !.num_elements = vctr[v].num_elements + n,
                       !.max_chnk_idx = (vctr[v].num_elements + n - 1) \div MaxNumInChnk]
             /\ \A k \in Keys :
                  /\ k \in keys <=> \/ k \in chnks
                                    \/ /\ k[1] = v
                                       /\ SlotsFor(k[2], vctr[v].num_elements, n) # {}
                  /\ Filled_n(c, v, n, k)
    BY <1>0, <2>1, PutnShape
  <2>4. PutOk(v, y, keys, c)
    BY <2>2, <2>3, PutnOk
  <2> QED BY <2>2, <2>3, <2>4, StoreDsk
<1>2. CASE VctrPutChunk
  <2>1. PICK v \in Uqids, n \in 1..MaxNumInChnk, s \in Steals : vctr_put_chunk(v, n, s)
    BY <1>2 DEF VctrPutChunk
  <2> DEFINE x == vctr[v]
             i == IF x.num_elements = 0 THEN 0 ELSE x.max_chnk_idx + 1
             y == [x EXCEPT !.num_elements = @ + n, !.max_chnk_idx = i]
             keys == chnks \cup {<<v, i>>}
             c == [chnk EXCEPT ![<<v, i>>] =
                     [FreshChnk(x) EXCEPT !.num_elements = n, !.l1_data = 0..(n - 1)]]
             m == IF s THEN mem_used ELSE incr_mem_used(mem_used, 1)
             e == n < MaxNumInChnk /\ ~MemoFails(keys, c, v, y)
  <2>2. /\ v \in vctrs /\ ~x.is_eov /\ x.num_elements % MaxNumInChnk = 0 /\ i \in ChnkIdxs
        /\ \/ StoreWithMemo(v, x, ff, chnks, chnk, mem_used)
           \/ StoreWithMemo(v, y, e, keys, c, m)
        /\ UNCHANGED <<half_deleted, lma>>
    BY <1>0, <2>1, Zenon DEF vctr_put_chunk, client
  <2>3. PutOk(v, x, chnks, chnk) /\ PutOk(v, y, keys, c)
    BY <2>2, UnfinishedOk, PutChunkOk
  <2> HIDE DEF x, y, keys, c, m, e
  <2> QED BY <2>2, <2>3, StoreDsk
<1>3. CASE VctrEov
  <2>1. PICK v \in Uqids : vctr_eov(v)
    BY <1>3 DEF VctrEov
  <2>2. PICK e : /\ v \in vctrs /\ ~vctr[v].is_eov
                 /\ StoreWithMemo(v, vctr[v], e, chnks, chnk, mem_used)
                 /\ UNCHANGED <<half_deleted, lma>>
    BY <2>1, Zenon DEF vctr_eov, client
  <2> QED BY <2>2, UnfinishedOk, StoreDsk
<1> QED BY <1>1, <1>2, <1>3

(* Early free.                                                             *)
LEMMA EarlyFreeDsk ==
  ASSUME TypeOK, TypeOK', CopyInv, DskExact, VctrEarlyFree
  PROVE  DskExact'
<1>0. PICK v \in Uqids : \E ub \in EarlyFreeArgs(v) : vctr_early_free(v, ub)
  BY DEF VctrEarlyFree
<1>1. PICK ub \in EarlyFreeArgs(v) : vctr_early_free(v, ub)
  BY <1>0
<1>2. PICK D, top : EarlyFreed(v, D, top)
  BY <1>1, EarlyFreeShape DEF EarlyFreeArgs
<1>3. half_deleted' = half_deleted
  BY <1>1, Zenon DEF vctr_early_free, client
<1>4. PICK ff : ff = FALSE
  OBVIOUS
<1>5. D \subseteq Present(v) /\ FilesDeleted(v, D, ff, ff)
  BY <1>2, <1>4 DEF EarlyFreed, Present
<1>6. /\ l2' = L2AfterDel(chnk, v, D, ff) /\ lma' = lma
      /\ dsk_used' = DskAfterDel(dsk_used, chnk, v, D, ff)
  BY <1>4, <1>5, Zenon DEF FilesDeleted
<1>7. D \subseteq ChnkIdxs /\ ff \in BOOLEAN
  BY <1>4, <1>5 DEF Present
<1>8. \A i \in D : chnk[<<v, i>>].l2_exists <=> Full(<<v, i>>)
  BY <1>5, RowsKnow
<1>9. LmaTotal' = LmaTotal
  BY <1>6, LmaSame
<1>10. half_deleted = {} => dsk_used' = MaxNumInChnk * Cardinality(FullFiles') + LmaTotal
  BY <1>6, <1>7, <1>8, DskCount, FilesGone
<1> QED BY <1>3, <1>9, <1>10, DskCounted

-----------------------------------------------------------------------------
(* The sizes of the linear files.                                          *)

\* what there is to know of rows, and of the linear file, of u
SizeStays(u) ==
  /\ u \in vctrs' => u \in vctrs
  /\ u \in vctrs' => /\ vctr'[u].num_elements = vctr[u].num_elements
                     /\ vctr'[u].is_lma = vctr[u].is_lma
  /\ lma'[u].size = lma[u].size

(* A step on the vectors W.                                                *)
LEMMA OnlySized ==
  ASSUME TypeOK, TypeOK', SizedInv, half_deleted' = {} => half_deleted = {},
         g_vctr_uqid <= g_vctr_uqid', NEW W, \A u \in Uqids \ W : SizeStays(u),
         half_deleted = {} => \A v \in Uqids \cap W : LmaSized(v)'
  PROVE  SizedInv'
<1> SUFFICES ASSUME half_deleted = {}, NEW u \in Uqids \ W PROVE LmaSized(u)'
  BY DEF SizedInv
<1>1. LmaSized(u) /\ SizeStays(u)
  BY DEF SizedInv
<1>2. u > g_vctr_uqid' => u > g_vctr_uqid
  BY DEF TypeOK, Uqids
<1> QED BY <1>1, <1>2 DEF LmaSized, SizeFits, SizeStays

(* A step that leaves the table alone.                                     *)
LEMMA SameTableSized ==
  ASSUME TypeOK, TypeOK', SizedInv, SameTable, lma' = lma
  PROVE  SizedInv'
<1>1. \A u \in Uqids : SizeStays(u)
  BY DEF SameTable, SizeStays, Keeps
<1>2. PICK W : W = {}
  OBVIOUS
<1>3. g_vctr_uqid <= g_vctr_uqid' /\ half_deleted' = half_deleted
  BY DEF SameTable, TypeOK
<1> QED BY <1>1, <1>2, <1>3, OnlySized

(* One row is stored, with another linear file or none.                    *)
LEMMA RowSized ==
  ASSUME TypeOK, TypeOK', SizedInv, NEW v \in Uqids, NEW y, vctr' = [vctr EXCEPT ![v] = y],
         UNCHANGED <<g_vctr_uqid, vctrs, half_deleted>>,
         \A u \in Uqids \ {v} : lma'[u] = lma[u],
         half_deleted = {} /\ LmaSized(v) /\ v \in vctrs =>
           /\ SizeFits(y, lma'[v].size)
           /\ y.num_elements <= MaxElems,
         v \in vctrs => v <= g_vctr_uqid, v \notin vctrs => lma'[v] = lma[v]
  PROVE  SizedInv'
<1>1. vctr'[v] = y /\ \A u \in Uqids \ {v} : vctr'[u] = vctr[u]
  BY DEF TypeOK
<1>2. \A u \in Uqids \ {v} : SizeStays(u)
  BY <1>1 DEF SizeStays
<1>3. half_deleted = {} => LmaSized(v)'
  BY <1>1 DEF LmaSized, SizeFits, SizedInv, TypeOK, Uqids
<1>4. PICK W : W = {v}
  OBVIOUS
<1>5. g_vctr_uqid <= g_vctr_uqid' /\ half_deleted' = half_deleted
  BY DEF TypeOK
<1> QED BY <1>2, <1>3, <1>4, <1>5, OnlySized

(* Reading and writing.                                                    *)
LEMMA AccessSized ==
  ASSUME TypeOK, TypeOK', SizedInv, UqidsGiven, AccessNext
  PROVE  SizedInv'
<1>0. \A v \in Uqids : vctr[v] \in VctrVal
  BY DEF TypeOK
<1>1. CASE \/ ChnkIncrReaders \/ VctrGetChunkLma \/ VctrUngetChunk
           \/ VctrGetLmaRead \/ VctrUngetLmaRead
  BY <1>1, ReadersKeep, SameTableSized
<1>2. CASE VctrGetChunk
  <2>1. UNCHANGED <<vctrTable, chnks, half_deleted, lma>>
    BY <1>2, Zenon DEF VctrGetChunk, vctr_get_chunk
  <2> QED BY <2>1, TableUntouched, SameTableSized
<1>3. ASSUME NEW v \in Uqids, NEW y, vctr' = [vctr EXCEPT ![v] = y],
             y.num_elements = vctr[v].num_elements, y.is_lma = vctr[v].is_lma,
             UNCHANGED <<g_vctr_uqid, vctrs, half_deleted, lma>>
      PROVE  SizedInv'
  <2>1. v \in vctrs => v <= g_vctr_uqid
    BY DEF UqidsGiven
  <2>2. LmaSized(v) /\ v \in vctrs =>
           /\ SizeFits(y, lma'[v].size)
           /\ y.num_elements <= MaxElems
    BY <1>3 DEF LmaSized, SizeFits
  <2> QED BY <1>3, <2>1, <2>2, RowSized
<1>4. CASE VctrGet1
  <2>1. PICK v \in Uqids, i \in ChnkIdxs : vctr_get1(v, i)
    BY <1>4 DEF VctrGet1
  <2>2. /\ UNCHANGED <<g_vctr_uqid, vctrs, half_deleted, lma>>
        /\ vctr' = vctr \/ vctr' = [vctr EXCEPT ![v] = get_lma_X_nX(vctr[v])]
    BY <2>1, Zenon DEF vctr_get1, client
  <2>3. PICK y : /\ vctr' = [vctr EXCEPT ![v] = y]
                 /\ y = vctr[v] \/ y = get_lma_X_nX(vctr[v])
    <3>1. CASE vctr' = vctr
      BY <3>1 DEF TypeOK
    <3>2. CASE vctr' = [vctr EXCEPT ![v] = get_lma_X_nX(vctr[v])]
      BY <3>2
    <3> QED BY <2>2, <3>1, <3>2
  <2>4. y.num_elements = vctr[v].num_elements /\ y.is_lma = vctr[v].is_lma
    BY <1>0, <2>3 DEF get_lma_X_nX, VctrVal
  <2> QED BY <1>3, <2>2, <2>3, <2>4
<1>5. CASE GetLmaWrite
  <2>1. PICK v \in Uqids : get_lma_write(v)
    BY <1>5 DEF GetLmaWrite
  <2>2. /\ UNCHANGED <<g_vctr_uqid, vctrs, half_deleted, lma>>
        /\ vctr' = IF vctr[v].X THEN vctr
                   ELSE [vctr EXCEPT ![v].X = TRUE, ![v].num_writers = 1]
    BY <2>1, Zenon DEF get_lma_write, client
  <2>3. PICK y : y = IF vctr[v].X THEN vctr[v]
                     ELSE [vctr[v] EXCEPT !.X = TRUE, !.num_writers = 1]
    OBVIOUS
  <2>4. vctr' = [vctr EXCEPT ![v] = y]
    BY <2>2, <2>3 DEF TypeOK
  <2>5. y.num_elements = vctr[v].num_elements /\ y.is_lma = vctr[v].is_lma
    BY <1>0, <2>3 DEF VctrVal
  <2> QED BY <1>3, <2>2, <2>4, <2>5
<1>6. CASE UngetLmaWrite
  <2>1. PICK v \in Uqids : vctr_unget_lma_write(v)
    BY <1>6 DEF UngetLmaWrite
  <2>2. /\ UNCHANGED <<g_vctr_uqid, vctrs, half_deleted, lma>>
        /\ vctr' = [vctr EXCEPT ![v].num_writers = 0, ![v].X = FALSE]
    BY <2>1, Zenon DEF vctr_unget_lma_write, client
  <2>3. PICK y : y = [vctr[v] EXCEPT !.num_writers = 0, !.X = FALSE]
    OBVIOUS
  <2>4. vctr' = [vctr EXCEPT ![v] = y]
    BY <2>2, <2>3 DEF TypeOK
  <2>5. y.num_elements = vctr[v].num_elements /\ y.is_lma = vctr[v].is_lma
    BY <1>0, <2>3 DEF VctrVal
  <2> QED BY <1>3, <2>2, <2>4, <2>5
<1> QED BY <1>1, <1>2, <1>4, <1>5, <1>6 DEF AccessNext

(* Copies made and dropped, attributes and ties.                           *)
LEMMA QuietSized ==
  ASSUME TypeOK, TypeOK', SizedInv,
         \/ DropL1 \/ DropL2 \/ MakeL1 \/ MakeL2 \/ L1ToL2 \/ Unprefetch \/ LmaToChnks
         \/ VctrPersist \/ VctrSetMemo \/ SetKillable \/ SetFreeable \/ SetError
         \/ SetNnVec
  PROVE  SizedInv'
<1>1. CASE DropL1 \/ DropL2 \/ MakeL1 \/ MakeL2 \/ L1ToL2 \/ Unprefetch \/ LmaToChnks
  <2>1. UNCHANGED <<vctrTable, chnks, half_deleted, lma>>
    BY <1>1, Zenon DEF DropL1, DropL2, MakeL1, MakeL2, L1ToL2, Unprefetch, LmaToChnks,
       drop_l1, drop_l2, make_l1, make_l2, vctr_make_l2, vctr_l1_to_l2, unprefetch,
       vctr_lma_to_chnks, client
  <2> QED BY <2>1, TableUntouched, SameTableSized
<1>2. CASE \/ VctrPersist \/ VctrSetMemo \/ SetKillable \/ SetFreeable \/ SetError
           \/ SetNnVec
  BY <1>2, AttributesKeep, SameTableSized
<1> QED BY <1>1, <1>2

(* New vectors have no elements, and no file.                              *)
LEMMA NewSized ==
  ASSUME TypeOK, TypeOK', SizedInv, UqidsGiven, VctrAdd \/ AddWithNn
  PROVE  SizedInv'
<1>0. MaxElems \in Nat
  BY DskCount
<1>1. ASSUME NEW u \in Uqids, u > g_vctr_uqid, u <= g_vctr_uqid', lma' = lma,
             half_deleted = {}, vctr'[u].num_elements = 0
      PROVE  LmaSized(u)'
  <2>1. LmaSized(u)
    BY <1>1 DEF SizedInv
  <2>2. ~(u > g_vctr_uqid')
    BY <1>1 DEF TypeOK, Uqids
  <2> QED BY <1>0, <1>1, <2>1, <2>2 DEF LmaSized, SizeFits
<1>2. CASE VctrAdd
  <2>1. PICK q \in Qtypes, memo \in MemoLens, kills \in {Never} \cup KillIgnores,
             frees \in {Never} \cup FreeIgnores : vctr_add(q, memo, kills, frees)
    BY <1>2 DEF VctrAdd
  <2>2. PICK u, y : u = g_vctr_uqid + 1 /\ y = NewVctr(q, memo, kills, frees)
    OBVIOUS
  <2>3. /\ u \in Uqids /\ g_vctr_uqid' = u /\ lma' = lma /\ half_deleted' = half_deleted
        /\ \/ vctrs' = vctrs /\ vctr' = vctr
           \/ vctrs' = vctrs \cup {u} /\ vctr' = [vctr EXCEPT ![u] = y]
    BY <2>1, <2>2 DEF vctr_add, client
  <2>4. u > g_vctr_uqid /\ u <= g_vctr_uqid' /\ g_vctr_uqid <= g_vctr_uqid'
    BY <2>2, <2>3 DEF TypeOK
  <2>5. CASE vctrs' = vctrs /\ vctr' = vctr
    <3>1. PICK W : W = {}
      OBVIOUS
    <3>2. \A w \in Uqids \ W : SizeStays(w)
      BY <2>3, <2>5 DEF SizeStays
    <3> QED BY <2>3, <2>4, <3>1, <3>2, OnlySized
  <2>6. CASE vctrs' = vctrs \cup {u} /\ vctr' = [vctr EXCEPT ![u] = y]
    <3>1. vctr'[u] = y /\ y.num_elements = 0 /\ \A w \in Uqids \ {u} : vctr'[w] = vctr[w]
      BY <2>2, <2>3, <2>6 DEF TypeOK, NewVctr, ZeroVctr
    <3>2. \A w \in Uqids \ {u} : SizeStays(w)
      BY <2>3, <2>6, <3>1 DEF SizeStays
    <3>3. half_deleted = {} => LmaSized(u)'
      BY <1>1, <2>3, <2>4, <3>1
    <3>4. PICK W : W = {u}
      OBVIOUS
    <3> QED BY <2>3, <2>4, <3>2, <3>3, <3>4, OnlySized
  <2> QED BY <2>3, <2>5, <2>6
<1>3. CASE AddWithNn
  <2>1. PICK q \in Qtypes, memo \in MemoLens, kills \in {Never} \cup KillIgnores,
             frees \in {Never} \cup FreeIgnores : NewWithNn(q, memo, kills, frees)
    BY <1>3 DEF AddWithNn
  <2>2. PICK b, n, p, r : /\ b = g_vctr_uqid + 1 /\ n = g_vctr_uqid + 2
                          /\ p = NewVctr(q, memo, kills, frees)
                          /\ r = NewVctr("BL", memo, kills, frees)
    OBVIOUS
  <2>3. /\ b \in Uqids /\ n \in Uqids /\ vctrs' = vctrs \cup {b, n} /\ g_vctr_uqid' = n
        /\ vctr' = Tied([vctr EXCEPT ![b] = p, ![n] = r], b, n)
        /\ lma' = lma /\ half_deleted' = half_deleted
    BY <2>1, <2>2 DEF NewWithNn, rest, client
  <2>4. b # n
    BY <2>2 DEF TypeOK
  <2>5. PICK y, z : y = [p EXCEPT !.nn_key = n] /\ z = [r EXCEPT !.parent_key = b]
    OBVIOUS
  <2>6. /\ p \in VctrVal /\ p.num_elements = 0 /\ r \in VctrVal /\ r.num_elements = 0
    <3>1. /\ q \in {"BL", "SC", "I4"} /\ memo \in Nat
          /\ kills \in Nat \cup {Never} /\ frees \in Nat \cup {Never}
      BY InputTypes
    <3>2. p \in VctrVal /\ r \in VctrVal
      BY <2>2, <3>1, NewVctrType
    <3> QED BY <2>2, <3>2 DEF NewVctr, ZeroVctr
  <2>7. y.num_elements = 0 /\ z.num_elements = 0
    BY <2>5, <2>6 DEF VctrVal
  <2>8. vctr'[b] = y /\ vctr'[n] = z /\ \A u \in Uqids \ {b, n} : vctr'[u] = vctr[u]
    BY <2>3, <2>4, <2>5 DEF TypeOK, Tied
  <2>9. \A u \in Uqids \ {b, n} : SizeStays(u)
    BY <2>3, <2>8 DEF SizeStays
  <2>10. /\ b > g_vctr_uqid /\ b <= g_vctr_uqid' /\ g_vctr_uqid <= g_vctr_uqid'
         /\ n > g_vctr_uqid /\ n <= g_vctr_uqid'
    BY <2>2, <2>3 DEF TypeOK
  <2>11. half_deleted = {} => LmaSized(b)' /\ LmaSized(n)'
    BY <1>1, <2>3, <2>7, <2>8, <2>10
  <2>12. PICK W : W = {b, n}
    OBVIOUS
  <2>13. /\ \A u \in Uqids \ W : SizeStays(u)
         /\ half_deleted = {} => \A v \in Uqids \cap W : LmaSized(v)'
    BY <2>9, <2>11, <2>12
  <2> QED BY <2>3, <2>10, <2>13, OnlySized
<1> QED BY <1>2, <1>3

(* A vector that grows has no linear file.                                 *)
LEMMA StoreSized ==
  ASSUME TypeOK, TypeOK', CopyInv, SizedInv, UqidsGiven, NEW v \in vctrs, ~vctr[v].is_eov,
         NEW x, NEW keys, NEW c, NEW e \in BOOLEAN, NEW m, PutOk(v, x, keys, c),
         LmaSized(v) => x.num_elements <= MaxElems,
         StoreWithMemo(v, x, e, keys, c, m),
         UNCHANGED <<g_vctr_uqid, vctrs, half_deleted, lma>>
  PROVE  SizedInv'
<1>0. v \in Uqids /\ x \in VctrVal /\ ~x.is_lma
  BY DEF PutOk, TypeOK
<1>1. PICK y : y = [x EXCEPT !.min_chnk_idx = MemoMin(x), !.is_eov = e]
  OBVIOUS
<1>2. vctr' = [vctr EXCEPT ![v] = y]
  BY <1>1 DEF StoreWithMemo
<1>3. y.num_elements = x.num_elements /\ y.is_lma = x.is_lma
  BY <1>0, <1>1 DEF VctrVal
<1>4. ~vctr[v].is_lma
  BY DEF CopyInv, RowsOk, RowOk
<1>5. LmaSized(v) => /\ SizeFits(y, lma'[v].size)
                     /\ y.num_elements <= MaxElems
  BY <1>0, <1>3, <1>4 DEF LmaSized, SizeFits
<1>6. v <= g_vctr_uqid
  BY DEF UqidsGiven
<1> QED BY <1>0, <1>2, <1>5, <1>6, RowSized

(* put1, putn, put_chunk and eov.                                          *)
LEMMA PutSized ==
  ASSUME TypeOK, TypeOK', CopyInv, SizedInv, UqidsGiven,
         VctrPutn \/ VctrPutChunk \/ VctrEov
  PROVE  SizedInv'
<1>0. PICK ff : ff = FALSE
  OBVIOUS
<1>1. CASE VctrPutn
  <2>1. PICK v \in Uqids, n \in 1..(MaxNumInChnk + 1) : vctr_putn(v, n)
    BY <1>1 DEF VctrPutn
  <2>2. /\ v \in vctrs /\ ~vctr[v].is_eov /\ vctr[v].num_elements + n <= MaxElems
        /\ vctr[v].num_elements > 0 => chnk_is(v, vctr[v].max_chnk_idx)
        /\ UNCHANGED <<g_vctr_uqid, vctrs, half_deleted, lma>>
    BY <2>1, Zenon DEF vctr_putn, client
  <2>3. PICK y, keys, c, m :
             /\ StoreWithMemo(v, y, ff, keys, c, m)
             /\ y \in VctrVal /\ keys \subseteq Keys /\ c \in [Keys -> ChnkVal]
             /\ y = [vctr[v] EXCEPT !.num_elements = vctr[v].num_elements + n,
                       !.max_chnk_idx = (vctr[v].num_elements + n - 1) \div MaxNumInChnk]
             /\ \A k \in Keys :
                  /\ k \in keys <=> \/ k \in chnks
                                    \/ /\ k[1] = v
                                       /\ SlotsFor(k[2], vctr[v].num_elements, n) # {}
                  /\ Filled_n(c, v, n, k)
    BY <1>0, <2>1, PutnShape
  <2>4. PutOk(v, y, keys, c)
    BY <2>2, <2>3, PutnOk
  <2>5. y.num_elements <= MaxElems /\ ff \in BOOLEAN
    BY <1>0, <2>2, <2>3 DEF TypeOK, VctrVal
  <2> QED BY <2>2, <2>3, <2>4, <2>5, StoreSized
<1>2. CASE VctrPutChunk
  <2>1. PICK v \in Uqids, n \in 1..MaxNumInChnk, s \in Steals : vctr_put_chunk(v, n, s)
    BY <1>2 DEF VctrPutChunk
  <2> DEFINE x == vctr[v]
             i == IF x.num_elements = 0 THEN 0 ELSE x.max_chnk_idx + 1
             y == [x EXCEPT !.num_elements = @ + n, !.max_chnk_idx = i]
             keys == chnks \cup {<<v, i>>}
             c == [chnk EXCEPT ![<<v, i>>] =
                     [FreshChnk(x) EXCEPT !.num_elements = n, !.l1_data = 0..(n - 1)]]
             m == IF s THEN mem_used ELSE incr_mem_used(mem_used, 1)
             e == n < MaxNumInChnk /\ ~MemoFails(keys, c, v, y)
  <2>2. /\ v \in vctrs /\ ~x.is_eov /\ x.num_elements % MaxNumInChnk = 0 /\ i \in ChnkIdxs
        /\ x.num_elements + n <= MaxElems
        /\ \/ StoreWithMemo(v, x, ff, chnks, chnk, mem_used)
           \/ StoreWithMemo(v, y, e, keys, c, m)
        /\ UNCHANGED <<g_vctr_uqid, vctrs, half_deleted, lma>>
    BY <1>0, <2>1, Zenon DEF vctr_put_chunk, client
  <2>3. PutOk(v, x, chnks, chnk) /\ PutOk(v, y, keys, c)
    BY <2>2, UnfinishedOk, PutChunkOk
  <2>4. LmaSized(v) => x.num_elements <= MaxElems
    BY <2>2 DEF LmaSized
  <2>5. y.num_elements <= MaxElems
    BY <2>2 DEF TypeOK, VctrVal
  <2>6. e \in BOOLEAN /\ ff \in BOOLEAN /\ ~vctr[v].is_eov
    BY <1>0, <2>2
  <2> HIDE DEF x, y, keys, c, m, e
  <2> QED BY <2>2, <2>3, <2>4, <2>5, <2>6, StoreSized
<1>3. CASE VctrEov
  <2>1. PICK v \in Uqids : vctr_eov(v)
    BY <1>3 DEF VctrEov
  <2> DEFINE e == ~MemoFails(chnks, chnk, v, vctr[v])
  <2>2. /\ v \in vctrs /\ ~vctr[v].is_eov
        /\ StoreWithMemo(v, vctr[v], e, chnks, chnk, mem_used)
        /\ UNCHANGED <<g_vctr_uqid, vctrs, half_deleted, lma>>
    BY <2>1, Zenon DEF vctr_eov, client
  <2>3. LmaSized(v) => vctr[v].num_elements <= MaxElems
    BY <2>2 DEF LmaSized
  <2>4. e \in BOOLEAN
    OBVIOUS
  <2> HIDE DEF e
  <2> QED BY <2>2, <2>3, <2>4, UnfinishedOk, StoreSized
<1> QED BY <1>1, <1>2, <1>3

(* Early free touches neither the elements nor the linear file.            *)
LEMMA EarlyFreeSized ==
  ASSUME TypeOK, TypeOK', SizedInv, UqidsGiven, VctrEarlyFree
  PROVE  SizedInv'
<1>0. PICK v \in Uqids : \E ub \in EarlyFreeArgs(v) : vctr_early_free(v, ub)
  BY DEF VctrEarlyFree
<1>1. PICK ub \in EarlyFreeArgs(v) : vctr_early_free(v, ub)
  BY <1>0
<1>2. PICK D, top : EarlyFreed(v, D, top)
  BY <1>1, EarlyFreeShape DEF EarlyFreeArgs
<1>3. UNCHANGED <<g_vctr_uqid, vctrs, half_deleted, lma>>
  BY <1>1, Zenon DEF vctr_early_free, client
<1>4. PICK y : y = [vctr[v] EXCEPT !.min_chnk_idx = top]
  OBVIOUS
<1>5. vctr' = [vctr EXCEPT ![v] = y]
  BY <1>2, <1>4 DEF EarlyFreed
<1>6. y.num_elements = vctr[v].num_elements /\ y.is_lma = vctr[v].is_lma
  BY <1>4 DEF TypeOK, VctrVal
<1>7. v \in vctrs => v <= g_vctr_uqid
  BY DEF UqidsGiven
<1>8. LmaSized(v) /\ v \in vctrs =>
        /\ SizeFits(y, lma'[v].size)
        /\ y.num_elements <= MaxElems
  BY <1>3, <1>6 DEF LmaSized, SizeFits
<1> QED BY <1>3, <1>5, <1>7, <1>8, RowSized

-----------------------------------------------------------------------------
(* Linear files made, taken over, longer, dropped.                         *)

(* One linear file changes its size by d, and so does the account.         *)
LEMMA LmaStep ==
  ASSUME TypeOK, TypeOK', DskExact, half_deleted' = half_deleted, l2' = l2,
         NEW v \in Uqids, NEW x, lma' = [lma EXCEPT ![v] = x], NEW d \in Int,
         half_deleted = {} => x.size = lma[v].size + d /\ dsk_used' = dsk_used + d
  PROVE  DskExact'
<1> SUFFICES ASSUME half_deleted = {}
             PROVE  dsk_used' = MaxNumInChnk * Cardinality(FullFiles') + LmaTotal'
  BY DskCounted
<1>1. LmaTotal' = LmaTotal + d
  BY LmaChanges
<1>2. FullFiles' = FullFiles
  BY DEF FullFiles, Full
<1>3. PICK a : a = MaxNumInChnk * Cardinality(FullFiles)
  OBVIOUS
<1>4. a \in Nat /\ LmaTotal \in Nat /\ dsk_used = a + LmaTotal
  BY <1>3, DskCount
<1>5. dsk_used' = a + (LmaTotal + d)
  BY <1>4
<1> QED BY <1>1, <1>2, <1>3, <1>5

(* The account holds every linear file.                                    *)
LEMMA LmaCounted ==
  ASSUME TypeOK, DskExact, half_deleted = {}, NEW v \in Uqids
  PROVE  lma[v].size \in Nat /\ lma[v].size <= dsk_used
<1>1. PICK a, t, s : /\ a = MaxNumInChnk * Cardinality(FullFiles)
                     /\ t = LmaTotal /\ s = lma[v].size
  OBVIOUS
<1>2. a \in Nat /\ t \in Nat /\ dsk_used = a + t
  BY <1>1, DskCount
<1>3. s \in Nat /\ s <= t
  BY <1>1, LmaSums
<1> QED BY <1>1, <1>2, <1>3

(* vctr_drop_mem() of the linear file.                                     *)
LEMMA DropLmaFile ==
  ASSUME TypeOK, TypeOK', SizedInv, UqidsGiven, DropLma
  PROVE  SizedInv' /\ (DskExact => DskExact')
<1>1. PICK v \in Uqids : drop_lma(v)
  BY DEF DropLma
<1>2. PICK y : y = [vctr[v] EXCEPT !.is_lma = FALSE]
  OBVIOUS
<1>3. /\ v \in vctrs /\ vctr' = [vctr EXCEPT ![v].is_lma = FALSE]
      /\ lma' = [lma EXCEPT ![v] = NoLma]
      /\ dsk_used' = decr_dsk_used(dsk_used, lma[v].size)
      /\ UNCHANGED <<g_vctr_uqid, vctrs, l2, half_deleted>>
  BY <1>1, Zenon DEF drop_lma, client
<1>4. vctr' = [vctr EXCEPT ![v] = y] /\ v <= g_vctr_uqid
  BY <1>2, <1>3 DEF UqidsGiven
<1>5. y.num_elements = vctr[v].num_elements /\ ~y.is_lma
  BY <1>2 DEF TypeOK, VctrVal
<1>6. NoLma.size = 0 /\ lma'[v] = NoLma /\ \A u \in Uqids \ {v} : lma'[u] = lma[u]
  BY <1>3 DEF NoLma, TypeOK
<1>7. half_deleted = {} /\ LmaSized(v) /\ v \in vctrs =>
        /\ SizeFits(y, lma'[v].size)
        /\ y.num_elements <= MaxElems
  BY <1>5, <1>6 DEF LmaSized, SizeFits
<1>8. SizedInv'
  BY <1>3, <1>4, <1>6, <1>7, RowSized
<1>9. ASSUME DskExact PROVE DskExact'
  <2>1. PICK d : d = -lma[v].size
    OBVIOUS
  <2>2. lma[v].size \in Nat
    BY LmaSums
  <2>3. half_deleted = {} => NoLma.size = lma[v].size + d /\ dsk_used' = dsk_used + d
    <3> SUFFICES ASSUME half_deleted = {}
                 PROVE  NoLma.size = lma[v].size + d /\ dsk_used' = dsk_used + d
      OBVIOUS
    <3>1. lma[v].size <= dsk_used /\ dsk_used \in Nat
      BY <1>9, LmaCounted DEF TypeOK
    <3>2. dsk_used' = dsk_used - lma[v].size
      BY <1>3, <3>1 DEF decr_dsk_used
    <3> QED BY <1>6, <2>1, <2>2, <3>1, <3>2
  <2>4. d \in Int
    BY <2>1, <2>2
  <2> QED BY <1>3, <1>9, <2>3, <2>4, LmaStep
<1> QED BY <1>8, <1>9

(* vctr_chnks_to_lma(): nothing of a whole vector is missing.              *)
LEMMA ChnksToLmaFile ==
  ASSUME TypeOK, TypeOK', CopyInv, WholeInv, SizedInv, UqidsGiven, ChnksToLma
  PROVE  SizedInv' /\ (~FilesFail /\ DskExact => DskExact')
<1>1. PICK v \in Uqids : vctr_chnks_to_lma(v)
  BY DEF ChnksToLma
<1>2. PICK S, all, f, b, y :
         /\ S = Run(0, vctr[v].max_chnk_idx, FillsLma(v)) /\ all = 0..vctr[v].max_chnk_idx
         /\ f = [size |-> vctr[v].num_elements,
                 data |-> {p \in ChnkIdxs \X Slots :
                             p[1] \in S /\ p[2] \in Given(v, p[1])}]
         /\ b = (S = all) /\ y = [vctr[v] EXCEPT !.is_lma = b]
  OBVIOUS
<1>3. /\ v \in vctrs /\ ~vctr[v].is_lma /\ KeepsAll(vctr[v]) /\ vctr[v].num_elements > 0
      /\ dsk_used + vctr[v].num_elements <= DskAllowed
      /\ dsk_used' = incr_dsk_used(dsk_used, vctr[v].num_elements)
      /\ UNCHANGED <<g_vctr_uqid, vctrs, l2, half_deleted>>
  BY <1>1, Zenon DEF vctr_chnks_to_lma, client, KeepsAll
<1>4. /\ lma' = [lma EXCEPT ![v] = f]
      /\ vctr' = [vctr EXCEPT ![v].is_lma = b]
  BY <1>1, <1>2 DEF vctr_chnks_to_lma
<1>5. vctr' = [vctr EXCEPT ![v] = y] /\ v <= g_vctr_uqid
  BY <1>2, <1>3, <1>4 DEF UqidsGiven
<1>6. /\ lma'[v] = f /\ \A u \in Uqids \ {v} : lma'[u] = lma[u]
      /\ f.size = vctr[v].num_elements
  BY <1>2, <1>4 DEF TypeOK
<1>7. y.num_elements = vctr[v].num_elements /\ (y.is_lma <=> b)
  BY <1>2 DEF TypeOK, VctrVal
<1>8. ASSUME half_deleted = {} PROVE b
  <2>1. v \in Live
    BY <1>3, <1>8 DEF Live
  <2>2. all \subseteq Present(v)
    BY <1>2, <1>3, <2>1 DEF WholeInv, Whole
  <2>3. ASSUME NEW i \in all PROVE i \in FillsLma(v)
    <3>1. i \in Present(v) /\ <<v, i>> \in chnks
      BY <2>2 DEF Present, chnk_is
    <3>2. <<v, i>>[1] = v
      OBVIOUS
    <3>3. chnk[<<v, i>>].l1_mem \/ chnk[<<v, i>>].l2_exists
      BY <1>3, <2>1, <3>1, <3>2 DEF CopyInv, DataHeld
    <3> QED BY <3>1, <3>3 DEF FillsLma
  <2>4. vctr[v].max_chnk_idx \in Nat
    BY DEF TypeOK, VctrVal
  <2>5. S = all
    BY <1>2, <2>3, <2>4 DEF Run
  <2> QED BY <1>2, <2>5
<1>9. half_deleted = {} /\ LmaSized(v) /\ v \in vctrs =>
        /\ SizeFits(y, lma'[v].size)
        /\ y.num_elements <= MaxElems
  BY <1>6, <1>7, <1>8 DEF LmaSized, SizeFits
<1>10. SizedInv'
  BY <1>3, <1>5, <1>6, <1>9, RowSized
<1>11. ASSUME ~FilesFail, DskExact PROVE DskExact'
  <2>1. PICK d : d = vctr[v].num_elements
    OBVIOUS
  <2>2. d \in Nat
    BY <2>1 DEF TypeOK, VctrVal
  <2>3. dsk_used' = dsk_used + d
    BY <1>3, <2>1 DEF incr_dsk_used
  <2>4. half_deleted = {} => lma[v].size = 0
    BY <1>3, <1>11 DEF SizedInv, LmaSized, SizeFits
  <2>5. half_deleted = {} => f.size = lma[v].size + d /\ dsk_used' = dsk_used + d
    BY <1>6, <2>1, <2>2, <2>3, <2>4
  <2>6. d \in Int
    BY <2>2
  <2> QED BY <1>3, <1>4, <1>11, <2>5, <2>6, LmaStep
<1> QED BY <1>10, <1>11

(* vctr_set_lma().                                                         *)
LEMMA SetLmaFile ==
  ASSUME TypeOK, TypeOK', SizedInv, UqidsGiven, SetLma
  PROVE  SizedInv' /\ (~FilesFail /\ DskExact => DskExact')
<1>1. PICK v \in Uqids, n \in 1..MaxElems : vctr_set_lma(v, n)
  BY DEF SetLma
<1>2. PICK f : f = [size |-> n,
                    data |-> {p \in ChnkIdxs \X Slots : p[1] * MaxNumInChnk + p[2] < n}]
  OBVIOUS
<1>3. /\ v \in vctrs /\ ~vctr[v].is_lma
      /\ dsk_used + n <= DskAllowed /\ dsk_used' = incr_dsk_used(dsk_used, n)
      /\ lma' = [lma EXCEPT ![v] = f]
      /\ UNCHANGED <<g_vctr_uqid, vctrs, l2, half_deleted>>
  BY <1>1, <1>2, Zenon DEF vctr_set_lma, client
<1>4. PICK low, top : LmaSet(v, n, low, top)
  BY <1>1, SetLmaShape
<1>5. PICK y : y = [vctr[v] EXCEPT !.num_elements = n, !.min_chnk_idx = low,
                            !.max_chnk_idx = top, !.is_eov = TRUE, !.is_lma = TRUE]
  OBVIOUS
<1>6. vctr' = [vctr EXCEPT ![v] = y] /\ v <= g_vctr_uqid
  BY <1>3, <1>4, <1>5 DEF LmaSet, UqidsGiven
<1>7. y.num_elements = n /\ y.is_lma
  BY <1>5 DEF TypeOK, VctrVal
<1>8. /\ lma'[v] = f /\ \A u \in Uqids \ {v} : lma'[u] = lma[u]
      /\ f.size = n /\ n \in Nat /\ n <= MaxElems
  BY <1>2, <1>3, DskCount DEF TypeOK
<1>9. SizeFits(y, lma'[v].size) /\ y.num_elements <= MaxElems
  BY <1>7, <1>8 DEF SizeFits
<1>10. SizedInv'
  BY <1>3, <1>6, <1>8, <1>9, RowSized
<1>11. ASSUME ~FilesFail, DskExact PROVE DskExact'
  <2>1. dsk_used' = dsk_used + n
    BY <1>3 DEF incr_dsk_used
  <2>2. half_deleted = {} => lma[v].size = 0
    BY <1>3, <1>11 DEF SizedInv, LmaSized, SizeFits
  <2>3. half_deleted = {} => f.size = lma[v].size + n /\ dsk_used' = dsk_used + n
    BY <1>8, <2>1, <2>2
  <2>4. n \in Int
    OBVIOUS
  <2> QED BY <1>3, <1>11, <2>3, <2>4, LmaStep
<1> QED BY <1>10, <1>11

(* vctr_set_lma() failing leaves a file where there was no linear one.     *)
LEMMA SetLmaFailsSized ==
  ASSUME TypeOK, TypeOK', SizedInv, UqidsGiven, SetLmaFails
  PROVE  SizedInv'
<1>1. PICK v \in Uqids, n \in 1..MaxElems : set_lma_fails(v, n)
  BY DEF SetLmaFails
<1>2. /\ v \in vctrs /\ ~vctr[v].is_lma /\ UNCHANGED <<vctr, g_vctr_uqid, vctrs, half_deleted>>
      /\ lma' = lma \/ lma' = [lma EXCEPT ![v] = [size |-> n, data |-> {}]]
  BY <1>1, Zenon DEF set_lma_fails, vctrTable, client
<1>3. vctr' = [vctr EXCEPT ![v] = vctr[v]] /\ v <= g_vctr_uqid
  BY <1>2 DEF TypeOK, UqidsGiven
<1>4. \A u \in Uqids \ {v} : lma'[u] = lma[u]
  BY <1>2 DEF TypeOK
<1>5. SizeFits(vctr[v], lma'[v].size)
  BY <1>2 DEF SizeFits, SetLmaFails
<1>6. LmaSized(v) => vctr[v].num_elements <= MaxElems
  BY <1>2 DEF LmaSized
<1> QED BY <1>2, <1>3, <1>4, <1>5, <1>6, RowSized

(* vctr_append(): what the linear file of s has is all that s has.         *)
LEMMA AppendFile ==
  ASSUME TypeOK, TypeOK', SizedInv, UqidsGiven, Append
  PROVE  SizedInv' /\ (DskRoom /\ DskExact => DskExact')
<1>1. PICK d \in Uqids, s \in Uqids : vctr_append(d, s)
  BY DEF Append
<1>2. PICK n, m, z, f, y :
         /\ n = vctr[d].num_elements /\ m = vctr[s].num_elements /\ z = lma[s].size
         /\ f = [size |-> lma[d].size + z,
                 data |-> lma[d].data \cup
                   {p \in ChnkIdxs \X Slots :
                      p[1] * MaxNumInChnk + p[2] \in lma[d].size .. (lma[d].size + m - 1)}]
         /\ y = [vctr[d] EXCEPT !.num_elements = n + m]
  OBVIOUS
<1>3. /\ d \in vctrs /\ s \in vctrs /\ vctr[d].is_lma /\ vctr[s].is_lma
      /\ n + m <= MaxElems
      /\ vctr' = [vctr EXCEPT ![d].num_elements = n + m]
      /\ dsk_used' = incr_dsk_used(dsk_used, z)
      /\ UNCHANGED <<g_vctr_uqid, vctrs, l2, half_deleted>>
  BY <1>1, <1>2, Zenon DEF vctr_append, client
<1>4. lma' = [lma EXCEPT ![d] = f]
  BY <1>1, <1>2 DEF vctr_append, TypeOK
<1>5. vctr' = [vctr EXCEPT ![d] = y] /\ d <= g_vctr_uqid
  BY <1>2, <1>3 DEF UqidsGiven
<1>6. /\ lma'[d] = f /\ \A u \in Uqids \ {d} : lma'[u] = lma[u]
      /\ f.size = lma[d].size + z
  BY <1>2, <1>4 DEF TypeOK
<1>7. y.num_elements = n + m /\ y.is_lma /\ n \in Nat /\ m \in Nat
  BY <1>2, <1>3 DEF TypeOK, VctrVal
<1>8. half_deleted = {} => z = m /\ m <= MaxElems
  BY <1>2, <1>3 DEF SizedInv, LmaSized, SizeFits
<1>9. half_deleted = {} /\ LmaSized(d) /\ d \in vctrs =>
        /\ SizeFits(y, lma'[d].size)
        /\ y.num_elements <= MaxElems
  <2> SUFFICES ASSUME half_deleted = {}, LmaSized(d)
               PROVE  lma'[d].size = y.num_elements /\ y.num_elements <= MaxElems
    BY <1>7 DEF SizeFits
  <2>1. lma[d].size = n
    BY <1>2, <1>3 DEF LmaSized, SizeFits
  <2> QED BY <1>3, <1>6, <1>7, <1>8, <2>1
<1>10. SizedInv'
  BY <1>3, <1>5, <1>6, <1>9, RowSized
<1>11. ASSUME DskRoom, DskExact PROVE DskExact'
  <2>1. z \in Nat /\ dsk_used \in Nat /\ MaxElems \in Nat /\ DskAllowed \in Nat
    BY <1>2, LmaSums, DskCount
  <2>2. half_deleted = {} => dsk_used' = dsk_used + z
    BY <1>3, <1>7, <1>8, <1>11, <2>1 DEF incr_dsk_used, DskRoom
  <2>3. half_deleted = {} => f.size = lma[d].size + z /\ dsk_used' = dsk_used + z
    BY <1>6, <2>2
  <2>4. z \in Int
    BY <2>1
  <2> QED BY <1>3, <1>4, <1>11, <2>3, <2>4, LmaStep
<1> QED BY <1>10, <1>11

(* A vector is deleted with its linear file, or without it if it persists. *)
LEMMA DeletionFile ==
  ASSUME TypeOK, TypeOK', CopyInv, SizedInv, UqidsGiven, Delete \/ Kill \/ BrkNnVec
  PROVE  SizedInv' /\ (DskExact => DskExact')
<1>1. CASE /\ \A u \in Uqids : Keeps(vctr[u], vctr'[u])
           /\ UNCHANGED <<g_vctr_uqid, vctrs, rest>>
  <2>1. SameTable /\ UNCHANGED <<half_deleted, lma, l2, dsk_used>>
    BY <1>1 DEF SameTable, TypeOK, rest, chnkTable, usage, client
  <2> QED BY <2>1, SameTableSized, SameDsk DEF Full
<1>2. ASSUME NEW v \in vctrs, NEW D, Deleted(v, D)
      PROVE  SizedInv' /\ (DskExact => DskExact')
  <2>1. CASE half_deleted' = half_deleted \cup {v}
    <3>1. half_deleted' # {}
      BY <2>1
    <3> QED BY <3>1 DEF SizedInv, DskExact
  <2>2. CASE vctrs' = vctrs \ {v} /\ half_deleted' = half_deleted
    <3>1. PICK p \in BOOLEAN : \E u \in BOOLEAN : FilesDeleted(v, D, p, u)
      BY <1>2 DEF Deleted
    <3>2. PICK u \in BOOLEAN : FilesDeleted(v, D, p, u)
      BY <3>1
    <3>3. v \in Uqids /\ v <= g_vctr_uqid /\ g_vctr_uqid' = g_vctr_uqid
      BY <1>2 DEF TypeOK, UqidsGiven, Deleted
    <3>4. \A w \in Uqids \ {v} : SizeStays(w)
      BY <1>2, <2>2 DEF Deleted, Keeps, SizeStays
    <3>5. LmaSized(v)'
      BY <2>2, <3>3 DEF LmaSized, TypeOK, Uqids
    <3>6. PICK W : W = {v}
      OBVIOUS
    <3>7. /\ \A w \in Uqids \ W : SizeStays(w)
          /\ half_deleted = {} => \A w \in Uqids \cap W : LmaSized(w)'
          /\ g_vctr_uqid <= g_vctr_uqid'
      BY <3>3, <3>4, <3>5, <3>6 DEF TypeOK
    <3>8. SizedInv'
      BY <2>2, <3>7, OnlySized
    <3>9. ASSUME DskExact PROVE DskExact'
      <4>1. PICK a : a = IF u THEN decr_dsk_used(dsk_used, lma[v].size) ELSE dsk_used
        OBVIOUS
      <4>2. /\ l2' = L2AfterDel(chnk, v, D, p)
            /\ lma' = IF u THEN [lma EXCEPT ![v] = NoLma] ELSE lma
            /\ dsk_used' = DskAfterDel(a, chnk, v, D, p)
        BY <3>2, <4>1 DEF FilesDeleted
      <4>3. /\ D \subseteq ChnkIdxs
            /\ \A i \in D : chnk[<<v, i>>].l2_exists <=> Full(<<v, i>>)
        <5>1. D \subseteq ChnkIdxs /\ D \subseteq Present(v)
          BY <1>2 DEF Deleted, Present
        <5> QED BY <3>3, <5>1, RowsKnow
      <4>4. half_deleted = {} => a = MaxNumInChnk * Cardinality(FullFiles) + LmaTotal'
        <5> SUFFICES ASSUME half_deleted = {}
                     PROVE  a = MaxNumInChnk * Cardinality(FullFiles) + LmaTotal'
          OBVIOUS
        <5>1. CASE u
          <6>1. PICK d, s, f : /\ s = lma[v].size /\ d = -s
                               /\ f = MaxNumInChnk * Cardinality(FullFiles)
            OBVIOUS
          <6>2. s \in Nat /\ s <= dsk_used /\ dsk_used \in Nat /\ d \in Int
            BY <3>3, <3>9, <6>1, LmaCounted DEF TypeOK
          <6>3. f \in Nat /\ LmaTotal \in Nat /\ dsk_used = f + LmaTotal
            BY <3>9, <6>1, DskCount
          <6>4. NoLma.size = lma[v].size + d
            BY <6>1, <6>2 DEF NoLma
          <6>5. lma' = [lma EXCEPT ![v] = NoLma]
            BY <4>2, <5>1
          <6>6. LmaTotal' = LmaTotal + d
            BY <3>3, <6>2, <6>4, <6>5, LmaChanges
          <6>7. a = dsk_used - s
            BY <4>1, <5>1, <6>1, <6>2 DEF decr_dsk_used
          <6> QED BY <6>1, <6>2, <6>3, <6>6, <6>7
        <5>2. CASE ~u
          <6>1. LmaTotal' = LmaTotal /\ a = dsk_used
            BY <4>1, <4>2, <5>2, LmaSame
          <6> QED BY <3>9, <6>1, DskCount
        <5> QED BY <5>1, <5>2
      <4>5. PICK t : t = LmaTotal'
        OBVIOUS
      <4>6. t \in Nat
        <5>1. \A w \in Uqids : lma'[w].size \in Nat
          BY DEF TypeOK, LmaFile
        <5> QED BY <4>5, <5>1, SizesSum DEF LmaTotal
      <4>7. half_deleted = {} => dsk_used' = MaxNumInChnk * Cardinality(FullFiles') + LmaTotal'
        BY <3>3, <4>2, <4>3, <4>4, <4>5, <4>6, FilesGone
      <4> QED BY <2>2, <4>7, DskCounted
    <3> QED BY <3>8, <3>9
  <2> QED BY <1>2, <2>1, <2>2 DEF Deleted
<1> QED BY <1>1, <1>2, DeletionShape

-----------------------------------------------------------------------------
(* Every step.                                                             *)

(* SizedInv is kept.                                                       *)
LEMMA NextSized ==
  ASSUME TypeOK, TypeOK', CopyInv, WholeInv, UqidsGiven, SizedInv, Next
  PROVE  SizedInv'
<1>1. CASE GrowNext
  BY <1>1, NewSized, PutSized, EarlyFreeSized DEF GrowNext
<1>2. CASE AccessNext
  BY <1>2, AccessSized
<1>3. CASE TierNext
  BY <1>3, QuietSized, DropLmaFile, ChnksToLmaFile, SetLmaFile, SetLmaFailsSized, AppendFile
     DEF TierNext
<1>4. CASE LifeNext
  BY <1>4, QuietSized, NewSized, DeletionFile DEF LifeNext
<1> QED BY <1>1, <1>2, <1>3, <1>4 DEF Next

(* So is DskExact, where there is room.                                    *)
LEMMA NextDsk ==
  ASSUME TypeOK, TypeOK', CopyInv, WholeInv, UqidsGiven, SizedInv, DskRoom, DskExact, Next,
         ~FilesFail
  PROVE  DskExact'
<1>1. CASE GrowNext
  BY <1>1, QuietDsk, PutDsk, EarlyFreeDsk DEF GrowNext
<1>2. CASE AccessNext
  BY <1>2, QuietDsk, DropDsk DEF AccessNext
<1>3. CASE TierNext
  BY <1>3, QuietDsk, DropDsk, BackupDsk, LmaToChnksDsk, DropLmaFile, ChnksToLmaFile,
     SetLmaFile, AppendFile DEF TierNext, SetLmaFails
<1>4. CASE LifeNext
  BY <1>4, QuietDsk, DeletionFile DEF LifeNext
<1> QED BY <1>1, <1>2, <1>3, <1>4 DEF Next

(* SizedInv is an invariant.                                               *)
LEMMA VctrSizedInv == Spec => []SizedInv
<1>1. Init => SizedInv
  BY DEF Init, VctrInit, SizedInv, LmaSized, NoLma
<1>2. /\ TypeOK /\ TypeOK' /\ CopyInv /\ WholeInv /\ NnMutual /\ UqidsGiven /\ SizedInv
      /\ [Next]_vars
      => SizedInv'
  <2> SUFFICES ASSUME TypeOK, TypeOK', CopyInv, WholeInv, UqidsGiven, SizedInv, [Next]_vars
               PROVE  SizedInv'
    OBVIOUS
  <2>1. CASE UNCHANGED vars
    <3>1. SameTable /\ lma' = lma
      BY <2>1, TableUntouched DEF vars, vctrTable, chnkTable, client
    <3> QED BY <3>1, SameTableSized
  <2> QED BY <2>1, NextSized
<1> QED BY <1>1, <1>2, VctrTypeOK, VctrCopyInv, VctrWholeInv, TiesAndUqids, PTL DEF Spec

(* g_dsk_used is the size of the files on disk: every operation that makes *)
(* or removes the file of a chunk or of a whole vector, or makes it longer,*)
(* counts it, those of a vector deleted after persist() stay counted, and  *)
(* vctr_append(), which counts by the size of the file, is right because   *)
(* that is the number of the vector's elements.  It takes that no quota is *)
(* hit, for then incr_dsk_used() leaves the counter alone and nobody       *)
(* learns of it, and that vctr_set_lma() does not fail at the file, for    *)
(* then what it counted before stays counted (vctr_set_lma.c:53-64).       *)
THEOREM VctrDskExact == ASSUME ~FilesFail PROVE Spec /\ []DskRoom => []DskExact
<1>1. Init => DskExact
  <2> SUFFICES ASSUME Init PROVE DskExact
    OBVIOUS
  <2>1. dsk_used = 0 /\ MaxNumInChnk \in Nat
    BY BoundsAssumption DEF Init, VctrInit, BoundsAssumption
  <2>2. FullFiles = {}
    BY DEF Init, VctrInit, FullFiles, Full, NoFile
  <2>3. \A v \in Uqids : lma[v].size = 0
    BY DEF Init, VctrInit, NoLma
  <2>4. LmaTotal = 0
    <3>1. PICK f, n : f = [v \in Uqids |-> lma[v].size] /\ n = MaxUqid
      OBVIOUS
    <3>2. n \in Nat /\ \A i \in 1..n : f[i] = 0
      BY <2>3, <3>1, BoundsAssumption DEF BoundsAssumption, Uqids
    <3>3. SumTo(f, n) = 0
      BY <3>2, SumZero
    <3> QED BY <3>1, <3>3 DEF LmaTotal
  <2>5. dsk_used = MaxNumInChnk * Cardinality(FullFiles) + LmaTotal
    BY <2>1, <2>2, <2>4, FS_EmptySet
  <2> QED BY <2>5 DEF DskExact, FullFiles, Full, LmaTotal
<1>2. /\ TypeOK /\ TypeOK' /\ CopyInv /\ WholeInv /\ NnMutual /\ UqidsGiven /\ SizedInv
      /\ DskRoom /\ DskExact /\ [Next]_vars
      => DskExact'
  <2> SUFFICES ASSUME TypeOK, TypeOK', CopyInv, WholeInv, UqidsGiven, SizedInv, DskRoom,
                      DskExact, [Next]_vars
               PROVE  DskExact'
    OBVIOUS
  <2>1. CASE UNCHANGED vars
    <3>1. UNCHANGED <<half_deleted, dsk_used, lma, l2>>
      BY <2>1 DEF vars, client, usage
    <3> QED BY <3>1, SameDsk DEF Full
  <2> QED BY <2>1, NextDsk
<1> QED BY <1>1, <1>2, VctrTypeOK, VctrCopyInv, VctrWholeInv, VctrSizedInv, TiesAndUqids,
        PTL DEF Spec
=============================================================================
