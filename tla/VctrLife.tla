------------------------------ MODULE VctrLife ------------------------------
(***************************************************************************)
(* The attributes that decide how long a vector and its files live, the    *)
(* tie between a vector and the vector (nn) that marks its nulls, and the  *)
(* ways a vector is deleted.                                               *)
(***************************************************************************)
EXTENDS VctrGrow

rest == <<chnkTable, l2, lma, usage, client>>

(* vctr_persist(v, true): files outlive the vector.                        *)
vctr_persist(v) ==
  LET x == vctr[v]
  IN  /\ v \in vctrs /\ ~x.is_error
      /\ ~x.is_killable /\ ~x.is_early_freeable /\ x.memo_len = 0
      /\ vctr' = [vctr EXCEPT ![v].is_persist = TRUE]
      /\ UNCHANGED <<g_vctr_uqid, vctrs, rest>>

(* vctr_set_memo() with a memo_len other than 0.                           *)
vctr_set_memo(v, memo) ==
  LET x == vctr[v]
  IN  /\ v \in vctrs /\ x.num_elements = 0 /\ ~x.is_persist /\ x.memo_len = 0
      /\ memo > 0
      /\ vctr' = [vctr EXCEPT ![v].memo_len = memo]
      /\ UNCHANGED <<g_vctr_uqid, vctrs, rest>>

\* the most it takes is one less than vctr_add() does
vctr_set_num_kill_ignore(v, n) ==
  LET x == vctr[v]
  IN  /\ v \in vctrs /\ n < 16 /\ x.num_elements = 0
      /\ ~x.is_persist /\ ~x.is_killable /\ ~x.is_eov
      /\ vctr' = [vctr EXCEPT ![v].is_killable = TRUE, ![v].num_kill_ignore = n]
      /\ UNCHANGED <<g_vctr_uqid, vctrs, rest>>

(* vctr_get_set("early_freeable", "set"): whatever the vector is like, but *)
(* once only.                                                              *)
vctr_set_early_freeable(v, n) ==
  LET x == vctr[v]
  IN  /\ v \in vctrs /\ ~x.is_error /\ ~x.is_early_freeable
      /\ vctr' = [vctr EXCEPT ![v].is_early_freeable = TRUE,
                              ![v].num_free_ignore = n]
      /\ UNCHANGED <<g_vctr_uqid, vctrs, rest>>

\* vctr_get_set("error", "set")
vctr_set_error(v) ==
  /\ v \in vctrs /\ ~vctr[v].is_error
  /\ vctr' = [vctr EXCEPT ![v].is_error = TRUE]
  /\ UNCHANGED <<g_vctr_uqid, vctrs, rest>>

-----------------------------------------------------------------------------
(* The nn vector.  lVector:set_nn_vec() ties two finished vectors of equal *)
(* length, after the checks it and vctr_set_nn_vec() make.                 *)

Tied(x, b, n) == [x EXCEPT ![b].nn_key = n, ![n].parent_key = b]

\* mutant: a vector may become the nn vector of a second parent
set_nn_vec_Shared(b, n) ==
  /\ {b, n} \subseteq vctrs /\ b # n
  /\ vctr[b].nn_key = 0 /\ vctr[b].parent_key = 0 /\ vctr[n].nn_key = 0
  /\ vctr[n].qtype = "BL" /\ vctr[b].is_eov /\ vctr[n].is_eov
  /\ vctr' = Tied(vctr, b, n)
  /\ UNCHANGED <<g_vctr_uqid, vctrs, rest>>
set_nn_vec(b, n) ==
  /\ {b, n} \subseteq vctrs /\ b # n
  /\ vctr[b].nn_key = 0 /\ vctr[b].parent_key = 0
  /\ vctr[n].nn_key = 0 /\ vctr[n].parent_key = 0
  /\ vctr[n].qtype = "BL"
  /\ vctr[b].is_eov /\ vctr[n].is_eov
  /\ vctr[b].num_elements = vctr[n].num_elements
  /\ vctr' = Tied(vctr, b, n)
  /\ UNCHANGED <<g_vctr_uqid, vctrs, rest>>

(* lVector.new() with has_nulls: a vector and its nn vector at once, with  *)
(* the same attributes.                                                    *)
NewWithNn(q, memo, kills, frees) ==
  LET b == g_vctr_uqid + 1
      n == g_vctr_uqid + 2
      New(t) == NewVctr(t, memo, kills, frees)
  IN  /\ {b, n} \subseteq Uqids
      /\ ~(memo > 0 /\ frees # Never)
      /\ g_vctr_uqid' = n /\ vctrs' = vctrs \cup {b, n}
      /\ vctr' = Tied([vctr EXCEPT ![b] = New(q), ![n] = New("BL")], b, n)
      /\ UNCHANGED rest

\* both ends of the tie between b and its nn vector undone
Untied(x, b) == [x EXCEPT ![x[b].nn_key].parent_key = 0, ![b].nn_key = 0]

-----------------------------------------------------------------------------
(* vctr_del().  x is the vector table on entry; val, in the code, a copy   *)
(* of v's row made there.  The tie to the nn vector goes first, for good;  *)
(* a vector that has a parent stays.  The linear file goes next (unless    *)
(* it is in use, which is an error, or persists), then the chunks in       *)
(* order, up to one that is missing or has readers: an error, which leaves *)
(* the vector with the chunks from there on and without its linear file.   *)

DelRun(v, val) == Run(val.min_chnk_idx, val.max_chnk_idx, Freeable(v))

\* mutant: a chunk that is in use is skipped and the deletion goes on
DelChnksDone_Skip(v, val) == TRUE
DelChnksDone(v, val) == val.num_elements = 0 \/ DelRun(v, val) = Idxs(val)

vctr_del(x, v) ==
  LET val == x[v]
      y == IF val.nn_key # 0 THEN Untied(x, v) ELSE x
      Unlinks == val.is_lma /\ ~val.is_persist
      D == IF val.num_elements = 0 THEN {} ELSE DelRun(v, val)
      d == IF Unlinks THEN decr_dsk_used(dsk_used, lma[v].size) ELSE dsk_used
  IN  IF val.parent_key # 0 \/ (Unlinks /\ val.num_readers + val.num_writers > 0)
      THEN /\ vctr' = y
           /\ UNCHANGED <<g_vctr_uqid, vctrs, rest>>
      ELSE /\ IF DelChnksDone(v, val)
              THEN /\ vctrs' = vctrs \ {v} /\ vctr' = [y EXCEPT ![v] = ZeroVctr]
                   /\ UNCHANGED half_deleted
              ELSE /\ vctrs' = vctrs /\ vctr' = [y EXCEPT ![v].is_lma = @ /\ ~Unlinks]
                   /\ half_deleted' = half_deleted \cup {v}
           /\ lma' = IF Unlinks THEN [lma EXCEPT ![v] = NoLma] ELSE lma
           /\ chnks' = chnks \ KeysOf(v, D)
           /\ chnk' = ChnkAfterDel(chnk, v, D)
           /\ mem_used' = MemAfterDel(mem_used, chnk, v, D)
           /\ l2' = L2AfterDel(chnk, v, D, val.is_persist)
           /\ dsk_used' = DskAfterDel(d, chnk, v, D, val.is_persist)
           /\ UNCHANGED <<g_vctr_uqid, held, lma_held>>

(* lVector:delete() and __gc, and the __gc of cVector, which tries again.  *)
(* All leave a vector that has a parent alone.                             *)
delete(v) ==
  /\ v \in vctrs /\ vctr[v].parent_key = 0
  /\ vctr_del(vctr, v)

(* vctr_kill(): a killable, unfinished vector loses a life, then itself.   *)
(* lVector:kill() calls it for a vector that has no parent and then for    *)
(* its nn vector, which has one: here two calls, in any order.             *)
vctr_kill(v) ==
  LET x == vctr[v]
  IN  /\ v \in vctrs /\ x.is_killable /\ ~x.is_eov
      /\ IF x.num_kill_ignore > 0
         THEN /\ vctr' = [vctr EXCEPT ![v].num_kill_ignore = @ - 1]
              /\ UNCHANGED <<g_vctr_uqid, vctrs, rest>>
         ELSE vctr_del(vctr, v)

(* vctr_brk_nn_vec(): undo the tie and, if del_nn, delete the nn vector.   *)
vctr_brk_nn_vec(b, del_nn) ==
  LET n == vctr[b].nn_key
  IN  /\ b \in vctrs /\ n # 0 /\ n \in vctrs
      /\ IF del_nn THEN vctr_del(Untied(vctr, b), n)
         ELSE /\ vctr' = Untied(vctr, b)
              /\ UNCHANGED <<g_vctr_uqid, vctrs, rest>>

-----------------------------------------------------------------------------
VctrPersist  == \E v \in Uqids : vctr_persist(v)
VctrSetMemo  == \E v \in Uqids, memo \in MemoLens : vctr_set_memo(v, memo)
SetKillable  == \E v \in Uqids, n \in KillIgnores : vctr_set_num_kill_ignore(v, n)
SetFreeable  == \E v \in Uqids, n \in FreeIgnores : vctr_set_early_freeable(v, n)
SetError     == MayFail /\ \E v \in Uqids : vctr_set_error(v)
SetNnVec     == \E b, n \in Uqids : set_nn_vec(b, n)
AddWithNn    == \E q \in Qtypes, memo \in MemoLens,
                   kills \in {Never} \cup KillIgnores,
                   frees \in {Never} \cup FreeIgnores : NewWithNn(q, memo, kills, frees)
Delete       == \E v \in Uqids : delete(v)
Kill         == \E v \in Uqids : vctr_kill(v)
BrkNnVec     == \E b \in Uqids, del_nn \in BOOLEAN : vctr_brk_nn_vec(b, del_nn)
=============================================================================
