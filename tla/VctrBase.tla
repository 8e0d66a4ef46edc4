------------------------------ MODULE VctrBase ------------------------------
(***************************************************************************)
(* The state shared by every operation on vectors, and the operators the   *)
(* operations are built from.  A vector is a row of g_vctr_hmap, keyed by  *)
(* its uqid; its elements live in chunks, rows of g_chnk_hmap keyed by     *)
(* (uqid, chunk index).  A chunk's elements may be held in RAM (l1_mem),   *)
(* in a file of their own (l2) and, for a whole vector, in one linear file *)
(* (the LMA).  Only tablespace 0, the one a session may change, is here.   *)
(*                                                                         *)
(* Values of elements are abstracted to whether a copy holds the current   *)
(* value: a copy of a chunk is the set of slots in which it has what was   *)
(* last put there.  has_nn, has_parent and is_memo are true exactly when   *)
(* nn_key, parent_key and memo_len are not zero, and num_writers of a      *)
(* chunk is never incremented, so these fields are not repeated.           *)
(***************************************************************************)
EXTENDS Integers, FiniteSets

CONSTANTS
  MaxUqid,       \* bound: vectors created in a behaviour
  MaxNumInChnk,  \* elements a chunk can hold (the same for all vectors)
  MaxChnks,      \* bound: chunks of a vector
  MaxReaders,    \* bound: readers of a chunk, and of an LMA
  MemAllowed,    \* g_mem_allowed, in chunks
  DskAllowed,    \* g_dsk_allowed, in elements
  Qtypes,        \* the qtypes given to vctr_add: "BL" (may be an nn vector),
                 \* "SC" and "I4" (any other type)
  MemoLens,      \* the memo_len given to vctr_add and set_memo; 0 is no memo
  KillIgnores,   \* the num_kill_ignore given; no vector is killable when {}
  FreeIgnores,   \* the num_free_ignore given; none is freeable when {}
  Steals,        \* the is_stealable of the buffers given to put_chunk
  EarlyBackup,   \* whether the client makes L2 copies of unfinished chunks
  MayFail,       \* whether a generator may fail, and mark its vector so
  FilesFail      \* whether set_lma may fail at the file it was given

ASSUME BoundsAssumption ==
  /\ MaxUqid \in Nat \ {0} /\ MaxNumInChnk \in Nat \ {0}
  /\ MaxChnks \in Nat \ {0} /\ MaxReaders \in Nat
  /\ MemAllowed \in Nat /\ DskAllowed \in Nat

ASSUME InputsAssumption ==
  /\ Qtypes \subseteq {"BL", "SC", "I4"}
  /\ MemoLens \subseteq Nat /\ KillIgnores \subseteq 0..16
  /\ FreeIgnores \subseteq 0..16
  /\ Steals \subseteq BOOLEAN /\ EarlyBackup \in BOOLEAN
  /\ MayFail \in BOOLEAN /\ FilesFail \in BOOLEAN

VARIABLES
  g_vctr_uqid,   \* the last uqid given out
  vctrs,         \* the keys of g_vctr_hmap
  vctr,          \* uqid -> the vctr_meta_t stored under it
  chnks,         \* the keys of g_chnk_hmap
  chnk,          \* key -> the chnk_rs_hmap_val_t stored under it
  l2,            \* key -> the chunk's file, whether or not the chunk exists
  lma,           \* uqid -> the vector's linear file; size 0 is no file
  mem_used,      \* g_mem_used, in chunks
  dsk_used,      \* g_dsk_used, in elements
  held,          \* key -> chunks the client got and has not given back
  lma_held,      \* uqid -> LMA read accesses not given back
  half_deleted   \* the vectors vctr_del() failed on half way, and so left broken

vctrTable == <<g_vctr_uqid, vctrs, vctr>>
chnkTable == <<chnks, chnk>>
usage     == <<mem_used, dsk_used>>
client    == <<held, lma_held, half_deleted>>
vars == <<vctrTable, chnkTable, l2, lma, usage, client>>

Uqids    == 1..MaxUqid
ChnkIdxs == 0..(MaxChnks - 1)
Keys     == Uqids \X ChnkIdxs
Slots    == 0..(MaxNumInChnk - 1)
MaxElems == MaxChnks * MaxNumInChnk

-----------------------------------------------------------------------------
(* The rows of the two tables and the files.                               *)

VctrVal ==
  [qtype : {"BL", "SC", "I4"}, num_elements : Nat,
   min_chnk_idx : Nat, max_chnk_idx : Nat,
   nn_key : Uqids \cup {0}, parent_key : Uqids \cup {0},
   memo_len : Nat, is_killable : BOOLEAN, num_kill_ignore : Nat,
   is_early_freeable : BOOLEAN, num_free_ignore : Nat,
   is_eov : BOOLEAN, is_persist : BOOLEAN, is_error : BOOLEAN,
   is_lma : BOOLEAN, num_readers : Nat, num_writers : Nat, X : BOOLEAN]

ChnkVal ==
  [num_elements : Nat, num_readers : Nat, num_free_ignore : Nat,
   l1_mem : BOOLEAN, l1_data : SUBSET Slots, l2_exists : BOOLEAN]

\* "empty" is the file left behind when nothing could be written to it
L2File  == [file : {"none", "empty", "full"}, data : SUBSET Slots]
LmaFile == [size : Nat, data : SUBSET (ChnkIdxs \X Slots)]

ZeroVctr ==
  [qtype |-> "I4", num_elements |-> 0, min_chnk_idx |-> 0, max_chnk_idx |-> 0,
   nn_key |-> 0, parent_key |-> 0, memo_len |-> 0,
   is_killable |-> FALSE, num_kill_ignore |-> 0,
   is_early_freeable |-> FALSE, num_free_ignore |-> 0,
   is_eov |-> FALSE, is_persist |-> FALSE, is_error |-> FALSE,
   is_lma |-> FALSE, num_readers |-> 0, num_writers |-> 0, X |-> FALSE]

ZeroChnk ==
  [num_elements |-> 0, num_readers |-> 0, num_free_ignore |-> 0,
   l1_mem |-> FALSE, l1_data |-> {}, l2_exists |-> FALSE]

NoFile == [file |-> "none", data |-> {}]
NoLma  == [size |-> 0, data |-> {}]

VctrInit ==
  /\ g_vctr_uqid = 0 /\ vctrs = {} /\ vctr = [v \in Uqids |-> ZeroVctr]
  /\ chnks = {} /\ chnk = [k \in Keys |-> ZeroChnk]
  /\ l2 = [k \in Keys |-> NoFile] /\ lma = [v \in Uqids |-> NoLma]
  /\ mem_used = 0 /\ dsk_used = 0
  /\ held = [k \in Keys |-> 0] /\ lma_held = [v \in Uqids |-> 0]
  /\ half_deleted = {}

-----------------------------------------------------------------------------
(* Accounting.  incr_mem_used() and its three siblings leave the counter   *)
(* alone when the quota, or zero, would be crossed, but the status they    *)
(* set is overwritten by that of unlock_mem(), so no caller ever learns of *)
(* it.  n increments (or decrements) of one size in a row are one use.     *)

incr_mem_used(m, n) == IF m + n <= MemAllowed THEN m + n
                       ELSE IF m <= MemAllowed THEN MemAllowed ELSE m
decr_mem_used(m, n) == IF n <= m THEN m - n ELSE 0

incr_dsk_used(d, x) == IF d + x <= DskAllowed THEN d + x ELSE d
decr_dsk_used(d, x) == IF x <= d THEN d - x ELSE d

\* n files of the size of a chunk
incr_dsk_chnks(d, n) ==
  LET room == IF d <= DskAllowed THEN (DskAllowed - d) \div MaxNumInChnk ELSE 0
  IN  d + MaxNumInChnk * (IF n <= room THEN n ELSE room)
decr_dsk_chnks(d, n) ==
  LET have == d \div MaxNumInChnk
  IN  d - MaxNumInChnk * (IF n <= have THEN n ELSE have)

-----------------------------------------------------------------------------
(* Chunks.                                                                 *)

chnk_is(v, i) == <<v, i>> \in chnks

\* the range of chunk indices the vector's meta data speaks of
Idxs(x) == x.min_chnk_idx .. x.max_chnk_idx

\* the longest run from lo, of the indices lo..hi, within the set ok: what
\* a loop over lo..hi that leaves at the first bad index gets through
Run(lo, hi, ok) == {i \in lo..hi : \A j \in lo..i : j \in ok}

\* the slots a chunk's elements occupy
Filled(c) == 0..(c.num_elements - 1)

\* mutant: readers are not looked at
Freeable_Read(v) == {i \in ChnkIdxs : chnk_is(v, i)}
\* chnk_free_resources() refuses a chunk that has readers
Freeable(v) == {i \in ChnkIdxs : chnk_is(v, i) /\ chnk[<<v, i>>].num_readers = 0}

\* chnk_del() of the chunks D of v: tables, memory, files and disk after it
KeysOf(v, D) == {v} \X D
ChnkAfterDel(c, v, D) == [k \in Keys |-> IF k \in KeysOf(v, D) THEN ZeroChnk ELSE c[k]]
\* mutant: the memory of a deleted chunk is not given back
MemAfterDel_Kept(m, c, v, D) == m
MemAfterDel(m, c, v, D) ==
  decr_mem_used(m, Cardinality({i \in D : c[<<v, i>>].l1_mem}))
WithL2(c, v, D) == {i \in D : c[<<v, i>>].l2_exists}
L2AfterDel(c, v, D, is_persist) ==
  IF is_persist THEN l2
  ELSE [k \in Keys |-> IF k \in KeysOf(v, WithL2(c, v, D)) THEN NoFile ELSE l2[k]]
\* mutant: the files that persist are taken off the account
DskAfterDel_Persist(d, c, v, D, is_persist) ==
  decr_dsk_chnks(d, Cardinality(WithL2(c, v, D)))
DskAfterDel(d, c, v, D, is_persist) ==
  IF is_persist THEN d ELSE decr_dsk_chnks(d, Cardinality(WithL2(c, v, D)))

\* chunk i of v read into RAM from its own file
LoadL1(c, k) == [c EXCEPT !.l1_mem = TRUE, !.l1_data = l2[k].data]
=============================================================================
