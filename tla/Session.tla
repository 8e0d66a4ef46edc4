------------------------------ MODULE Session ------------------------------
(***************************************************************************)
(* A session from start to start: Vctr's operations while Q is up,         *)
(* Q.save(), crashes at any moment, and starting again with or without     *)
(* restore_session.  What a crash spares is the disk: the files of vectors *)
(* (l2 and lma), the two saved tables and q_meta.lua, the names.           *)
(*                                                                         *)
(* A saved table is three files, written one after the other; when a crash *)
(* leaves them from two saves, or one of them cut short, the table is      *)
(* "torn", and what reading it gives is not modelled further than that it  *)
(* fails or gives a table of no meaning.                                   *)
(***************************************************************************)
EXTENDS Vctr

CONSTANTS
  MaxStarts,    \* bound: processes started, one after the other
  MaxCalls,     \* bound: the client's calls, over all of these
  Careful,      \* whether the client keeps off three things (CarefulClient)
  Tears         \* whether a crash may come while save_session() writes

ASSUME SessionAssumption ==
  MaxStarts \in Nat /\ MaxCalls \in Nat /\ Careful \in BOOLEAN /\ Tears \in BOOLEAN

VARIABLES
  mode,         \* "down", "up", "saving", "cleaning" (in clean_hmap()),
                \* "failed" (the start ended in an error) or "garbled"
  starts,       \* processes started so far
  calls,        \* calls the client has made so far
  todo,         \* vectors save() or clean_hmap() has yet to come to
  names,        \* uqids save() has written to q_meta.lua so far
  q_meta,       \* q_meta.lua: whether it is whole, and the uqids it names
  vctr_file,    \* _vctr_meta.csv, _vctr_bkts.bin and _vctr_full.bin
  chnk_file,    \* _chnk_meta.csv, _chnk_bkts.bin and _chnk_full.bin
  whole,        \* whether the last save() to begin came to its end, in a
                \* session that was clean, with no vector half deleted
  clean         \* whether the session started new, or from a whole save and
                \* with the vectors that were persisted only

disk  == <<q_meta, vctr_file, chnk_file, whole>>
svars == <<vars, mode, starts, calls, todo, names, disk, clean>>

NoMeta   == [ok |-> FALSE, names |-> {}]
Missing  == [is |-> "missing"]
Torn     == [is |-> "torn"]
VctrsNow == [is |-> "saved", keys |-> vctrs, rows |-> vctr]
ChnksNow == [is |-> "saved", keys |-> chnks, rows |-> chnk]

SessionInit ==
  /\ VctrInit
  /\ mode = "down" /\ starts = 0 /\ calls = 0 /\ todo = {} /\ names = {}
  /\ q_meta = NoMeta /\ vctr_file = Missing /\ chnk_file = Missing
  /\ whole = FALSE /\ clean = FALSE

\* the tables, the accounts and the client are gone with the process
LoseMemory ==
  /\ g_vctr_uqid' = 0 /\ vctrs' = {} /\ vctr' = [v \in Uqids |-> ZeroVctr]
  /\ chnks' = {} /\ chnk' = [k \in Keys |-> ZeroChnk]
  /\ mem_used' = 0 /\ dsk_used' = 0
  /\ held' = [k \in Keys |-> 0] /\ lma_held' = [v \in Uqids |-> 0]
  /\ half_deleted' = {}
  /\ todo' = {} /\ names' = {}

-----------------------------------------------------------------------------
(* While Q is up, a client does what Vctr lets it do. *)

(* A careful client removes no file of a persisted vector (as drop_mem and *)
(* get_lma_write do), has no chunk read from a file that some earlier      *)
(* vector of the same uqid left (as make_mem(1) does), and deletes no      *)
(* vector of which it still reads a chunk, where vctr_del() stops half way.*)
CarefulClient ==
  /\ \A v \in vctrs : vctr[v].is_persist /\ lma[v].size > 0 => lma'[v].size > 0
  /\ \A k \in chnks :
       /\ vctr[k[1]].is_persist /\ l2[k].file = "full" => l2'[k].file = "full"
       /\ ~chnk[k].l1_mem /\ ~chnk[k].l2_exists /\ l2[k].file # "none"
            => ~chnk'[k].l1_mem
  /\ half_deleted' = half_deleted

Client ==
  /\ mode = "up" /\ Next
  /\ Careful => CarefulClient
  /\ calls < MaxCalls /\ calls' = calls + 1
  /\ UNCHANGED <<mode, starts, todo, names, disk, clean>>

-----------------------------------------------------------------------------
(* Q.save().  It deletes q_meta.lua and q_aux.lua, goes over the vectors   *)
(* that globals name (some or all), in no order, and then writes the two   *)
(* tables, whatever is in them.                                            *)

SaveBegin ==
  /\ mode = "up" /\ mode' = "saving"
  /\ todo' \in SUBSET vctrs /\ names' = {}
  /\ q_meta' = NoMeta /\ whole' = FALSE
  /\ UNCHANGED <<vars, starts, calls, vctr_file, chnk_file, clean>>

\* skip_save(), but for has_gen()
Skips(v) ==
  LET x == vctr[v]
  IN  \/ x.num_elements = 0 \/ x.memo_len > 0 \/ ~x.is_eov \/ x.is_error
      \/ x.is_early_freeable \/ x.is_killable \/ x.parent_key # 0

(* A vector that is not to be saved is deleted; an nn vector is left.  One *)
(* that C ended, at a short chunk, may still have its generator in Lua     *)
(* (has_gen), until lVector:eov() is called: any may be skipped for that.  *)
SaveSkip(v) ==
  /\ mode = "saving" /\ v \in todo
  /\ \E has_gen \in BOOLEAN : Skips(v) \/ has_gen
  /\ IF vctr[v].parent_key = 0 THEN delete(v) ELSE UNCHANGED vars
  /\ todo' = todo \ {v}
  /\ UNCHANGED <<mode, starts, calls, names, disk, clean>>

WithNn(v) == {v, vctr[v].nn_key} \ {0}

\* mutant: a chunk that is in RAM is taken to be safe
Flushed_L1(u) ==
  \/ vctr[u].is_lma
  \/ \A i \in Idxs(vctr[u]) :
       chnk_is(u, i) /\ (chnk[<<u, i>>].l1_mem \/ chnk[<<u, i>>].l2_exists)
Flushed(u) ==
  vctr[u].is_lma \/ \A i \in Idxs(vctr[u]) : chnk_is(u, i) /\ chnk[<<u, i>>].l2_exists

(* make_mem(2) of a vector that has no linear file, and of its nn vector.  *)
SaveMakeMem(v) ==
  /\ mode = "saving" /\ v \in todo /\ ~Skips(v)
  /\ \E u \in WithNn(v) : ~Flushed(u) /\ vctr_make_l2(u)
  /\ UNCHANGED <<mode, starts, calls, todo, names, disk, clean>>

(* persist() of both, once they are on disk, and a line of q_meta.lua.     *)
SavePersist(v) ==
  /\ mode = "saving" /\ v \in todo /\ ~Skips(v)
  /\ \A u \in WithNn(v) : Flushed(u)
  /\ vctr' = [u \in Uqids |-> IF u \in WithNn(v)
                              THEN [vctr[u] EXCEPT !.is_persist = TRUE] ELSE vctr[u]]
  /\ todo' = todo \ {v} /\ names' = names \cup {v}
  /\ UNCHANGED <<g_vctr_uqid, vctrs, rest, mode, starts, calls, disk, clean>>

\* lgutils.save_session(), to its end
SaveTables ==
  /\ mode = "saving" /\ todo = {}
  /\ q_meta' = [ok |-> TRUE, names |-> names]
  /\ vctr_file' = VctrsNow /\ chnk_file' = ChnksNow
  /\ whole' = (clean /\ half_deleted = {}) /\ mode' = "up" /\ names' = {}
  /\ UNCHANGED <<vars, starts, calls, todo, clean>>

\* what the first files of three make of the three there are
Partly(t) == IF t = Missing THEN {Missing, Torn} ELSE {Torn}

(* A crash while the tables are written: the vectors come first.           *)
SaveTears ==
  /\ Tears /\ mode = "saving" /\ todo = {}
  /\ q_meta' = [ok |-> TRUE, names |-> names]
  /\ \/ vctr_file' \in Partly(vctr_file) /\ chnk_file' = chnk_file
     \/ vctr_file' = VctrsNow /\ chnk_file' \in {chnk_file} \cup Partly(chnk_file)
  /\ mode' = "down" /\ LoseMemory
  /\ clean' = FALSE /\ UNCHANGED <<starts, calls, l2, lma, whole>>

(* A crash at any other time, or an end without further ado.               *)
Crash ==
  /\ mode \in {"up", "saving", "cleaning", "garbled"}
  /\ mode' = "down" /\ LoseMemory
  /\ clean' = FALSE /\ UNCHANGED <<starts, calls, l2, lma, disk>>

-----------------------------------------------------------------------------
(* Starting. *)

MayStart == mode \in {"down", "failed"} /\ starts < MaxStarts /\ starts' = starts + 1
            /\ UNCHANGED calls

\* the elements in the files of vectors that do not exist are nobody's
Disowned(V) ==
  /\ l2' = [k \in Keys |-> IF k[1] \in V THEN l2[k] ELSE [l2[k] EXCEPT !.data = {}]]
  /\ lma' = [v \in Uqids |-> IF v \in V THEN lma[v] ELSE [lma[v] EXCEPT !.data = {}]]

(* restore_session is false: both directories are emptied.                 *)
StartNew ==
  /\ MayStart /\ mode' = "up" /\ LoseMemory
  /\ l2' = [k \in Keys |-> NoFile] /\ lma' = [v \in Uqids |-> NoLma]
  /\ q_meta' = NoMeta /\ vctr_file' = Missing /\ chnk_file' = Missing
  /\ whole' = FALSE /\ clean' = TRUE

(* A file of the vector table is missing: a new session, data left lying.  *)
RestoreNothing ==
  /\ MayStart /\ vctr_file = Missing
  /\ mode' = "up" /\ LoseMemory /\ Disowned({})
  /\ clean' = TRUE /\ UNCHANGED disk

(* Only those three files are looked for: without the others it fails.     *)
RestoreTorn ==
  /\ MayStart /\ vctr_file # Missing
  /\ \/ vctr_file = Torn /\ mode' \in {"failed", "garbled"}
     \/ vctr_file # Torn /\ chnk_file = Torn /\ mode' \in {"failed", "garbled"}
     \/ vctr_file # Torn /\ chnk_file = Missing /\ mode' = "failed"
  /\ LoseMemory
  /\ clean' = FALSE /\ UNCHANGED <<l2, lma, disk>>

AsUnfrozen(c) == [c EXCEPT !.l1_mem = FALSE, !.l1_data = {}, !.num_readers = 0]

\* mutant: a linear file is taken to be as good as persist()
ToClean_NotLma(keys, rows) == {v \in keys : ~rows[v].is_persist /\ ~rows[v].is_lma}
ToClean(keys, rows) == {v \in keys : ~rows[v].is_persist}

(* The two tables are read; the vectors that were not persisted are to go. *)
RestoreTables ==
  /\ MayStart /\ vctr_file.is = "saved" /\ chnk_file.is = "saved"
  /\ mode' = "cleaning" /\ clean' = whole
  /\ vctrs' = vctr_file.keys /\ vctr' = vctr_file.rows
  /\ chnks' = chnk_file.keys
  /\ chnk' = [k \in Keys |-> IF k \in chnk_file.keys THEN AsUnfrozen(chnk_file.rows[k])
                             ELSE ZeroChnk]
  /\ todo' = ToClean(vctr_file.keys, vctr_file.rows)
  /\ UNCHANGED <<g_vctr_uqid, l2, lma, usage, client, names, disk>>

\* chunks of v that are in the table with the file they should have
HasFile(v) == {i \in ChnkIdxs : chnk_is(v, i)
                 /\ (chnk[<<v, i>>].l2_exists => l2[<<v, i>>].file # "none")}

\* the linear file is not in use, as the vector's saved row has it
LmaFree(x) == x.is_lma => x.num_readers + x.num_writers = 0

Deletable(v) ==
  LET x == vctr[v]
  IN  \/ x.parent_key # 0
      \/ LmaFree(x) /\ (x.num_elements = 0 \/ Idxs(x) \subseteq HasFile(v))

CleanDel(v) ==
  /\ mode = "cleaning" /\ v \in todo /\ Deletable(v)
  /\ vctr_del(vctr, v)
  /\ todo' = todo \ {v}
  /\ UNCHANGED <<mode, starts, calls, names, disk, clean>>

(* vctr_del() fails at a chunk whose file is gone, and has deleted those   *)
(* before it.                                                              *)
CleanFails(v) ==
  LET x == vctr[v]
      D == IF LmaFree(x) THEN Run(x.min_chnk_idx, x.max_chnk_idx, HasFile(v)) ELSE {}
  IN  /\ mode = "cleaning" /\ v \in todo /\ ~Deletable(v)
      /\ mode' = "failed" /\ LoseMemory
      /\ l2' = L2AfterDel(chnk, v, D, FALSE)
      /\ lma' = IF x.is_lma /\ LmaFree(x) THEN [lma EXCEPT ![v] = NoLma] ELSE lma
      /\ clean' = FALSE /\ UNCHANGED <<starts, calls, disk>>

(* The end of clean_hmap(): what a row forgets.  Of a memo it forgets      *)
(* is_memo and not memo_len, which is what vctr_memo() looks at; a         *)
(* persisted vector has neither.                                           *)
AsCleaned(x) ==
  [x EXCEPT !.X = FALSE, !.is_killable = FALSE, !.is_early_freeable = FALSE,
            !.num_readers = 0, !.num_writers = 0]

OnDisk(v) == {i \in Idxs(vctr[v]) : chnk_is(v, i) /\ chnk[<<v, i>>].l2_exists}

\* mutant: every chunk must have a file of its own
vctr_usage_NoLma(v) ==
  /\ \A i \in Idxs(vctr[v]) : chnk_is(v, i) => i \in OnDisk(v)
  /\ \A i \in OnDisk(v) : l2[<<v, i>>].file = "full"
  /\ OnDisk(v) # {}

(* vctr_usage() succeeds and finds something on disk.  It does not mind a  *)
(* chunk that is not in the table, nor a linear file that is not there     *)
(* (its size is then -1).                                                  *)
vctr_usage(v) ==
  /\ \A i \in Idxs(vctr[v]) : chnk_is(v, i) => i \in OnDisk(v) \/ vctr[v].is_lma
  /\ \A i \in OnDisk(v) : l2[<<v, i>>].file = "full"
  /\ vctr[v].is_lma \/ OnDisk(v) # {}

DskOf(v) ==
  MaxNumInChnk * Cardinality(OnDisk(v)) + IF vctr[v].is_lma THEN lma[v].size ELSE 0

\* mutant: uqids are given out from 1 again
LastUqid_Zero(V) == 0
LastUqid(V) == IF V = {} THEN 0 ELSE CHOOSE v \in V : \A u \in V : u <= v

\* C's part of a start is done, and q_meta.lua names vectors there are
Restorable ==
  /\ \A v \in vctrs : vctr_usage(v)
  /\ q_meta.ok /\ q_meta.names \subseteq vctrs

RestoreDone ==
  /\ mode = "cleaning" /\ todo = {} /\ Restorable
  /\ mode' = "up"
  /\ g_vctr_uqid' = LastUqid(vctrs)
  /\ vctr' = [v \in Uqids |-> IF v \in vctrs THEN AsCleaned(vctr[v]) ELSE vctr[v]]
  /\ dsk_used' = SumTo([v \in Uqids |-> IF v \in vctrs THEN DskOf(v) ELSE 0], MaxUqid)
  /\ Disowned(vctrs)
  /\ clean' = (clean /\ \A v \in vctrs : vctr[v].is_persist)
  /\ UNCHANGED <<vctrs, chnkTable, mem_used, client, starts, calls, todo, names, disk>>

RestoreFails ==
  /\ mode = "cleaning" /\ todo = {} /\ ~Restorable
  /\ mode' = "failed" /\ LoseMemory
  /\ clean' = FALSE /\ UNCHANGED <<starts, calls, l2, lma, disk>>

-----------------------------------------------------------------------------
Save == SaveBegin \/ SaveTables \/ SaveTears
          \/ \E v \in Uqids : SaveSkip(v) \/ SaveMakeMem(v) \/ SavePersist(v)

Start == StartNew \/ RestoreNothing \/ RestoreTorn \/ RestoreTables
           \/ RestoreDone \/ RestoreFails
           \/ \E v \in Uqids : CleanDel(v) \/ CleanFails(v)

SessionNext == Client \/ Save \/ Crash \/ Start

SessionSpec == SessionInit /\ [][SessionNext]_svars

-----------------------------------------------------------------------------
(* Properties. *)

(* What a save that came to its end has persisted stays on disk, complete, *)
(* whatever the session does after it, however often it crashes and is     *)
(* restored, and whatever restoring deletes.                               *)
SavedOnDisk ==
  whole => \A v \in vctr_file.keys : vctr_file.rows[v].is_persist /\ v \in q_meta.names =>
    LET x == vctr_file.rows[v]
    IN  \A i \in Idxs(x) :
          LET c == chnk_file.rows[<<v, i>>]
          IN  /\ <<v, i>> \in chnk_file.keys
              /\ \/ x.is_lma /\ {i} \X Filled(c) \subseteq lma[v].data
                 \/ c.l2_exists /\ Filled(c) \subseteq l2[<<v, i>>].data

\* every vector in the tables was reached by save(), and so persisted
AllReached == q_meta.names = vctr_file.keys

(* When every vector was reached by a save that came to its end, starting  *)
(* from it never fails, however often.                                     *)
RestoreSucceeds == whole /\ AllReached => mode # "failed"

(* A restored session is like any other: its two tables agree, no chunk is *)
(* without a copy, and whichever copy a reader of a vector that came back  *)
(* is given has its elements.  No new vector or file gets in their way.    *)
RestoredSound ==
  mode = "up" /\ clean =>
    /\ ChnksMatchVctrs /\ DataHeld
    /\ \A k \in chnks : vctr[k[1]].is_persist =>
         /\ chnk[k].l1_mem => Filled(chnk[k]) \subseteq chnk[k].l1_data
         /\ chnk[k].l2_exists => Filled(chnk[k]) \subseteq l2[k].data
         /\ vctr[k[1]].is_lma => {k[2]} \X Filled(chnk[k]) \subseteq lma[k[1]].data

(* init_session() relies on the directories of a new session having been   *)
(* emptied, and uqids are given out again after a restore: a vector must   *)
(* not be given elements that an earlier one left in a file.  make_mem(1)  *)
(* of a chunk that only the linear file holds takes the file it finds.     *)
NoOneElsesData == mode = "up" => CopiesCurrent

(* A restore that succeeds brings back every persisted vector of the saved *)
(* tables, as long as it was, and besides these no vector of its own: an   *)
(* nn vector that clean_hmap() comes to before its parent is left behind.  *)
RestoredAsSaved ==
  [][mode = "cleaning" /\ mode' = "up" /\ whole =>
       LET was == vctr_file.rows
       IN  /\ \A v \in vctr_file.keys : was[v].is_persist =>
                v \in vctrs' /\ vctr'[v].num_elements = was[v].num_elements
           /\ \A v \in vctrs' : was[v].is_persist \/ was[v].parent_key # 0]_svars
=============================================================================
