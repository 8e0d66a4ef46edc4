---------------------------- MODULE SessionProofs ----------------------------
(***************************************************************************)
(* Proofs about sessions, for any number of vectors, chunks, calls, starts *)
(* and crashes: a restore that succeeds brings back the vectors that were  *)
(* persisted, as long as they were, and besides these no vector of its     *)
(* own; and what a save has persisted stays on disk until the next save.   *)
(***************************************************************************)
EXTENDS Session, VctrRangeProofs

-----------------------------------------------------------------------------
(* Types.  Of a saved table that is whole the rows are well typed, so that *)
(* a session that starts from it is.                                       *)

SavedTypes ==
  /\ vctr_file.is = "saved" => /\ vctr_file.keys \subseteq Uqids
                               /\ vctr_file.rows \in [Uqids -> VctrVal]
  /\ chnk_file.is = "saved" => /\ chnk_file.keys \subseteq Keys
                               /\ chnk_file.rows \in [Keys -> ChnkVal]

(* A process that is gone has left nothing of the wrong type.              *)
LEMMA LoseTypes ==
  ASSUME LoseMemory, l2' \in [Keys -> L2File], lma' \in [Uqids -> LmaFile]
  PROVE  TypeOK'
<1>1. /\ g_vctr_uqid' \in Nat /\ mem_used' \in Nat /\ dsk_used' \in Nat
      /\ vctrs' \subseteq Uqids /\ chnks' \subseteq Keys /\ half_deleted' \subseteq Uqids
  BY DEF LoseMemory
<1>2. vctr' \in [Uqids -> VctrVal] /\ chnk' \in [Keys -> ChnkVal]
  BY ZeroTypes DEF LoseMemory
<1>3. held' \in [Keys -> Nat] /\ lma_held' \in [Uqids -> Nat]
  BY DEF LoseMemory
<1> QED BY <1>1, <1>2, <1>3 DEF TypeOK

(* Taking the elements out of files.                                       *)
LEMMA DisownTypes ==
  ASSUME TypeOK, NEW V, Disowned(V)
  PROVE  l2' \in [Keys -> L2File] /\ lma' \in [Uqids -> LmaFile]
<1>1. \A f \in L2File : [f EXCEPT !.data = {}] \in L2File
  BY DEF L2File
<1>2. \A f \in LmaFile : [f EXCEPT !.data = {}] \in LmaFile
  BY DEF LmaFile
<1> QED BY <1>1, <1>2 DEF Disowned, TypeOK

(* Reading a row of the chunk table, and cleaning one of the vector table. *)
LEMMA ReadTypes ==
  /\ \A c \in ChnkVal : AsUnfrozen(c) \in ChnkVal /\ AsUnfrozen(c).num_readers = 0
  /\ \A x \in VctrVal : /\ AsCleaned(x) \in VctrVal
                        /\ AsCleaned(x).num_elements = x.num_elements
  BY DEF AsUnfrozen, AsCleaned, ChnkVal, VctrVal

(* The last uqid of a table is one.                                        *)
LEMMA LastUqidIs ==
  ASSUME NEW V \in SUBSET Uqids
  PROVE  LastUqid(V) \in Nat /\ \A v \in V : v <= LastUqid(V)
<1>1. CASE V = {}
  BY <1>1 DEF LastUqid
<1>2. CASE V # {}
  <2> DEFINE T == {n \in Nat : (\E v \in V : v <= n) =>
                                 \E m \in V : m <= n /\ \A v \in V : v <= n => v <= m}
  <2>1. 0 \in T
    BY DEF Uqids
  <2>2. ASSUME NEW n \in T PROVE n + 1 \in T
    <3>1. PICK k \in Nat : k = n + 1
      BY <2>2
    <3>2. CASE k \in V
      <4>1. \E m \in V : m <= k /\ \A v \in V : v <= k => v <= m
        BY <3>2
      <4> QED BY <3>1, <4>1
    <3>3. CASE k \notin V
      <4>1. \A v \in V : v \in Nat /\ (v <= k <=> v <= n)
        BY <3>1, <3>3, <2>2 DEF Uqids
      <4> QED BY <3>1, <4>1, <2>2
    <3> QED BY <3>2, <3>3
  <2> HIDE DEF T
  <2>3. Nat \subseteq T
    <3>1. T \in SUBSET Nat
      BY DEF T
    <3> QED BY <2>1, <2>2, <3>1, NatSet
  <2>4. MaxUqid \in T /\ \A v \in V : v \in Nat /\ v <= MaxUqid
    BY <2>3, BoundsAssumption DEF BoundsAssumption, Uqids
  <2>5. \E m \in V : \A v \in V : v <= m
    BY <1>2, <2>4 DEF T
  <2> QED BY <1>2, <2>4, <2>5 DEF LastUqid
<1> QED BY <1>1, <1>2

(* What vctr_usage() finds on disk adds up to a number.                    *)
LEMMA UsageType ==
  ASSUME TypeOK, NEW V \in SUBSET Uqids
  PROVE  SumTo([v \in Uqids |-> IF v \in V THEN DskOf(v) ELSE 0], MaxUqid) \in Nat
<1> DEFINE f == [v \in 1..MaxUqid |-> IF v \in V THEN DskOf(v) ELSE 0]
           z == [v \in 1..MaxUqid |-> 0]
<1>1. MaxUqid \in Nat /\ MaxNumInChnk \in Nat
  BY BoundsAssumption DEF BoundsAssumption
<1>2. ASSUME NEW v \in Uqids PROVE DskOf(v) \in Nat
  <2>1. vctr[v].min_chnk_idx \in Int /\ vctr[v].max_chnk_idx \in Int /\ lma[v].size \in Nat
    BY DEF TypeOK, VctrVal, LmaFile
  <2>2. IsFiniteSet(Idxs(vctr[v])) /\ OnDisk(v) \subseteq Idxs(vctr[v])
    BY <2>1, FS_Interval DEF Idxs, OnDisk
  <2>3. Cardinality(OnDisk(v)) \in Nat
    BY <2>2, FS_Subset, FS_CardinalityType
  <2> QED BY <1>1, <2>1, <2>3 DEF DskOf
<1>3. f \in [1..MaxUqid -> Nat] /\ z \in [1..MaxUqid -> Int] /\ f \in [1..MaxUqid -> Int]
  BY <1>2 DEF Uqids
<1>4. f = [v \in Uqids |-> IF v \in V THEN DskOf(v) ELSE 0]
  BY DEF Uqids
<1>5. \A i \in 1..MaxUqid : z[i] = 0 /\ f[i] >= z[i] + 0
  BY <1>3
<1> HIDE DEF f, z
<1>6. PICK j, d : j = 0 /\ d = 0 /\ j \in Int /\ d \in Int
  OBVIOUS
<1>7. \A i \in 1..MaxUqid : f[i] >= z[i] + (IF i = j THEN d ELSE 0)
  BY <1>5, <1>6
<1>8. /\ SumTo(f, MaxUqid) \in Int
      /\ SumTo(f, MaxUqid) >= SumTo(z, MaxUqid) + (IF j \in 1..MaxUqid THEN d ELSE 0)
  BY <1>1, <1>3, <1>6, <1>7, SumGrows
<1>9. SumTo(z, MaxUqid) = 0
  BY <1>1, <1>5, SumZero
<1> QED BY <1>4, <1>6, <1>8, <1>9

(* The tables are saved as they are, or in part.                           *)
LEMMA SaveFileTypes ==
  ASSUME TypeOK, SavedTypes, SaveTables \/ SaveTears
  PROVE  SavedTypes'
<1>1. vctrs \subseteq Uqids /\ vctr \in [Uqids -> VctrVal]
      /\ chnks \subseteq Keys /\ chnk \in [Keys -> ChnkVal]
  BY DEF TypeOK
<1>2. \/ vctr_file' = vctr_file
      \/ vctr_file' = [is |-> "saved", keys |-> vctrs, rows |-> vctr]
      \/ vctr_file'.is # "saved"
  BY DEF SaveTables, SaveTears, VctrsNow, Partly, Missing, Torn
<1>3. \/ chnk_file' = chnk_file
      \/ chnk_file' = [is |-> "saved", keys |-> chnks, rows |-> chnk]
      \/ chnk_file'.is # "saved"
  BY DEF SaveTables, SaveTears, ChnksNow, Partly, Missing, Torn
<1>4. vctr_file'.is = "saved" => /\ vctr_file'.keys \subseteq Uqids
                                 /\ vctr_file'.rows \in [Uqids -> VctrVal]
  BY <1>1, <1>2 DEF SavedTypes
<1>5. chnk_file'.is = "saved" => /\ chnk_file'.keys \subseteq Keys
                                 /\ chnk_file'.rows \in [Keys -> ChnkVal]
  BY <1>1, <1>3 DEF SavedTypes
<1> QED BY <1>4, <1>5 DEF SavedTypes

(* Nothing else writes them but a new session, which removes them.         *)
LEMMA NextSaved ==
  ASSUME TypeOK, SavedTypes, [SessionNext]_svars
  PROVE  SavedTypes'
<1>1. CASE SaveTables \/ SaveTears
  BY <1>1, SaveFileTypes
<1>2. CASE StartNew
  BY <1>2 DEF StartNew, SavedTypes, Missing
<1>3. CASE UNCHANGED <<vctr_file, chnk_file>>
  BY <1>3 DEF SavedTypes
<1>4. SaveTables \/ SaveTears \/ StartNew \/ UNCHANGED <<vctr_file, chnk_file>>
  <2>1. CASE Client \/ Crash
    BY <2>1 DEF Client, Crash, disk
  <2>2. CASE Save
    BY <2>2 DEF Save, SaveBegin, SaveSkip, SaveMakeMem, SavePersist, disk
  <2>3. CASE Start
    BY <2>3 DEF Start, RestoreNothing, RestoreTorn, RestoreTables, RestoreDone,
       RestoreFails, CleanDel, CleanFails, disk
  <2>4. CASE UNCHANGED svars
    BY <2>4 DEF svars, disk
  <2> QED BY <2>1, <2>2, <2>3, <2>4 DEF SessionNext
<1> QED BY <1>1, <1>2, <1>3, <1>4

(* Q.save() calls operations of vectors, and persist().                    *)
LEMMA SaveTypes ==
  ASSUME TypeOK, Save
  PROVE  TypeOK'
<1>1. CASE SaveBegin \/ SaveTables
  BY <1>1 DEF SaveBegin, SaveTables, vars, vctrTable, chnkTable, usage, client, TypeOK
<1>2. CASE SaveTears
  <2>1. l2' \in [Keys -> L2File] /\ lma' \in [Uqids -> LmaFile]
    BY <1>2 DEF SaveTears, TypeOK
  <2>2. LoseMemory
    BY <1>2 DEF SaveTears
  <2> QED BY <2>1, <2>2, LoseTypes
<1>3. ASSUME NEW v \in Uqids, SaveSkip(v) PROVE TypeOK'
  <2>1. Delete \/ UNCHANGED vars
    BY <1>3 DEF SaveSkip, Delete
  <2> QED BY <2>1, DeletionTypes DEF vars, vctrTable, chnkTable, usage, client, TypeOK
<1>4. ASSUME NEW v \in Uqids, SaveMakeMem(v) PROVE TypeOK'
  <2>1. PICK u \in WithNn(v) : vctr_make_l2(u)
    BY <1>4 DEF SaveMakeMem
  <2>2. u \in Uqids
    <3>1. vctr[v].nn_key \in Uqids \cup {0}
      BY DEF TypeOK, VctrVal
    <3> QED BY <3>1 DEF WithNn
  <2> QED BY <2>1, <2>2, MakeL2Type DEF MakeL2
<1>5. ASSUME NEW v \in Uqids, SavePersist(v) PROVE TypeOK'
  <2>1. PICK b \in BOOLEAN : b = TRUE
    OBVIOUS
  <2>2. \A u \in Uqids : [vctr[u] EXCEPT !.is_persist = TRUE] \in VctrVal
    <3>1. \A u \in Uqids : [vctr[u] EXCEPT !.is_persist = b] \in VctrVal
      BY VctrFieldTypes DEF TypeOK
    <3> QED BY <2>1, <3>1
  <2>3. vctr' \in [Uqids -> VctrVal]
    BY <1>5, <2>2 DEF SavePersist, TypeOK
  <2> QED BY <1>5, <2>3 DEF SavePersist, rest, chnkTable, usage, client, TypeOK
<1> QED BY <1>1, <1>2, <1>3, <1>4, <1>5 DEF Save

(* Reading the saved tables.                                               *)
LEMMA RestoreTablesTypes ==
  ASSUME TypeOK, SavedTypes, RestoreTables
  PROVE  TypeOK'
<1>1. vctrs' \subseteq Uqids /\ vctr' \in [Uqids -> VctrVal] /\ chnks' \subseteq Keys
  BY DEF RestoreTables, SavedTypes
<1>2. chnk' \in [Keys -> ChnkVal]
  <2>1. chnk_file.rows \in [Keys -> ChnkVal]
    BY DEF RestoreTables, SavedTypes
  <2>2. \A k \in Keys : AsUnfrozen(chnk_file.rows[k]) \in ChnkVal /\ ZeroChnk \in ChnkVal
    BY <2>1, ReadTypes, ZeroTypes
  <2> QED BY <2>2 DEF RestoreTables
<1> QED BY <1>1, <1>2 DEF RestoreTables, usage, client, TypeOK

(* What the end of a restore leaves.                                       *)
LEMMA RestoreDoneTypes ==
  ASSUME TypeOK, RestoreDone
  PROVE  TypeOK'
<1>1. vctrs \in SUBSET Uqids /\ vctr \in [Uqids -> VctrVal]
  BY DEF TypeOK
<1>2. g_vctr_uqid' \in Nat
  BY <1>1, LastUqidIs DEF RestoreDone
<1>3. dsk_used' \in Nat
  BY <1>1, UsageType DEF RestoreDone
<1>4. vctr' \in [Uqids -> VctrVal]
  BY <1>1, ReadTypes DEF RestoreDone
<1>5. l2' \in [Keys -> L2File] /\ lma' \in [Uqids -> LmaFile]
  BY DisownTypes DEF RestoreDone
<1> QED BY <1>2, <1>3, <1>4, <1>5 DEF RestoreDone, chnkTable, client, TypeOK

(* A start, whichever way it goes.                                         *)
LEMMA StartTypes ==
  ASSUME TypeOK, SavedTypes, Start
  PROVE  TypeOK'
<1>1. CASE StartNew
  <2>1. LoseMemory /\ l2' \in [Keys -> L2File] /\ lma' \in [Uqids -> LmaFile]
    BY <1>1, ZeroTypes DEF StartNew
  <2> QED BY <2>1, LoseTypes
<1>2. CASE RestoreNothing
  <2>1. LoseMemory /\ l2' \in [Keys -> L2File] /\ lma' \in [Uqids -> LmaFile]
    BY <1>2, DisownTypes DEF RestoreNothing
  <2> QED BY <2>1, LoseTypes
<1>3. CASE RestoreTorn \/ RestoreFails
  <2>1. LoseMemory /\ l2' \in [Keys -> L2File] /\ lma' \in [Uqids -> LmaFile]
    BY <1>3 DEF RestoreTorn, RestoreFails, TypeOK
  <2> QED BY <2>1, LoseTypes
<1>4. CASE RestoreTables
  BY <1>4, RestoreTablesTypes
<1>5. CASE RestoreDone
  BY <1>5, RestoreDoneTypes
<1>6. ASSUME NEW v \in Uqids, CleanDel(v) PROVE TypeOK'
  BY <1>6, VctrDelType DEF CleanDel, TypeOK
<1>7. ASSUME NEW v \in Uqids, CleanFails(v) PROVE TypeOK'
  <2> DEFINE x == vctr[v]
             D == IF LmaFree(x) THEN Run(x.min_chnk_idx, x.max_chnk_idx, HasFile(v)) ELSE {}
  <2>1. D \subseteq ChnkIdxs
    <3>1. x.min_chnk_idx \in Int /\ x.max_chnk_idx \in Int
      BY DEF TypeOK, VctrVal
    <3> QED BY <3>1, RunInOk DEF HasFile
  <2> HIDE DEF D
  <2>2. L2AfterDel(chnk, v, D, FALSE) \in [Keys -> L2File]
    BY <2>1, DelTypes DEF TypeOK
  <2>3. l2' \in [Keys -> L2File] /\ lma' \in [Uqids -> LmaFile]
    BY <1>7, <2>2, ZeroTypes DEF CleanFails, D, TypeOK
  <2>4. LoseMemory
    BY <1>7 DEF CleanFails
  <2> QED BY <2>3, <2>4, LoseTypes
<1> QED BY <1>1, <1>2, <1>3, <1>4, <1>5, <1>6, <1>7 DEF Start

(* The types last over saves, crashes and starts.                          *)
LEMMA SessionTypeInv == SessionSpec => [](TypeOK /\ SavedTypes)
<1>1. SessionInit => TypeOK /\ SavedTypes
  BY InitType DEF SessionInit, Init, SavedTypes, Missing
<1>2. ASSUME TypeOK, SavedTypes, [SessionNext]_svars PROVE TypeOK' /\ SavedTypes'
  <2>1. CASE Client
    BY <2>1, NextType, <1>2, NextSaved DEF Client
  <2>2. CASE Crash
    <3>1. LoseMemory /\ l2' \in [Keys -> L2File] /\ lma' \in [Uqids -> LmaFile]
      BY <1>2, <2>2 DEF Crash, TypeOK
    <3> QED BY <1>2, <3>1, LoseTypes, NextSaved
  <2>3. CASE Save
    BY <1>2, <2>3, SaveTypes, NextSaved
  <2>4. CASE Start
    BY <1>2, <2>4, StartTypes, NextSaved
  <2>5. CASE UNCHANGED svars
    <3>1. UNCHANGED vars
      BY <2>5 DEF svars
    <3> QED BY <1>2, <3>1, NextType, NextSaved
  <2> QED BY <1>2, <2>1, <2>2, <2>3, <2>4, <2>5 DEF SessionNext
<1> QED BY <1>1, <1>2, PTL DEF SessionSpec

-----------------------------------------------------------------------------
(* While clean_hmap() is under way, the vectors in the table are among     *)
(* those of the saved one, as long as these were, the persisted ones are   *)
(* all there, and any other is an nn vector or has yet to be deleted.      *)
CleanInv ==
  mode = "cleaning" =>
    LET was == vctr_file.rows
    IN  /\ vctr_file.is = "saved"
        /\ todo \subseteq ToClean(vctr_file.keys, was)
        /\ vctrs \subseteq vctr_file.keys
        /\ \A v \in vctr_file.keys : was[v].is_persist => v \in vctrs
        /\ \A v \in vctrs :
             /\ vctr[v].num_elements = was[v].num_elements
             /\ vctr[v].parent_key # 0 => was[v].parent_key # 0
             /\ v \in todo \/ was[v].is_persist \/ was[v].parent_key # 0
        /\ \A k \in Keys : chnk[k].num_readers = 0

(* Undoing a tie leaves lengths as they are and makes no vector an nn.     *)
LEMMA UntiedKeeps ==
  ASSUME NEW x \in [Uqids -> VctrVal], NEW v \in Uqids, NEW u \in Uqids, x[v].nn_key # 0
  PROVE  /\ Untied(x, v)[u].num_elements = x[u].num_elements
         /\ Untied(x, v)[u].parent_key # 0 => x[u].parent_key # 0
<1>1. PICK n \in Uqids : n = x[v].nn_key
  BY DEF VctrVal
<1>2. PICK y : y = [x EXCEPT ![n].parent_key = 0]
  OBVIOUS
<1>3. /\ y \in [Uqids -> VctrVal]
      /\ y[u].num_elements = x[u].num_elements
      /\ y[u].parent_key # 0 => x[u].parent_key # 0
  <2>1. [x[n] EXCEPT !.parent_key = 0] \in VctrVal
    BY VctrFieldTypes
  <2>2. /\ [x[n] EXCEPT !.parent_key = 0].num_elements = x[n].num_elements
        /\ [x[n] EXCEPT !.parent_key = 0].parent_key = 0
    BY DEF VctrVal
  <2>3. y = [x EXCEPT ![n] = [x[n] EXCEPT !.parent_key = 0]]
    BY <1>2
  <2> QED BY <2>1, <2>2, <2>3
<1>4. PICK z : z = [y EXCEPT ![v].nn_key = 0]
  OBVIOUS
<1>5. z[u].num_elements = y[u].num_elements /\ z[u].parent_key = y[u].parent_key
  <2>1. /\ [y[v] EXCEPT !.nn_key = 0].num_elements = y[v].num_elements
        /\ [y[v] EXCEPT !.nn_key = 0].parent_key = y[v].parent_key
    BY <1>3 DEF VctrVal
  <2>2. z = [y EXCEPT ![v] = [y[v] EXCEPT !.nn_key = 0]]
    BY <1>4
  <2> QED BY <1>3, <2>1, <2>2
<1>6. Untied(x, v) = z
  BY <1>1, <1>2, <1>4 DEF Untied
<1> QED BY <1>3, <1>5, <1>6

(* A vector of a restored table that vctr_del() can delete goes as a       *)
(* whole, unless it is an nn vector: nobody reads a chunk of it yet.       *)
LEMMA CleanDelEffect ==
  ASSUME TypeOK, NEW v \in Uqids, Deletable(v), vctr_del(vctr, v),
         \A k \in Keys : chnk[k].num_readers = 0
  PROVE  /\ \/ vctr[v].parent_key # 0 /\ vctrs' = vctrs
            \/ vctrs' = vctrs \ {v}
         /\ \A u \in vctrs' : /\ vctr'[u].num_elements = vctr[u].num_elements
                              /\ vctr'[u].parent_key # 0 => vctr[u].parent_key # 0
         /\ \A k \in Keys : chnk'[k].num_readers = 0
         /\ half_deleted' = half_deleted
<1> DEFINE val == vctr[v]
           y == IF val.nn_key # 0 THEN Untied(vctr, v) ELSE vctr
           D == IF val.num_elements = 0 THEN {} ELSE DelRun(v, val)
<1>1. vctr \in [Uqids -> VctrVal] /\ vctrs \subseteq Uqids
  BY DEF TypeOK
<1>2. y \in [Uqids -> VctrVal]
  BY <1>1, UntieTypes
<1>3. \A u \in Uqids : /\ y[u].num_elements = vctr[u].num_elements
                       /\ y[u].parent_key # 0 => vctr[u].parent_key # 0
  BY <1>1, UntiedKeeps
<1>4. CASE val.parent_key # 0
  <2>1. vctr' = y /\ UNCHANGED <<vctrs, chnk, half_deleted>>
    BY <1>4, Zenon DEF vctr_del, rest, chnkTable, client
  <2> HIDE DEF y
  <2> QED BY <1>1, <1>3, <1>4, <2>1
<1>5. CASE val.parent_key = 0
  <2>1. LmaFree(val) /\ (val.num_elements = 0 \/ Idxs(val) \subseteq HasFile(v))
    BY <1>5 DEF Deletable
  <2>2. ~((val.is_lma /\ ~val.is_persist) /\ val.num_readers + val.num_writers > 0)
    BY <2>1 DEF LmaFree
  <2>3. DelChnksDone(v, val)
    <3>1. CASE val.num_elements = 0
      BY <3>1 DEF DelChnksDone
    <3>2. CASE Idxs(val) \subseteq HasFile(v)
      <4>1. Idxs(val) \subseteq Freeable(v)
        BY <3>2 DEF HasFile, Freeable, Keys
      <4>2. val.min_chnk_idx \in Int /\ val.max_chnk_idx \in Int
        BY <1>1 DEF VctrVal
      <4>3. DelRun(v, val) = Idxs(val)
        BY <4>1, <4>2 DEF DelRun, Run, Idxs
      <4> QED BY <4>3 DEF DelChnksDone
    <3> QED BY <2>1, <3>1, <3>2
  <2>4. /\ vctrs' = vctrs \ {v} /\ vctr' = [y EXCEPT ![v] = ZeroVctr]
        /\ chnk' = ChnkAfterDel(chnk, v, D) /\ half_deleted' = half_deleted
    BY <1>5, <2>2, <2>3, Zenon DEF vctr_del
  <2> HIDE DEF y, D
  <2>5. \A u \in vctrs' : vctr'[u] = y[u]
    BY <1>1, <1>2, <2>4
  <2>6. \A k \in Keys : chnk'[k].num_readers = 0
    BY <2>4 DEF ChnkAfterDel, ZeroChnk
  <2> QED BY <1>1, <1>3, <2>4, <2>5, <2>6
<1> QED BY <1>4, <1>5

(* The inductive step.                                                     *)
LEMMA NextClean ==
  ASSUME TypeOK, SavedTypes, CleanInv, [SessionNext]_svars
  PROVE  CleanInv'
<1> SUFFICES ASSUME mode' = "cleaning" PROVE CleanInv'
  BY DEF CleanInv
<1>1. \/ UNCHANGED svars \/ RestoreTables
      \/ \E v \in Uqids : CleanDel(v)
  <2>1. ~Client
    BY DEF Client
  <2>2. ~Save
    BY DEF Save, SaveBegin, SaveTables, SaveTears, SaveSkip, SaveMakeMem, SavePersist
  <2>3. ~Crash
    BY DEF Crash
  <2>4. ~(StartNew \/ RestoreNothing \/ RestoreTorn \/ RestoreDone \/ RestoreFails)
    BY DEF StartNew, RestoreNothing, RestoreTorn, RestoreDone, RestoreFails
  <2>5. \A v \in Uqids : ~CleanFails(v)
    BY DEF CleanFails
  <2> QED BY <2>1, <2>2, <2>3, <2>4, <2>5 DEF SessionNext, Start
<1>2. CASE UNCHANGED svars
  BY <1>2 DEF svars, vars, vctrTable, chnkTable, disk, CleanInv
<1>3. CASE RestoreTables
  <2>1. /\ vctr_file' = vctr_file /\ vctr_file.is = "saved"
        /\ vctrs' = vctr_file.keys /\ vctr' = vctr_file.rows
        /\ todo' = ToClean(vctr_file.keys, vctr_file.rows)
    BY <1>3 DEF RestoreTables, disk
  <2>2. \A k \in Keys : chnk'[k].num_readers = 0
    <3>1. chnk_file.rows \in [Keys -> ChnkVal]
      BY <1>3 DEF RestoreTables, SavedTypes
    <3>2. \A k \in Keys : AsUnfrozen(chnk_file.rows[k]).num_readers = 0
      BY <3>1, ReadTypes
    <3> QED BY <1>3, <3>2 DEF RestoreTables, ZeroChnk
  <2> QED BY <2>1, <2>2 DEF CleanInv, ToClean
<1>4. ASSUME NEW v \in Uqids, CleanDel(v) PROVE CleanInv'
  <2>1. /\ mode = "cleaning" /\ v \in todo /\ Deletable(v) /\ vctr_del(vctr, v)
        /\ todo' = todo \ {v} /\ vctr_file' = vctr_file
    BY <1>4 DEF CleanDel, disk
  <2>2. ~vctr_file.rows[v].is_persist
    BY <2>1 DEF CleanInv, ToClean
  <2>3. /\ \/ vctr[v].parent_key # 0 /\ vctrs' = vctrs
           \/ vctrs' = vctrs \ {v}
        /\ \A u \in vctrs' : /\ vctr'[u].num_elements = vctr[u].num_elements
                             /\ vctr'[u].parent_key # 0 => vctr[u].parent_key # 0
        /\ \A k \in Keys : chnk'[k].num_readers = 0
    BY <2>1, CleanDelEffect DEF CleanInv
  <2> QED BY <2>1, <2>2, <2>3 DEF CleanInv
<1> QED BY <1>1, <1>2, <1>3, <1>4

(* A restore that succeeds brings back every persisted vector of the saved *)
(* tables, as long as it was, and besides these only vectors that were nn  *)
(* vectors: what restore_session() and clean_hmap() promise, after any     *)
(* number of operations, saves and crashes before it.                      *)
THEOREM SessionRestoredAsSaved == SessionSpec => RestoredAsSaved
<1>1. SessionInit => CleanInv
  BY DEF SessionInit, CleanInv
<1>2. TypeOK /\ SavedTypes /\ CleanInv /\ [SessionNext]_svars => CleanInv'
  BY NextClean
<1> DEFINE Restored ==
      mode = "cleaning" /\ mode' = "up" /\ whole =>
        LET was == vctr_file.rows
        IN  /\ \A v \in vctr_file.keys : was[v].is_persist =>
                 v \in vctrs' /\ vctr'[v].num_elements = was[v].num_elements
            /\ \A v \in vctrs' : was[v].is_persist \/ was[v].parent_key # 0
<1>3. TypeOK /\ SavedTypes /\ CleanInv /\ [SessionNext]_svars => Restored
  <2> SUFFICES ASSUME TypeOK, SavedTypes, CleanInv, [SessionNext]_svars,
                      mode = "cleaning", mode' = "up"
               PROVE  Restored
    OBVIOUS
  <2>1. RestoreDone
    <3>1. ~Client /\ ~Save /\ ~Crash
      BY DEF Client, Save, SaveBegin, SaveTables, SaveTears, SaveSkip, SaveMakeMem,
         SavePersist, Crash
    <3>2. ~(StartNew \/ RestoreNothing \/ RestoreTorn \/ RestoreTables \/ RestoreFails)
      BY DEF StartNew, RestoreNothing, RestoreTorn, RestoreTables, RestoreFails, MayStart
    <3>3. \A v \in Uqids : ~CleanDel(v) /\ ~CleanFails(v)
      BY DEF CleanDel, CleanFails
    <3>4. ~UNCHANGED svars
      BY DEF svars
    <3> QED BY <3>1, <3>2, <3>3, <3>4 DEF SessionNext, Start
  <2>2. todo = {} /\ vctrs' = vctrs
    BY <2>1 DEF RestoreDone
  <2>3. \A v \in vctrs : vctr'[v].num_elements = vctr[v].num_elements
    <3>1. vctr \in [Uqids -> VctrVal] /\ vctrs \subseteq Uqids
      BY DEF TypeOK
    <3> QED BY <2>1, <3>1, ReadTypes DEF RestoreDone
  <2> QED BY <2>2, <2>3 DEF CleanInv
<1>4. SessionSpec => [][Restored]_svars
  BY <1>1, <1>2, <1>3, SessionTypeInv, PTL DEF SessionSpec
<1> QED BY <1>4 DEF RestoredAsSaved

-----------------------------------------------------------------------------
(* What keeps a saved vector on disk.  A vector is steady when it is       *)
(* persisted, has ended, and all its chunks are there with copies that are *)
(* current.  No operation of a careful client makes it otherwise, except   *)
(* that it may delete it, and then the files stay.                         *)

\* the keys of the chunks that row x of v speaks of
RowKeys(x, v) == {k \in Keys : k[1] = v /\ k[2] \in Idxs(x)}

Sure(k) ==
  /\ k \in chnks /\ Copies(k)
  /\ chnk[k].l1_mem \/ chnk[k].l2_exists \/ vctr[k[1]].is_lma
  /\ vctr[k[1]].num_writers > 0 => /\ vctr[k[1]].is_lma
                                   /\ ~chnk[k].l1_mem /\ ~chnk[k].l2_exists

Steady(v) ==
  /\ v \in vctrs
  /\ vctr[v].is_persist /\ vctr[v].is_eov /\ vctr[v].num_elements > 0
  /\ vctr[v].is_lma => lma[v].size > 0
  /\ Idxs(vctr[v]) \subseteq ChnkIdxs
  /\ \A k \in RowKeys(vctr[v], v) : Sure(k)

\* a chunk stays sure, with the files it has
SureStays(k) ==
  /\ Sure(k)'
  /\ chnk'[k].num_elements = chnk[k].num_elements
  /\ chnk[k].l2_exists => chnk'[k].l2_exists

\* a vector stays steady, over the same chunks and with the files it has
Lasts(v) ==
  /\ Steady(v)'
  /\ vctr'[v].min_chnk_idx = vctr[v].min_chnk_idx
  /\ vctr'[v].max_chnk_idx = vctr[v].max_chnk_idx
  /\ vctr[v].is_lma => vctr'[v].is_lma
  /\ \A k \in RowKeys(vctr[v], v) : SureStays(k)

\* it is deleted, and its files stay
Goes(v) ==
  /\ v \notin vctrs' /\ lma'[v] = lma[v]
  /\ \A k \in RowKeys(vctr[v], v) : k \notin chnks' /\ l2'[k] = l2[k]

\* a vector that is gone does not come back, nor do its chunks
StaysAway(v) ==
  /\ v \notin vctrs' /\ lma'[v] = lma[v]
  /\ \A k \in Keys : k[1] = v /\ k \notin chnks => k \notin chnks' /\ l2'[k] = l2[k]

Fares(u) ==
  /\ Steady(u) => Lasts(u) \/ Goes(u)
  /\ u \notin vctrs => StaysAway(u)

(* A vector lasts if its row and its chunks do.                            *)
LEMMA LastsFrom ==
  ASSUME NEW v \in Uqids, Steady(v), v \in vctrs',
         vctr'[v].is_persist, vctr'[v].is_eov, vctr'[v].num_elements > 0,
         vctr'[v].min_chnk_idx = vctr[v].min_chnk_idx,
         vctr'[v].max_chnk_idx = vctr[v].max_chnk_idx,
         vctr[v].is_lma => vctr'[v].is_lma,
         vctr'[v].is_lma => lma'[v].size > 0,
         \A k \in RowKeys(vctr[v], v) : SureStays(k)
  PROVE  Lasts(v)
<1>1. Idxs(vctr'[v]) = Idxs(vctr[v])
  BY DEF Idxs
<1>2. RowKeys(vctr'[v], v) = RowKeys(vctr[v], v)
  BY <1>1 DEF RowKeys
<1>3. \A k \in RowKeys(vctr'[v], v) : Sure(k)'
  BY <1>2 DEF SureStays
<1>4. Steady(v)'
  BY <1>1, <1>3 DEF Steady
<1> QED BY <1>4 DEF Lasts

(* So does a chunk whose copies do, in a row that keeps its access.        *)
LEMMA SureFrom ==
  ASSUME NEW k \in Keys, Sure(k), k \in chnks',
         vctr'[k[1]].is_lma = vctr[k[1]].is_lma,
         vctr'[k[1]].num_writers = vctr[k[1]].num_writers \/ vctr'[k[1]].num_writers = 0,
         lma[k[1]].data \subseteq lma'[k[1]].data,
         chnk'[k].num_elements = chnk[k].num_elements,
         chnk[k].l2_exists => chnk'[k].l2_exists,
         chnk'[k].l1_mem => Filled(chnk[k]) \subseteq chnk'[k].l1_data,
         chnk'[k].l2_exists => /\ l2'[k].file = "full"
                               /\ Filled(chnk[k]) \subseteq l2'[k].data,
         chnk'[k].l1_mem \/ chnk'[k].l2_exists \/ vctr[k[1]].is_lma,
         vctr[k[1]].num_writers > 0 => ~chnk'[k].l1_mem /\ ~chnk'[k].l2_exists
  PROVE  SureStays(k)
<1>1. Filled(chnk'[k]) = Filled(chnk[k])
  BY DEF Filled
<1>2. vctr[k[1]].is_lma => {k[2]} \X Filled(chnk[k]) \subseteq lma[k[1]].data
  BY DEF Sure, Copies
<1>3. vctr'[k[1]].is_lma => {k[2]} \X Filled(chnk'[k]) \subseteq lma'[k[1]].data
  BY <1>1, <1>2
<1>4. Copies(k)'
  BY <1>1, <1>3, Zenon DEF Copies
<1>5. vctr'[k[1]].num_writers > 0 => vctr[k[1]].num_writers > 0
  OBVIOUS
<1>6. vctr'[k[1]].num_writers > 0 => /\ vctr'[k[1]].is_lma
                                    /\ ~chnk'[k].l1_mem /\ ~chnk'[k].l2_exists
  BY <1>5 DEF Sure
<1>7. chnk'[k].l1_mem \/ chnk'[k].l2_exists \/ vctr'[k[1]].is_lma
  OBVIOUS
<1>8. Sure(k)'
  BY <1>4, <1>6, <1>7, Zenon DEF Sure
<1> QED BY <1>8 DEF SureStays

\* the row of a vector, after a step that may change attributes and ties
RowLasts(x, y) == Keeps(x, y) /\ (x.is_persist => y.is_persist)

\* the step leaves u alone, but for readers, attributes and ties
Apart(u) ==
  /\ u \in vctrs' <=> u \in vctrs
  /\ u \in vctrs => RowLasts(vctr[u], vctr'[u])
  /\ lma'[u] = lma[u]
  /\ \A k \in Keys : k[1] = u =>
       /\ k \in chnks' <=> k \in chnks
       /\ l2'[k] = l2[k]
       /\ chnk'[k].num_elements = chnk[k].num_elements
       /\ chnk'[k].l1_mem = chnk[k].l1_mem /\ chnk'[k].l1_data = chnk[k].l1_data
       /\ chnk'[k].l2_exists = chnk[k].l2_exists

(* What is left alone fares well.                                          *)
LEMMA ApartFares ==
  ASSUME NEW u \in Uqids, Apart(u)
  PROVE  Fares(u)
<1>1. ASSUME Steady(u) PROVE Lasts(u)
  <2>1. u \in vctrs /\ u \in vctrs'
    BY <1>1 DEF Steady, Apart
  <2>2. /\ Keeps(vctr[u], vctr'[u]) /\ vctr'[u].is_persist /\ lma'[u] = lma[u]
    <3>1. vctr[u].is_persist
      BY <1>1 DEF Steady
    <3>2. RowLasts(vctr[u], vctr'[u]) /\ lma'[u] = lma[u]
      BY <2>1 DEF Apart
    <3> QED BY <3>1, <3>2 DEF RowLasts
  <2>3. ASSUME NEW k \in RowKeys(vctr[u], u) PROVE SureStays(k)
    <3>1. k \in Keys /\ k[1] = u /\ Sure(k)
      BY <1>1 DEF RowKeys, Steady
    <3>2. /\ k \in chnks' <=> k \in chnks
          /\ l2'[k] = l2[k]
          /\ chnk'[k].num_elements = chnk[k].num_elements
          /\ chnk'[k].l1_mem = chnk[k].l1_mem /\ chnk'[k].l1_data = chnk[k].l1_data
          /\ chnk'[k].l2_exists = chnk[k].l2_exists
      BY <3>1 DEF Apart
    <3> QED BY <2>2, <3>1, <3>2, SureFrom DEF Sure, Copies, Keeps
  <2> QED BY <1>1, <2>1, <2>2, <2>3, LastsFrom DEF Steady, Keeps
<1>2. ASSUME u \notin vctrs PROVE StaysAway(u)
  BY <1>2 DEF Apart, StaysAway
<1> QED BY <1>1, <1>2 DEF Fares

-----------------------------------------------------------------------------
(* Vectors and chunks that an operation only touches lightly.              *)

\* vectors that are persisted stay so
Persists(x, y) == x.is_persist => y.is_persist

(* Fields other than is_persist may change, and it may be set.             *)
LEMMA FieldsPersist ==
  ASSUME NEW x \in VctrVal, NEW n, NEW b, NEW k
  PROVE  /\ Persists(x, x)
         /\ Persists(x, [x EXCEPT !.is_persist = TRUE])
         /\ Persists(x, [x EXCEPT !.is_error = b])
         /\ Persists(x, [x EXCEPT !.memo_len = n])
         /\ Persists(x, [x EXCEPT !.is_killable = b, !.num_kill_ignore = n])
         /\ Persists(x, [x EXCEPT !.num_kill_ignore = n])
         /\ Persists(x, [x EXCEPT !.is_early_freeable = b, !.num_free_ignore = n])
         /\ Persists(x, [x EXCEPT !.nn_key = k])
         /\ Persists(x, [x EXCEPT !.parent_key = k])
         /\ Persists(x, [x EXCEPT !.num_writers = n, !.X = b])
         /\ Persists(x, [x EXCEPT !.X = b, !.num_writers = n])
         /\ Persists(x, [x EXCEPT !.is_lma = b])
         /\ Persists(x, [x EXCEPT !.num_elements = n])
         /\ Persists(x, get_lma_X_nX(x)) /\ Persists(x, unget_lma_X_nX(x))
  BY DEF Persists, VctrVal, get_lma_X_nX, unget_lma_X_nX

(* One row is stored.                                                      *)
LEMMA PersistRow ==
  ASSUME TypeOK, NEW v \in Uqids, NEW y, Persists(vctr[v], y),
         vctr' = [vctr EXCEPT ![v] = y]
  PROVE  \A u \in Uqids : Persists(vctr[u], vctr'[u])
<1> SUFFICES ASSUME NEW u \in Uqids PROVE Persists(vctr[u], vctr'[u])
  OBVIOUS
<1>1. vctr[u] \in VctrVal /\ vctr'[u] = IF u = v THEN y ELSE vctr[u]
  BY DEF TypeOK
<1> QED BY <1>1, FieldsPersist

(* Ties are tied and undone.                                               *)
LEMMA TiePersists ==
  ASSUME NEW x \in [Uqids -> VctrVal], NEW b \in Uqids
  PROVE  /\ \A n \in Uqids : \A u \in Uqids : Persists(x[u], Tied(x, b, n)[u])
         /\ x[b].nn_key # 0 => \A u \in Uqids : Persists(x[u], Untied(x, b)[u])
<1>1. ASSUME NEW n \in Uqids, NEW u \in Uqids PROVE Persists(x[u], Tied(x, b, n)[u])
  BY DEF Tied, Persists, VctrVal
<1>2. ASSUME x[b].nn_key # 0, NEW u \in Uqids PROVE Persists(x[u], Untied(x, b)[u])
  <2>1. x[b].nn_key \in Uqids
    BY <1>2 DEF VctrVal
  <2> QED BY <2>1 DEF Untied, Persists, VctrVal
<1> QED BY <1>1, <1>2

(* A step that leaves chunks, files and what CopyInv looks at in the rows  *)
(* alone, but for readers, and forgets no persist().                       *)
LEMMA LightFares ==
  ASSUME TypeOK, SameTable, UNCHANGED <<l2, lma>>,
         \A u \in vctrs : Persists(vctr[u], vctr'[u]),
         \A k \in Keys : /\ chnk'[k].num_elements = chnk[k].num_elements
                         /\ chnk'[k].l1_mem = chnk[k].l1_mem
                         /\ chnk'[k].l1_data = chnk[k].l1_data
                         /\ chnk'[k].l2_exists = chnk[k].l2_exists
  PROVE  \A u \in Uqids : Fares(u)
<1> SUFFICES ASSUME NEW u \in Uqids PROVE Apart(u)
  BY ApartFares
<1>1. vctrs' = vctrs /\ chnks' = chnks /\ \A v \in vctrs : Keeps(vctr[v], vctr'[v])
  BY DEF SameTable
<1>2. u \in vctrs => RowLasts(vctr[u], vctr'[u])
  BY <1>1 DEF RowLasts, Persists
<1> QED BY <1>1, <1>2 DEF Apart

(* Attributes and ties.                                                    *)
LEMMA AttributesFare ==
  ASSUME TypeOK,
         \/ VctrPersist \/ VctrSetMemo \/ SetKillable \/ SetFreeable \/ SetError
         \/ SetNnVec
  PROVE  \A u \in Uqids : Fares(u)
<1>1. SameTable /\ UNCHANGED <<chnk, l2, lma>>
  BY AttributesKeep
<1>2. \A v \in Uqids : vctr[v] \in VctrVal
  BY DEF TypeOK
<1>3. \A u \in Uqids : Persists(vctr[u], vctr'[u])
  <2>0. ASSUME NEW v \in Uqids, NEW y, Persists(vctr[v], y), vctr' = [vctr EXCEPT ![v] = y]
        PROVE  \A u \in Uqids : Persists(vctr[u], vctr'[u])
    BY <2>0, PersistRow
  <2>1. CASE VctrPersist
    <3>1. PICK v \in Uqids : vctr_persist(v)
      BY <2>1 DEF VctrPersist
    <3>2. Persists(vctr[v], [vctr[v] EXCEPT !.is_persist = TRUE])
      BY <1>2, FieldsPersist
    <3> QED BY <2>0, <3>1, <3>2 DEF vctr_persist
  <2>2. CASE VctrSetMemo
    <3>1. PICK v \in Uqids, memo \in MemoLens : vctr_set_memo(v, memo)
      BY <2>2 DEF VctrSetMemo
    <3>2. Persists(vctr[v], [vctr[v] EXCEPT !.memo_len = memo])
      BY <1>2, FieldsPersist
    <3> QED BY <2>0, <3>1, <3>2 DEF vctr_set_memo
  <2>3. CASE SetKillable
    <3>1. PICK v \in Uqids, n \in KillIgnores : vctr_set_num_kill_ignore(v, n)
      BY <2>3 DEF SetKillable
    <3>2. Persists(vctr[v], [vctr[v] EXCEPT !.is_killable = TRUE, !.num_kill_ignore = n])
      BY <1>2, FieldsPersist
    <3> QED BY <2>0, <3>1, <3>2 DEF vctr_set_num_kill_ignore
  <2>4. CASE SetFreeable
    <3>1. PICK v \in Uqids, n \in FreeIgnores : vctr_set_early_freeable(v, n)
      BY <2>4 DEF SetFreeable
    <3>2. Persists(vctr[v], [vctr[v] EXCEPT !.is_early_freeable = TRUE,
                                            !.num_free_ignore = n])
      BY <1>2, FieldsPersist
    <3> QED BY <2>0, <3>1, <3>2 DEF vctr_set_early_freeable
  <2>5. CASE SetError
    <3>1. PICK v \in Uqids : vctr_set_error(v)
      BY <2>5 DEF SetError
    <3>2. Persists(vctr[v], [vctr[v] EXCEPT !.is_error = TRUE])
      BY <1>2, FieldsPersist
    <3> QED BY <2>0, <3>1, <3>2 DEF vctr_set_error
  <2>6. CASE SetNnVec
    BY <2>6, TiePersists DEF SetNnVec, set_nn_vec, TypeOK
  <2> QED BY <2>1, <2>2, <2>3, <2>4, <2>5, <2>6
<1>4. \A u \in vctrs : Persists(vctr[u], vctr'[u])
  BY <1>3 DEF TypeOK
<1> QED BY <1>1, <1>4, LightFares

(* Readers of the linear file, and of chunks that are in RAM.              *)
LEMMA ReadersFare ==
  ASSUME TypeOK,
         \/ ChnkIncrReaders \/ VctrGetChunkLma \/ VctrUngetChunk
         \/ VctrGetLmaRead \/ VctrUngetLmaRead
  PROVE  \A u \in Uqids : Fares(u)
<1>1. \A v \in Uqids : /\ vctr[v] \in VctrVal /\ Persists(vctr[v], vctr[v])
                       /\ Persists(vctr[v], get_lma_X_nX(vctr[v]))
                       /\ Persists(vctr[v], unget_lma_X_nX(vctr[v]))
  BY FieldsPersist DEF TypeOK
<1>2. \A u \in Uqids : Persists(vctr[u], vctr'[u])
  <2>0. ASSUME NEW v \in Uqids, \/ vctr' = [vctr EXCEPT ![v] = get_lma_X_nX(vctr[v])]
                                \/ vctr' = [vctr EXCEPT ![v] = unget_lma_X_nX(vctr[v])]
        PROVE  \A u \in Uqids : Persists(vctr[u], vctr'[u])
    BY <1>1, <2>0, PersistRow
  <2>1. CASE ChnkIncrReaders
    BY <1>1, <2>1 DEF ChnkIncrReaders, chnk_incr_num_readers, vctrTable
  <2>2. CASE VctrGetChunkLma \/ VctrGetLmaRead \/ VctrUngetLmaRead
    BY <2>0, <2>2, Zenon DEF VctrGetChunkLma, VctrGetLmaRead, VctrUngetLmaRead,
       vctr_get_chunk_lma, vctr_get_lma_read, vctr_unget_lma_read
  <2>3. CASE VctrUngetChunk
    <3>1. PICK v \in Uqids, i \in ChnkIdxs : vctr_unget_chunk(v, i)
      BY <2>3 DEF VctrUngetChunk
    <3>2. \/ vctr' = [vctr EXCEPT ![v] = unget_lma_X_nX(@)]
          \/ vctr' = vctr
      BY <3>1, Zenon DEF vctr_unget_chunk
    <3> QED BY <1>1, <2>0, <3>2
  <2> QED BY <2>1, <2>2, <2>3
<1>3. \A u \in vctrs : Persists(vctr[u], vctr'[u])
  BY <1>2 DEF TypeOK
<1> QED BY <1>3, ReadersKeep, LightFares

-----------------------------------------------------------------------------
(* Operations on the copies of chunks.                                     *)

\* what such a step has to see to, for one chunk
ChnkFares(k) ==
  /\ k \notin chnks => l2'[k] = l2[k]
  /\ Sure(k) /\ vctr[k[1]].is_persist => SureStays(k)

(* That is enough.                                                         *)
LEMMA CopiesFare ==
  ASSUME TypeOK, UNCHANGED <<vctrTable, chnks, lma>>, \A k \in Keys : ChnkFares(k)
  PROVE  \A u \in Uqids : Fares(u)
<1> SUFFICES ASSUME NEW u \in Uqids PROVE Fares(u)
  OBVIOUS
<1>1. vctrs' = vctrs /\ vctr' = vctr /\ chnks' = chnks /\ lma' = lma
  BY DEF vctrTable
<1>2. ASSUME Steady(u) PROVE Lasts(u)
  <2>1. ASSUME NEW k \in RowKeys(vctr[u], u) PROVE SureStays(k)
    <3>1. k \in Keys /\ k[1] = u /\ Sure(k) /\ vctr[u].is_persist
      BY <1>2 DEF RowKeys, Steady
    <3> QED BY <3>1 DEF ChnkFares
  <2> QED BY <1>1, <1>2, <2>1, LastsFrom DEF Steady
<1>3. ASSUME u \notin vctrs PROVE StaysAway(u)
  BY <1>1, <1>3 DEF StaysAway, ChnkFares
<1> QED BY <1>2, <1>3 DEF Fares

(* A chunk whose copies are made, or dropped, from copies that are current.*)
LEMMA SureMade ==
  ASSUME TypeOK, UNCHANGED <<vctrTable, chnks, lma>>, SameCounts, NEW k \in Keys, Sure(k),
         chnk[k].l2_exists => chnk'[k].l2_exists,
         chnk'[k].l1_mem => Filled(chnk[k]) \subseteq chnk'[k].l1_data,
         chnk'[k].l2_exists => /\ l2'[k].file = "full"
                               /\ Filled(chnk[k]) \subseteq l2'[k].data,
         chnk'[k].l1_mem \/ chnk'[k].l2_exists \/ vctr[k[1]].is_lma,
         vctr[k[1]].num_writers > 0 => ~chnk'[k].l1_mem /\ ~chnk'[k].l2_exists
  PROVE  SureStays(k)
<1>1. /\ vctr' = vctr /\ chnks' = chnks /\ lma' = lma
      /\ chnk'[k].num_elements = chnk[k].num_elements /\ k \in chnks
  BY DEF vctrTable, SameCounts, SameCount, Sure
<1> QED BY <1>1, SureFrom

(* A chunk and its file left alone.                                        *)
LEMMA SureSame ==
  ASSUME TypeOK, UNCHANGED <<vctrTable, chnks, lma>>, NEW k \in Keys,
         chnk'[k] = chnk[k], l2'[k] = l2[k]
  PROVE  ChnkFares(k)
<1>1. ASSUME Sure(k) PROVE SureStays(k)
  BY <1>1, SureFrom DEF Sure, Copies, vctrTable
<1> QED BY <1>1 DEF ChnkFares

(* vctr_get_chunk() and vctr_get1().                                       *)
LEMMA GetFares ==
  ASSUME TypeOK, VctrGetChunk \/ VctrGet1
  PROVE  \A u \in Uqids : Fares(u)
<1>0. SameCounts /\ \A k \in Keys : chnk[k] \in ChnkVal /\ l2[k] \in L2File
  BY AccessCounts DEF TypeOK, AccessNext
<1>1. ASSUME NEW j \in Keys, UNCHANGED <<vctrTable, chnks, l2, lma>>,
             \/ chnk' = [chnk EXCEPT ![j] = chnk_get_data(j)]
             \/ chnk' = [chnk EXCEPT ![j] = [chnk_get_data(j) EXCEPT !.num_readers = @ - 1]]
      PROVE  \A u \in Uqids : Fares(u)
  <2>1. PICK d : d = chnk_get_data(j)
    OBVIOUS
  <2>2. PICK r, c, e : /\ r = chnk[j].num_readers + 1
                       /\ c = [chnk[j] EXCEPT !.num_readers = r]
                       /\ e = l2[j].data
    OBVIOUS
  <2>3. d = c \/ (chnk[j].l2_exists /\ d = [c EXCEPT !.l1_mem = TRUE, !.l1_data = e])
    BY <1>0, <2>1, <2>2 DEF chnk_get_data, LoadL1, ChnkVal
  <2>4. PICK m : m = d.num_readers - 1
    OBVIOUS
  <2>5. PICK f : f = chnk'[j]
    OBVIOUS
  <2>6. f = d \/ f = [d EXCEPT !.num_readers = m]
    BY <1>1, <2>1, <2>4, <2>5 DEF TypeOK
  <2>7. c \in ChnkVal /\ e \in SUBSET Slots
    BY <1>0, <2>2 DEF ChnkVal, L2File
  <2>8. /\ f.l2_exists = chnk[j].l2_exists
        /\ \/ f.l1_mem = chnk[j].l1_mem /\ f.l1_data = chnk[j].l1_data
           \/ chnk[j].l2_exists /\ f.l1_data = l2[j].data
    <3>1. /\ c.l2_exists = chnk[j].l2_exists /\ c.l1_mem = chnk[j].l1_mem
          /\ c.l1_data = chnk[j].l1_data
      BY <1>0, <2>2 DEF ChnkVal
    <3>2. /\ d \in ChnkVal /\ d.l2_exists = chnk[j].l2_exists
          /\ \/ d.l1_mem = chnk[j].l1_mem /\ d.l1_data = chnk[j].l1_data
             \/ chnk[j].l2_exists /\ d.l1_data = l2[j].data
      BY <2>2, <2>3, <2>7, <3>1 DEF ChnkVal
    <3>3. f.l2_exists = d.l2_exists /\ f.l1_mem = d.l1_mem /\ f.l1_data = d.l1_data
      BY <2>6, <3>2 DEF ChnkVal
    <3> QED BY <3>2, <3>3
  <2>9. ASSUME NEW k \in Keys PROVE ChnkFares(k)
    <3>1. k # j => chnk'[k] = chnk[k]
      BY <1>1 DEF TypeOK
    <3>2. ASSUME Sure(k), k = j PROVE SureStays(k)
      <4>1. /\ chnk'[k].l2_exists = chnk[k].l2_exists /\ l2'[k] = l2[k]
            /\ \/ chnk'[k].l1_mem = chnk[k].l1_mem /\ chnk'[k].l1_data = chnk[k].l1_data
               \/ chnk[k].l2_exists /\ chnk'[k].l1_data = l2[k].data
        BY <1>1, <2>5, <2>8, <3>2
      <4>2. chnk'[k].l1_mem => Filled(chnk[k]) \subseteq chnk'[k].l1_data
        BY <3>2, <4>1 DEF Sure, Copies
      <4>3. chnk'[k].l2_exists => /\ l2'[k].file = "full"
                                  /\ Filled(chnk[k]) \subseteq l2'[k].data
        BY <3>2, <4>1 DEF Sure, Copies
      <4>4. chnk'[k].l1_mem \/ chnk'[k].l2_exists \/ vctr[k[1]].is_lma
        BY <3>2, <4>1 DEF Sure
      <4>5. vctr[k[1]].num_writers > 0 => ~chnk'[k].l1_mem /\ ~chnk'[k].l2_exists
        BY <3>2, <4>1 DEF Sure
      <4> QED BY <1>0, <1>1, <3>2, <4>1, <4>2, <4>3, <4>4, <4>5, SureMade
    <3>3. CASE k = j
      BY <1>1, <3>2, <3>3 DEF ChnkFares
    <3>4. CASE k # j
      BY <1>1, <3>1, <3>4, SureSame
    <3> QED BY <3>3, <3>4
  <2> QED BY <1>1, <2>9, CopiesFare
<1>2. CASE VctrGetChunk
  <2>1. PICK v \in Uqids, i \in ChnkIdxs : vctr_get_chunk(v, i)
    BY <1>2 DEF VctrGetChunk
  <2>2. PICK j \in Keys : j = <<v, i>>
    BY KeyParts
  <2>3. /\ UNCHANGED <<vctrTable, chnks, l2, lma>>
        /\ chnk' = [chnk EXCEPT ![j] = chnk_get_data(j)]
    BY <2>1, <2>2, Zenon DEF vctr_get_chunk
  <2> QED BY <1>1, <2>3
<1>3. CASE VctrGet1
  <2>1. PICK v \in Uqids, i \in ChnkIdxs : vctr_get1(v, i)
    BY <1>3 DEF VctrGet1
  <2>2. PICK j \in Keys : j = <<v, i>>
    BY KeyParts
  <2>3. /\ UNCHANGED <<g_vctr_uqid, vctrs, chnks, l2, lma, half_deleted>>
        /\ \/ vctr' = [vctr EXCEPT ![v] = get_lma_X_nX(vctr[v])] /\ chnk' = chnk
           \/ /\ vctr' = vctr
              /\ \/ chnk' = [chnk EXCEPT ![j] = chnk_get_data(j)]
                 \/ chnk' = [chnk EXCEPT ![j] =
                               [chnk_get_data(j) EXCEPT !.num_readers = @ - 1]]
    BY <2>1, <2>2, Zenon DEF vctr_get1, client
  <2>4. CASE vctr' = [vctr EXCEPT ![v] = get_lma_X_nX(vctr[v])] /\ chnk' = chnk
    <3>1. /\ Keeps(vctr[v], get_lma_X_nX(vctr[v]))
          /\ Persists(vctr[v], get_lma_X_nX(vctr[v]))
      BY FieldsKeep, FieldsPersist DEF TypeOK
    <3>2. SameTable
      BY <2>3, <2>4, <3>1, KeepRow DEF SameTable
    <3>3. \A u \in vctrs : Persists(vctr[u], vctr'[u])
      BY <2>4, <3>1, PersistRow DEF TypeOK
    <3> QED BY <2>3, <2>4, <3>2, <3>3, LightFares
  <2>5. CASE vctr' = vctr
    BY <1>1, <2>3, <2>4, <2>5 DEF vctrTable
  <2> QED BY <2>3, <2>4, <2>5
<1> QED BY <1>2, <1>3

(* drop_mem() of RAM leaves a file; a careful client drops no file of a    *)
(* vector that is persisted.                                               *)
LEMMA DropFares ==
  ASSUME TypeOK, CarefulClient, DropL1 \/ DropL2
  PROVE  \A u \in Uqids : Fares(u)
<1>0. SameCounts /\ \A k \in Keys : chnk[k] \in ChnkVal
  BY TierCounts, RowsCounts DEF TypeOK
<1>1. CASE DropL1
  <2>1. PICK v \in Uqids : \E S \in Named(v, Present(v)) : drop_l1(v, S)
    BY <1>1 DEF DropL1
  <2>2. PICK S \in Named(v, Present(v)) : drop_l1(v, S)
    BY <2>1
  <2>3. PICK D : D = DropsL1(v, S)
    OBVIOUS
  <2> DEFINE f(k) == [chnk[k] EXCEPT !.l1_mem = FALSE, !.l1_data = {}]
  <2>4. /\ chnk' = [k \in Keys |-> IF k \in KeysOf(v, D) THEN f(k) ELSE chnk[k]]
        /\ UNCHANGED <<vctrTable, chnks, l2, lma>>
    BY <2>2, <2>3, Zenon DEF drop_l1, ChnkWith
  <2>5. ASSUME NEW k \in Keys PROVE ChnkFares(k)
    <3>1. CASE k \in KeysOf(v, D)
      <4>1. k[1] = v /\ k[2] \in D /\ k = <<v, k[2]>>
        BY <3>1, KeyInKeysOf, KeyParts
      <4>2. chnk[k].l1_mem /\ (chnk[k].l2_exists \/ vctr[k[1]].is_lma)
        BY <2>3, <4>1 DEF DropsL1
      <4>3. ~chnk'[k].l1_mem /\ chnk'[k].l2_exists = chnk[k].l2_exists /\ l2'[k] = l2[k]
        BY <1>0, <2>4, <3>1 DEF ChnkVal
      <4>4. ASSUME Sure(k) PROVE SureStays(k)
        <5>1. chnk'[k].l2_exists => /\ l2'[k].file = "full"
                                    /\ Filled(chnk[k]) \subseteq l2'[k].data
          BY <4>3, <4>4 DEF Sure, Copies
        <5>2. vctr[k[1]].num_writers > 0 => ~chnk'[k].l1_mem /\ ~chnk'[k].l2_exists
          BY <4>3, <4>4 DEF Sure
        <5> QED BY <1>0, <2>4, <4>2, <4>3, <4>4, <5>1, <5>2, SureMade
      <4> QED BY <4>3, <4>4 DEF ChnkFares
    <3>2. CASE k \notin KeysOf(v, D)
      BY <2>4, <3>2, SureSame
    <3> QED BY <3>1, <3>2
  <2> QED BY <2>4, <2>5, CopiesFare
<1>2. CASE DropL2
  <2>1. PICK v \in Uqids : \E S \in Named(v, Present(v)) : drop_l2(v, S)
    BY <1>2 DEF DropL2
  <2>2. PICK S \in Named(v, Present(v)) : drop_l2(v, S)
    BY <2>1
  <2>3. PICK D : D = DropsL2(v, S)
    OBVIOUS
  <2> DEFINE f(k) == [chnk[k] EXCEPT !.l2_exists = FALSE]
  <2>4. /\ chnk' = [k \in Keys |-> IF k \in KeysOf(v, D) THEN f(k) ELSE chnk[k]]
        /\ l2' = [k \in Keys |-> IF k \in KeysOf(v, D) THEN NoFile ELSE l2[k]]
        /\ UNCHANGED <<vctrTable, chnks, lma>>
    BY <2>2, <2>3, Zenon DEF drop_l2, ChnkWith
  <2>5. S \subseteq Present(v)
    BY NamedPresent DEF Present
  <2>6. ASSUME NEW k \in Keys PROVE ChnkFares(k)
    <3>1. CASE k \in KeysOf(v, D)
      <4>1. k[1] = v /\ k[2] \in D /\ k = <<v, k[2]>>
        BY <3>1, KeyInKeysOf, KeyParts
      <4>2. k \in chnks /\ chnk[k].l2_exists
        BY <2>3, <2>5, <4>1 DEF DropsL2, Present, chnk_is
      <4>3. l2'[k].file = "none"
        BY <2>4, <3>1 DEF NoFile
      <4>4. ~(Sure(k) /\ vctr[k[1]].is_persist)
        BY <4>2, <4>3 DEF CarefulClient, Sure, Copies
      <4> QED BY <4>2, <4>4 DEF ChnkFares
    <3>2. CASE k \notin KeysOf(v, D)
      BY <2>4, <3>2, SureSame
    <3> QED BY <3>1, <3>2
  <2> QED BY <2>4, <2>6, CopiesFare
<1> QED BY <1>1, <1>2

(* make_mem(1): RAM from a file that the chunk's row knows of, since the   *)
(* client is careful.                                                      *)
LEMMA MakeL1Fares ==
  ASSUME TypeOK, CarefulClient, MakeL1
  PROVE  \A u \in Uqids : Fares(u)
<1>0. SameCounts /\ \A k \in Keys : chnk[k] \in ChnkVal
  BY TierCounts, RowsCounts DEF TypeOK
<1>1. PICK v \in Uqids : \E S \in Named(v, CanMakeL1(v)) : make_l1(v, S)
  BY DEF MakeL1
<1>2. PICK S \in Named(v, CanMakeL1(v)) : make_l1(v, S)
  BY <1>1
<1>3. PICK D : D = {i \in S : ~chnk[<<v, i>>].l1_mem}
  OBVIOUS
<1> DEFINE f(k) == IF k \in KeysOf(v, D)
                   THEN [chnk[k] EXCEPT !.l1_mem = TRUE, !.l1_data = l2[k].data]
                   ELSE chnk[k]
<1>4. /\ chnk' = [k \in Keys |-> f(k)]
      /\ UNCHANGED <<vctrTable, chnks, l2, lma>>
  BY <1>2, <1>3 DEF make_l1, ChnkWith, LoadL1
<1>5. S \subseteq CanMakeL1(v)
  BY NamedPresent DEF CanMakeL1, Present
<1>6. ASSUME NEW k \in Keys PROVE ChnkFares(k)
  <2>1. CASE k \in KeysOf(v, D)
    <3>1. k[1] = v /\ k[2] \in D /\ k = <<v, k[2]>>
      BY <2>1, KeyInKeysOf, KeyParts
    <3>2. l2[k].file = "full" /\ ~chnk[k].l1_mem
      BY <1>3, <1>5, <3>1 DEF CanMakeL1
    <3>3. /\ chnk'[k].l1_mem /\ chnk'[k].l1_data = l2[k].data
          /\ chnk'[k].l2_exists = chnk[k].l2_exists
      BY <1>0, <1>4, <2>1 DEF ChnkVal
    <3>4. ASSUME Sure(k) PROVE SureStays(k)
      <4>1. chnk[k].l2_exists
        BY <3>2, <3>3, <3>4 DEF CarefulClient, Sure
      <4>2. Filled(chnk[k]) \subseteq l2[k].data
        BY <3>4, <4>1 DEF Sure, Copies
      <4>3. vctr[k[1]].num_writers > 0 => FALSE
        BY <3>4, <4>1 DEF Sure
      <4> QED BY <1>0, <1>4, <3>2, <3>3, <3>4, <4>2, <4>3, SureMade
    <3> QED BY <1>4, <3>4 DEF ChnkFares
  <2>2. CASE k \notin KeysOf(v, D)
    BY <1>4, <2>2, SureSame
  <2> QED BY <2>1, <2>2
<1> QED BY <1>4, <1>6, CopiesFare

(* Chunk k is written to its file, if it is one of the chunks D of v, all  *)
(* in RAM.                                                                 *)
LEMMA WriteFares ==
  ASSUME TypeOK, UNCHANGED <<vctrTable, chnks, lma>>, SameCounts,
         NEW v \in Uqids, NEW D, NEW k \in Keys,
         \A i \in D : chnk_is(v, i) /\ chnk[<<v, i>>].l1_mem,
         k \in KeysOf(v, D) => /\ l2'[k].file = "full" /\ l2'[k].data = chnk[k].l1_data
                               /\ chnk'[k].l2_exists,
         k \notin KeysOf(v, D) => /\ chnk'[k].l2_exists = chnk[k].l2_exists
                                  /\ chnk[k].l2_exists \/ k \notin chnks => l2'[k] = l2[k],
         chnk'[k].l1_mem => chnk[k].l1_mem /\ chnk'[k].l1_data = chnk[k].l1_data,
         chnk'[k].l1_mem = chnk[k].l1_mem \/ chnk'[k].l2_exists
  PROVE  ChnkFares(k)
<1>1. k \in KeysOf(v, D) => chnk[k].l1_mem /\ k \in chnks
  <2>1. k \in KeysOf(v, D) => k[1] = v /\ k[2] \in D /\ k = <<v, k[2]>>
    BY KeyInKeysOf, KeyParts
  <2> QED BY <2>1 DEF chnk_is
<1>2. ASSUME Sure(k) PROVE SureStays(k)
  <2>1. chnk'[k].l1_mem => Filled(chnk[k]) \subseteq chnk'[k].l1_data
    BY <1>2 DEF Sure, Copies
  <2>2. chnk'[k].l2_exists => /\ l2'[k].file = "full"
                              /\ Filled(chnk[k]) \subseteq l2'[k].data
    BY <1>1, <1>2 DEF Sure, Copies
  <2>3. chnk[k].l2_exists => chnk'[k].l2_exists
    OBVIOUS
  <2>4. chnk'[k].l1_mem \/ chnk'[k].l2_exists \/ vctr[k[1]].is_lma
    BY <1>2, <2>3 DEF Sure
  <2>5. vctr[k[1]].num_writers > 0 => ~chnk'[k].l1_mem /\ ~chnk'[k].l2_exists
    BY <1>1, <1>2 DEF Sure
  <2> QED BY <1>2, <2>1, <2>2, <2>3, <2>4, <2>5, SureMade
<1>3. k \notin chnks => l2'[k] = l2[k]
  BY <1>1
<1> QED BY <1>2, <1>3 DEF ChnkFares

(* chnk_make_mem() at level 2.                                             *)
LEMMA MakeL2StepFares ==
  ASSUME TypeOK, SameCounts, NEW v \in Uqids, NEW S, S \subseteq CanMakeL2(v),
         NEW Null, Null \subseteq NoL1L2(v), make_l2(v, S, Null)
  PROVE  /\ \A k \in Keys : ChnkFares(k)
         /\ UNCHANGED <<vctrTable, chnks, lma>>
<1> DEFINE D == {i \in S : ~chnk[<<v, i>>].l2_exists}
           f(k) == IF k \in KeysOf(v, D) THEN [chnk[k] EXCEPT !.l2_exists = TRUE]
                   ELSE chnk[k]
           h(k) == IF k \in KeysOf(v, D) THEN [file |-> "full", data |-> chnk[k].l1_data]
                   ELSE l2[k]
           g(k) == IF k \in KeysOf(v, Null) THEN [file |-> "empty", data |-> {}]
                   ELSE L2With(v, D)[k]
<1>1. /\ WriteL2(v, D) /\ l2' = [k \in Keys |-> g(k)]
      /\ UNCHANGED <<vctrTable, chnks, lma>>
  BY DEF make_l2
<1>2. chnk' = [k \in Keys |-> f(k)] /\ \A k \in Keys : L2With(v, D)[k] = h(k)
  BY <1>1 DEF WriteL2, ChnkWith, L2With
<1>3. \A i \in D : i \in ChnkIdxs /\ chnk_is(v, i) /\ chnk[<<v, i>>].l1_mem
  BY DEF CanMakeL2, Present
<1>4. ASSUME NEW k \in Keys PROVE ChnkFares(k)
  <2>1. chnk'[k] = f(k) /\ l2'[k] = g(k) /\ chnk[k] \in ChnkVal
    BY <1>1, <1>2 DEF TypeOK
  <2>2. k \in KeysOf(v, Null) =>
          k \notin KeysOf(v, D) /\ ~chnk[k].l2_exists /\ k \in chnks
    <3> SUFFICES ASSUME k \in KeysOf(v, Null)
                 PROVE  k \notin KeysOf(v, D) /\ ~chnk[k].l2_exists /\ k \in chnks
      OBVIOUS
    <3>1. k[1] = v /\ k[2] \in Null /\ k = <<v, k[2]>>
      BY KeyInKeysOf, KeyParts
    <3>2. ~chnk[k].l1_mem /\ ~chnk[k].l2_exists /\ k \in chnks
      BY <3>1 DEF NoL1L2, CanMakeL2, Present, chnk_is
    <3>3. k[2] \notin D
      BY <1>3, <3>1, <3>2
    <3> HIDE DEF D
    <3> QED BY <3>2, <3>3, KeyInKeysOf
  <2>3. k \in KeysOf(v, D) => /\ l2'[k].file = "full" /\ l2'[k].data = chnk[k].l1_data
                              /\ chnk'[k].l2_exists
    <3> HIDE DEF D
    <3> SUFFICES ASSUME k \in KeysOf(v, D)
                 PROVE  /\ l2'[k].file = "full" /\ l2'[k].data = chnk[k].l1_data
                        /\ chnk'[k].l2_exists
      OBVIOUS
    <3>1. chnk'[k] = [chnk[k] EXCEPT !.l2_exists = TRUE]
      BY <2>1
    <3>2. l2'[k] = [file |-> "full", data |-> chnk[k].l1_data]
      BY <1>2, <2>1, <2>2
    <3> QED BY <2>1, <3>1, <3>2 DEF ChnkVal
  <2>4. k \notin KeysOf(v, D) => /\ chnk'[k].l2_exists = chnk[k].l2_exists
                                 /\ chnk[k].l2_exists \/ k \notin chnks => l2'[k] = l2[k]
    <3> HIDE DEF D
    <3> QED BY <1>2, <2>1, <2>2
  <2>5. chnk'[k].l1_mem = chnk[k].l1_mem /\ chnk'[k].l1_data = chnk[k].l1_data
    BY <2>1 DEF ChnkVal
  <2> HIDE DEF D
  <2> QED BY <1>1, <1>3, <2>3, <2>4, <2>5, WriteFares
<1> QED BY <1>1, <1>4

(* The whole vector at once.                                               *)
LEMMA MakeL2Fares ==
  ASSUME TypeOK, SameCounts, NEW v \in Uqids, vctr_make_l2(v)
  PROVE  /\ \A k \in Keys : ChnkFares(k)
         /\ UNCHANGED <<vctrTable, chnks, lma>>
<1> DEFINE S == Run(vctr[v].min_chnk_idx, vctr[v].max_chnk_idx, CanMakeL2(v))
           Null == {i \in Idxs(vctr[v]) \cap NoL1L2(v) :
                      vctr[v].min_chnk_idx .. (i - 1) \subseteq S}
<1>1. make_l2(v, S, Null)
  BY DEF vctr_make_l2
<1>2. S \subseteq CanMakeL2(v) /\ Null \subseteq NoL1L2(v)
  <2>1. vctr[v].min_chnk_idx \in Int /\ vctr[v].max_chnk_idx \in Int
    BY DEF TypeOK, VctrVal
  <2> QED BY <2>1, RunInOk
<1> HIDE DEF S, Null
<1> QED BY <1>1, <1>2, MakeL2StepFares

(* make_mem at level 2 and l1_to_l2.                                       *)
LEMMA BackupFares ==
  ASSUME TypeOK, MakeL2 \/ L1ToL2
  PROVE  \A u \in Uqids : Fares(u)
<1>0. /\ \A v \in Uqids : vctr[v].min_chnk_idx \in Int /\ vctr[v].max_chnk_idx \in Int
      /\ SameCounts
  BY TierCounts, RowsCounts DEF TypeOK, VctrVal
<1>1. CASE MakeL2
  <2>1. PICK v \in Uqids : \/ vctr_make_l2(v)
                           \/ \E i \in CanMakeL2(v) : make_l2(v, {i}, {})
                           \/ \E i \in NoL1L2(v) : make_l2(v, {}, {i})
    BY <1>1 DEF MakeL2
  <2>2. CASE vctr_make_l2(v)
    BY <1>0, <2>2, MakeL2Fares, CopiesFare
  <2>3. CASE \E i \in CanMakeL2(v) : make_l2(v, {i}, {})
    BY <1>0, <2>3, MakeL2StepFares, CopiesFare
  <2>4. CASE \E i \in NoL1L2(v) : make_l2(v, {}, {i})
    BY <1>0, <2>4, MakeL2StepFares, CopiesFare
  <2> QED BY <2>1, <2>2, <2>3, <2>4
<1>2. CASE L1ToL2
  <2>1. PICK v \in Uqids : vctr_l1_to_l2(v)
    BY <1>2 DEF L1ToL2
  <2> DEFINE S == Run(vctr[v].min_chnk_idx, vctr[v].max_chnk_idx, CanL1ToL2(v))
             D == {i \in S : l2[<<v, i>>].file = "none"}
             f(k) == IF k \in KeysOf(v, D) THEN [chnk[k] EXCEPT !.l2_exists = TRUE]
                     ELSE chnk[k]
             h(k) == IF k \in KeysOf(v, D)
                     THEN [file |-> "full", data |-> chnk[k].l1_data] ELSE l2[k]
  <2>2. /\ WriteL2(v, D) /\ l2' = L2With(v, D)
        /\ UNCHANGED <<vctrTable, chnks, lma>>
    BY <2>1 DEF vctr_l1_to_l2
  <2>3. chnk' = [k \in Keys |-> f(k)] /\ l2' = [k \in Keys |-> h(k)]
    BY <2>2 DEF WriteL2, ChnkWith, L2With
  <2>4. \A i \in D : chnk_is(v, i) /\ chnk[<<v, i>>].l1_mem
    <3>1. S \subseteq CanL1ToL2(v)
      BY <1>0, RunInOk
    <3> QED BY <3>1 DEF CanL1ToL2, Present
  <2>5. ASSUME NEW k \in Keys PROVE ChnkFares(k)
    <3>1. chnk'[k] = f(k) /\ l2'[k] = h(k) /\ chnk[k] \in ChnkVal
      BY <2>3 DEF TypeOK
    <3> HIDE DEF D
    <3>2. k \in KeysOf(v, D) => /\ l2'[k].file = "full" /\ l2'[k].data = chnk[k].l1_data
                                /\ chnk'[k].l2_exists
      BY <3>1 DEF ChnkVal
    <3>3. k \notin KeysOf(v, D) => /\ chnk'[k].l2_exists = chnk[k].l2_exists
                                   /\ l2'[k] = l2[k]
      BY <3>1
    <3>4. chnk'[k].l1_mem = chnk[k].l1_mem /\ chnk'[k].l1_data = chnk[k].l1_data
      BY <3>1 DEF ChnkVal
    <3> QED BY <1>0, <2>2, <2>4, <3>2, <3>3, <3>4, WriteFares
  <2> QED BY <2>2, <2>5, CopiesFare
<1> QED BY <1>1, <1>2

(* unprefetch.                                                             *)
LEMMA UnprefetchFares ==
  ASSUME TypeOK, Unprefetch
  PROVE  \A u \in Uqids : Fares(u)
<1>1. PICK v \in Uqids, i \in ChnkIdxs : unprefetch(v, i)
  BY DEF Unprefetch
<1>2. PICK q \in Keys : q = <<v, i>>
  BY KeyParts
<1>3. PICK D : D = IF chnk[q].l2_exists THEN {} ELSE {i}
  OBVIOUS
<1> DEFINE h(k) == IF k \in KeysOf(v, D)
                   THEN [file |-> "full", data |-> chnk[k].l1_data] ELSE l2[k]
<1>4. /\ chnk[q].l1_mem /\ q \in chnks
      /\ chnk' = [chnk EXCEPT ![q].l1_mem = FALSE, ![q].l1_data = {},
                              ![q].l2_exists = TRUE]
      /\ l2' = L2With(v, D) /\ UNCHANGED <<vctrTable, chnks, lma>>
  BY <1>1, <1>2, <1>3, Zenon DEF unprefetch, chnk_is
<1>5. SameCounts /\ chnk \in [Keys -> ChnkVal]
  BY TierCounts, RowsCounts DEF TypeOK
<1>6. ASSUME NEW k \in Keys PROVE ChnkFares(k)
  <2>1. l2'[k] = h(k)
    BY <1>4 DEF L2With
  <2>2. k # q => chnk'[k] = chnk[k]
    BY <1>4, <1>5
  <2>3. chnk'[q].l1_mem = FALSE /\ chnk'[q].l2_exists = TRUE
    BY <1>4, <1>5 DEF ChnkVal
  <2>4. k \notin KeysOf(v, D) => chnk'[k].l2_exists = chnk[k].l2_exists
    <3>1. CASE k = q /\ ~chnk[q].l2_exists
      BY <1>2, <1>3, <3>1, KeyInKeysOf
    <3>2. CASE ~(k = q /\ ~chnk[q].l2_exists)
      BY <1>5, <2>2, <2>3, <3>2 DEF ChnkVal
    <3> QED BY <3>1, <3>2
  <2>5. \A j \in D : chnk_is(v, j) /\ chnk[<<v, j>>].l1_mem
    BY <1>2, <1>3, <1>4 DEF chnk_is
  <2>6. /\ k \in KeysOf(v, D) => l2'[k].file = "full" /\ l2'[k].data = chnk[k].l1_data
        /\ k \notin KeysOf(v, D) => l2'[k] = l2[k]
    BY <2>1
  <2>7. chnk'[k].l1_mem => chnk[k].l1_mem /\ chnk'[k].l1_data = chnk[k].l1_data
    BY <2>2, <2>3
  <2>8. k \in KeysOf(v, D) => chnk'[k].l2_exists
    <3>1. k \in KeysOf(v, D) => k[1] = v /\ k[2] \in D /\ k = <<v, k[2]>>
      BY KeyInKeysOf, KeyParts
    <3> QED BY <1>2, <1>3, <2>3, <3>1
  <2>9. chnk'[k].l1_mem = chnk[k].l1_mem \/ chnk'[k].l2_exists
    BY <2>2, <2>3
  <2> HIDE DEF h
  <2> QED BY <1>4, <1>5, <2>4, <2>5, <2>6, <2>7, <2>8, <2>9, WriteFares
<1> QED BY <1>4, <1>6, CopiesFare

(* vctr_lma_to_chnks(): RAM or files from the linear file.                 *)
LEMMA LmaToChnksFares ==
  ASSUME TypeOK, LmaToChnks
  PROVE  \A u \in Uqids : Fares(u)
<1>0. SameCounts /\ \A k \in Keys : chnk[k] \in ChnkVal
  BY TierCounts, RowsCounts DEF TypeOK
<1>1. PICK v \in Uqids, level \in 1..2 : vctr_lma_to_chnks(v, level)
  BY DEF LmaToChnks
<1> DEFINE Here(k) == FromLma(v, k[2])
<1>2. PICK L1, L2 :
        /\ \A i \in L2 : i \notin L1
        /\ \A i \in L1 \cup L2 : chnk_is(v, i)
        /\ chnk' = [k \in Keys |->
                      IF k \in KeysOf(v, L1)
                      THEN IF chnk[k].l2_exists THEN LoadL1(chnk[k], k)
                           ELSE [chnk[k] EXCEPT !.l1_mem = TRUE, !.l1_data = Here(k)]
                      ELSE IF k \in KeysOf(v, L2)
                      THEN [chnk[k] EXCEPT !.l2_exists = TRUE]
                      ELSE chnk[k]]
        /\ l2' = [k \in Keys |-> IF k \in KeysOf(v, L2)
                                 THEN [file |-> "full", data |-> Here(k)] ELSE l2[k]]
        /\ vctr[v].is_lma /\ vctr[v].num_writers = 0
        /\ UNCHANGED <<vctrTable, chnks, lma>>
  <2> DEFINE S == Run(0, NumChnks(vctr[v].num_elements) - 1, Present(v))
             L1 == {i \in S : ~chnk[<<v, i>>].l1_mem
                               /\ (chnk[<<v, i>>].l2_exists \/ level = 1)}
             L2 == {i \in S : ~chnk[<<v, i>>].l1_mem
                               /\ ~chnk[<<v, i>>].l2_exists /\ level = 2}
  <2>1. \A i \in L2 : i \notin L1
    OBVIOUS
  <2>2. \A i \in L1 \cup L2 : chnk_is(v, i)
    <3>1. S \subseteq Present(v)
      BY DEF Run
    <3> QED BY <3>1 DEF Present
  <2>3. /\ chnk' = [k \in Keys |->
                      IF k \in KeysOf(v, L1)
                      THEN IF chnk[k].l2_exists THEN LoadL1(chnk[k], k)
                           ELSE [chnk[k] EXCEPT !.l1_mem = TRUE, !.l1_data = Here(k)]
                      ELSE IF k \in KeysOf(v, L2)
                      THEN [chnk[k] EXCEPT !.l2_exists = TRUE]
                      ELSE chnk[k]]
        /\ l2' = [k \in Keys |-> IF k \in KeysOf(v, L2)
                                 THEN [file |-> "full", data |-> Here(k)] ELSE l2[k]]
        /\ vctr[v].is_lma /\ vctr[v].num_writers = 0
        /\ UNCHANGED <<vctrTable, chnks, lma>>
    BY <1>1, Zenon DEF vctr_lma_to_chnks
  <2> HIDE DEF S, L1, L2, Here
  <2> QED BY <2>1, <2>2, <2>3, Zenon
<1>3. ASSUME NEW k \in Keys PROVE ChnkFares(k)
  <2>0. /\ \A i \in L2 : i \notin L1
        /\ \A i \in L1 \cup L2 : chnk_is(v, i)
        /\ vctr[v].is_lma /\ ~(vctr[v].num_writers > 0)
    <3>1. vctr[v].num_writers = 0
      BY <1>2, Zenon
    <3>2. ~(vctr[v].num_writers > 0)
      BY <3>1
    <3>3. /\ \A i \in L2 : i \notin L1
          /\ \A i \in L1 \cup L2 : chnk_is(v, i)
          /\ vctr[v].is_lma
      BY <1>2, Zenon
    <3> QED BY <3>2, <3>3, Zenon
  <2>1. k[1] = v /\ Sure(k) => Filled(chnk[k]) \subseteq Here(k)
    <3> SUFFICES ASSUME k[1] = v, Sure(k), NEW s \in Filled(chnk[k])
                 PROVE  s \in Here(k)
      OBVIOUS
    <3>1. <<k[2], s>> \in lma[v].data
      BY <1>2 DEF Sure, Copies
    <3>2. k = <<v, k[2]>>
      BY KeyParts
    <3> QED BY <3>1, <3>2 DEF FromLma
  <2> HIDE DEF Here
  <2>2. PICK a, e : a = Here(k) /\ e = l2[k].data
    OBVIOUS
  <2>3. k \in KeysOf(v, L1) \/ k \in KeysOf(v, L2) =>
          k[1] = v /\ k \in chnks /\ vctr[k[1]].is_lma /\ ~(vctr[k[1]].num_writers > 0)
    <3> SUFFICES ASSUME k \in KeysOf(v, L1) \/ k \in KeysOf(v, L2)
                 PROVE  /\ k[1] = v /\ k \in chnks /\ vctr[k[1]].is_lma
                        /\ ~(vctr[k[1]].num_writers > 0)
      OBVIOUS
    <3>1. k[1] = v /\ k[2] \in L1 \cup L2 /\ k = <<v, k[2]>>
      BY KeyInKeysOf, KeyParts
    <3> QED BY <2>0, <3>1 DEF chnk_is
  <2>4. CASE k \in KeysOf(v, L1)
    <3>1. k \notin KeysOf(v, L2)
      BY <2>0, <2>4, KeyInKeysOf
    <3>2. chnk'[k] = IF chnk[k].l2_exists
                     THEN [chnk[k] EXCEPT !.l1_mem = TRUE, !.l1_data = e]
                     ELSE [chnk[k] EXCEPT !.l1_mem = TRUE, !.l1_data = a]
      BY <1>2, <2>2, <2>4 DEF LoadL1
    <3>3. /\ chnk'[k].l2_exists = chnk[k].l2_exists /\ l2'[k] = l2[k]
          /\ chnk'[k].l1_data = IF chnk[k].l2_exists THEN e ELSE a
      BY <1>0, <1>2, <3>1, <3>2 DEF ChnkVal
    <3>4. ASSUME Sure(k) PROVE SureStays(k)
      <4>1. /\ chnk'[k].l1_mem => Filled(chnk[k]) \subseteq chnk'[k].l1_data
            /\ chnk'[k].l2_exists => /\ l2'[k].file = "full"
                                     /\ Filled(chnk[k]) \subseteq l2'[k].data
        BY <2>1, <2>2, <2>3, <2>4, <3>3, <3>4 DEF Sure, Copies
      <4> QED BY <1>0, <1>2, <2>3, <2>4, <3>3, <3>4, <4>1, SureMade
    <3> QED BY <3>3, <3>4 DEF ChnkFares
  <2>5. CASE k \notin KeysOf(v, L1) /\ k \in KeysOf(v, L2)
    <3>1. /\ chnk'[k] = [chnk[k] EXCEPT !.l2_exists = TRUE]
          /\ l2'[k] = [file |-> "full", data |-> a]
      BY <1>2, <2>2, <2>5
    <3>2. /\ chnk'[k].l1_mem = chnk[k].l1_mem /\ chnk'[k].l1_data = chnk[k].l1_data
          /\ chnk'[k].l2_exists
      BY <1>0, <3>1 DEF ChnkVal
    <3>3. l2'[k].file = "full" /\ l2'[k].data = a
      BY <3>1
    <3>4. ASSUME Sure(k) PROVE SureStays(k)
      <4>1. /\ chnk'[k].l1_mem => Filled(chnk[k]) \subseteq chnk'[k].l1_data
            /\ chnk'[k].l2_exists => /\ l2'[k].file = "full"
                                     /\ Filled(chnk[k]) \subseteq l2'[k].data
        BY <2>1, <2>2, <2>3, <2>5, <3>2, <3>3, <3>4 DEF Sure, Copies
      <4> QED BY <1>0, <1>2, <2>3, <2>5, <3>2, <3>4, <4>1, SureMade
    <3> QED BY <2>3, <2>5, <3>4 DEF ChnkFares
  <2>6. CASE k \notin KeysOf(v, L1) /\ k \notin KeysOf(v, L2)
    BY <1>2, <2>6, SureSame
  <2> QED BY <2>4, <2>5, <2>6
<1> QED BY <1>2, <1>3, CopiesFare

-----------------------------------------------------------------------------
(* Operations on one vector: the others are left apart.                    *)

(* A step that stores the row of v and leaves others' chunks and files     *)
(* alone.                                                                  *)
LEMMA OthersApart ==
  ASSUME TypeOK, NEW v \in Uqids, NEW y, vctr' = [vctr EXCEPT ![v] = y],
         \A u \in Uqids \ {v} : (u \in vctrs' <=> u \in vctrs) /\ lma'[u] = lma[u],
         \A k \in Keys : k[1] # v =>
           (k \in chnks' <=> k \in chnks) /\ chnk'[k] = chnk[k] /\ l2'[k] = l2[k]
  PROVE  \A u \in Uqids \ {v} : Fares(u)
<1> SUFFICES ASSUME NEW u \in Uqids \ {v} PROVE Apart(u)
  BY ApartFares
<1>1. vctr'[u] = vctr[u] /\ vctr[u] \in VctrVal
  BY DEF TypeOK
<1>2. Keeps(vctr[u], vctr'[u])
  BY <1>1, FieldsKeep
<1>3. RowLasts(vctr[u], vctr'[u])
  BY <1>1, <1>2 DEF RowLasts
<1> QED BY <1>3 DEF Apart

(* A vector that is there and not steady has nothing to lose.              *)
LEMMA UnsteadyFares ==
  ASSUME NEW v \in vctrs,
         ~vctr[v].is_persist \/ ~vctr[v].is_eov \/ ~(vctr[v].num_elements > 0)
  PROVE  Fares(v)
  BY DEF Fares, Steady

(* get_lma_write(): a careful client calls it only when no chunk of a      *)
(* persisted vector has a file.                                            *)
LEMMA GetLmaWriteFares ==
  ASSUME TypeOK, CarefulClient, GetLmaWrite
  PROVE  \A u \in Uqids : Fares(u)
<1>1. PICK v \in Uqids : get_lma_write(v)
  BY DEF GetLmaWrite
<1>2. PICK S, L2 : S = DropRun(v) /\ L2 = {i \in S : chnk[<<v, i>>].l2_exists}
  OBVIOUS
<1>3. /\ v \in vctrs /\ vctr[v].is_lma /\ vctr[v].num_writers = 0
      /\ vctr' = IF vctr[v].X THEN vctr
                 ELSE [vctr EXCEPT ![v].X = TRUE, ![v].num_writers = 1]
      /\ chnk' = [k \in Keys |->
                    IF k \in KeysOf(v, S)
                    THEN [chnk[k] EXCEPT !.l1_mem = FALSE, !.l1_data = {},
                                         !.l2_exists = FALSE]
                    ELSE chnk[k]]
      /\ l2' = [k \in Keys |-> IF k \in KeysOf(v, L2) THEN NoFile ELSE l2[k]]
      /\ UNCHANGED <<vctrs, chnks, lma>>
  BY <1>1, <1>2, Zenon DEF get_lma_write
<1>4. PICK y : y = vctr'[v]
  OBVIOUS
<1>5. vctr[v] \in VctrVal /\ vctr \in [Uqids -> VctrVal] /\ \A k \in Keys : chnk[k] \in ChnkVal
  BY DEF TypeOK
<1>6. vctr' = [vctr EXCEPT ![v] = y]
  BY <1>3, <1>4, <1>5
<1>7. /\ y.is_persist = vctr[v].is_persist /\ y.is_eov = vctr[v].is_eov
      /\ y.num_elements = vctr[v].num_elements /\ y.min_chnk_idx = vctr[v].min_chnk_idx
      /\ y.max_chnk_idx = vctr[v].max_chnk_idx /\ y.is_lma
  BY <1>3, <1>4, <1>5 DEF VctrVal
<1>8. \A k \in Keys : k[1] # v => chnk'[k] = chnk[k] /\ l2'[k] = l2[k]
  BY <1>3, KeyInKeysOf
<1>9. \A u \in Uqids \ {v} : Fares(u)
  BY <1>3, <1>6, <1>8, OthersApart
<1>10. ASSUME Steady(v) PROVE Lasts(v)
  <2>1. \A k \in RowKeys(vctr[v], v) : k \in Keys /\ k[1] = v /\ k[2] \in Idxs(vctr[v]) /\ Sure(k)
    BY <1>10 DEF RowKeys, Steady
  <2>2. ASSUME NEW k \in RowKeys(vctr[v], v) PROVE k[2] \in S
    <3>1. ASSUME NEW j \in vctr[v].min_chnk_idx .. k[2]
          PROVE  j \in {i \in ChnkIdxs : chnk_is(v, i)}
      <4>1. j \in Idxs(vctr[v]) /\ j \in ChnkIdxs
        <5>1. Idxs(vctr[v]) \subseteq ChnkIdxs
          BY <1>10 DEF Steady
        <5>2. j \in Idxs(vctr[v])
          BY <1>5, <2>1 DEF Idxs, VctrVal
        <5> QED BY <5>1, <5>2
      <4>2. <<v, j>> \in RowKeys(vctr[v], v)
        BY <4>1, KeyParts DEF RowKeys
      <4> QED BY <2>1, <4>1, <4>2 DEF Sure, chnk_is
    <3> QED BY <1>2, <2>1, <3>1 DEF DropRun, Run, Idxs
  <2>3. ASSUME NEW k \in RowKeys(vctr[v], v) PROVE SureStays(k)
    <3>1. k \in KeysOf(v, S)
      BY <2>1, <2>2, KeyInKeysOf
    <3>2. /\ ~chnk'[k].l1_mem /\ ~chnk'[k].l2_exists
          /\ chnk'[k].num_elements = chnk[k].num_elements
      BY <1>3, <1>5, <2>1, <3>1 DEF ChnkVal
    <3>3. ~chnk[k].l2_exists
      <4> SUFFICES ASSUME chnk[k].l2_exists PROVE FALSE
        OBVIOUS
      <4>1. k = <<v, k[2]>> /\ k[2] \in L2
        BY <1>2, <2>1, <2>2, KeyParts
      <4>2. l2'[k].file = "none"
        BY <1>3, <2>1, <4>1, KeyInKeysOf DEF NoFile
      <4>3. k \in chnks /\ vctr[k[1]].is_persist /\ l2[k].file = "full"
        BY <1>10, <2>1 DEF Sure, Copies, Steady
      <4> QED BY <4>2, <4>3 DEF CarefulClient
    <3>4. Filled(chnk'[k]) = Filled(chnk[k])
      BY <3>2 DEF Filled
    <3>5. {k[2]} \X Filled(chnk'[k]) \subseteq lma'[k[1]].data
      BY <1>3, <2>1, <3>4 DEF Sure, Copies
    <3>6. Copies(k)'
      BY <3>2, <3>5, Zenon DEF Copies
    <3>7. vctr'[k[1]].is_lma /\ k \in chnks'
      BY <1>3, <1>4, <1>7, <2>1 DEF Sure
    <3>8. Sure(k)'
      BY <3>2, <3>6, <3>7, Zenon DEF Sure
    <3> QED BY <3>2, <3>3, <3>8 DEF SureStays
  <2> QED BY <1>3, <1>4, <1>7, <1>10, <2>3, LastsFrom DEF Steady
<1>11. Fares(v)
  BY <1>3, <1>10 DEF Fares
<1> QED BY <1>9, <1>11

(* vctr_unget_lma_write(): what the writer was alone with is current.      *)
LEMMA UngetLmaWriteFares ==
  ASSUME TypeOK, UngetLmaWrite
  PROVE  \A u \in Uqids : Fares(u)
<1>1. PICK v \in Uqids : vctr_unget_lma_write(v)
  BY DEF UngetLmaWrite
<1>2. PICK y : y = [vctr[v] EXCEPT !.num_writers = 0, !.X = FALSE]
  OBVIOUS
<1>3. /\ v \in vctrs /\ vctr[v].is_lma /\ vctr[v].num_writers = 1
      /\ vctr' = [vctr EXCEPT ![v] = y]
      /\ chnk' = [k \in Keys |-> IF k[1] = v THEN [chnk[k] EXCEPT !.l1_data = {}]
                                ELSE chnk[k]]
      /\ l2' = [k \in Keys |-> IF k[1] = v THEN [l2[k] EXCEPT !.data = {}] ELSE l2[k]]
      /\ UNCHANGED <<vctrs, chnks, lma>>
  BY <1>1, <1>2 DEF vctr_unget_lma_write
<1>4. vctr[v] \in VctrVal /\ \A k \in Keys : chnk[k] \in ChnkVal
  BY DEF TypeOK
<1>5. /\ y.is_persist = vctr[v].is_persist /\ y.is_eov = vctr[v].is_eov
      /\ y.num_elements = vctr[v].num_elements /\ y.min_chnk_idx = vctr[v].min_chnk_idx
      /\ y.max_chnk_idx = vctr[v].max_chnk_idx /\ y.is_lma = vctr[v].is_lma
      /\ y.num_writers = 0
  BY <1>2, <1>4 DEF VctrVal
<1>6. vctr'[v] = y
  BY <1>3 DEF TypeOK
<1>7. \A u \in Uqids \ {v} : Fares(u)
  <2>1. \A k \in Keys : k[1] # v => chnk'[k] = chnk[k] /\ l2'[k] = l2[k]
    BY <1>3
  <2> QED BY <1>3, <2>1, OthersApart
<1>8. ASSUME Steady(v) PROVE Lasts(v)
  <2>1. ASSUME NEW k \in RowKeys(vctr[v], v) PROVE SureStays(k)
    <3>1. k \in Keys /\ k[1] = v /\ Sure(k)
      BY <1>8 DEF RowKeys, Steady
    <3>2. ~chnk[k].l1_mem /\ ~chnk[k].l2_exists
      BY <1>3, <3>1 DEF Sure
    <3>3. /\ chnk'[k].l1_mem = chnk[k].l1_mem /\ chnk'[k].l2_exists = chnk[k].l2_exists
          /\ chnk'[k].num_elements = chnk[k].num_elements
      BY <1>3, <1>4, <3>1 DEF ChnkVal
    <3>4. k \in chnks'
      BY <1>3, <3>1 DEF Sure
    <3> QED BY <1>3, <1>5, <1>6, <3>1, <3>2, <3>3, <3>4, SureFrom
  <2> QED BY <1>3, <1>5, <1>6, <1>8, <2>1, LastsFrom DEF Steady
<1>9. Fares(v)
  BY <1>3, <1>8 DEF Fares
<1> QED BY <1>7, <1>9

(* vctr_chnks_to_lma(): the linear file counts once all chunks are in it.  *)
LEMMA ChnksToLmaFares ==
  ASSUME TypeOK, ChnksToLma
  PROVE  \A u \in Uqids : Fares(u)
<1>1. PICK v \in Uqids : vctr_chnks_to_lma(v)
  BY DEF ChnksToLma
<1>2. PICK S, y, F :
        /\ S = Run(0, vctr[v].max_chnk_idx, FillsLma(v))
        /\ y = [vctr[v] EXCEPT !.is_lma = (S = 0..vctr[v].max_chnk_idx)]
        /\ F = {p \in ChnkIdxs \X Slots : p[1] \in S /\ p[2] \in Given(v, p[1])}
  OBVIOUS
<1>3. /\ v \in vctrs /\ ~vctr[v].is_lma /\ vctr[v].num_elements > 0
      /\ vctr[v].num_writers = 0
      /\ lma' = [lma EXCEPT ![v] = [size |-> vctr[v].num_elements, data |-> F]]
      /\ vctr' = [vctr EXCEPT ![v] = y]
      /\ UNCHANGED <<vctrs, chnks, chnk, l2>>
  BY <1>1, <1>2, Zenon DEF vctr_chnks_to_lma, chnkTable
<1>4. vctr[v] \in VctrVal /\ \A k \in Keys : chnk[k] \in ChnkVal
  BY DEF TypeOK
<1>5. /\ y.is_persist = vctr[v].is_persist /\ y.is_eov = vctr[v].is_eov
      /\ y.num_elements = vctr[v].num_elements /\ y.min_chnk_idx = vctr[v].min_chnk_idx
      /\ y.max_chnk_idx = vctr[v].max_chnk_idx
      /\ y.is_lma <=> S = 0..vctr[v].max_chnk_idx
      /\ y.num_writers = 0
  BY <1>2, <1>3, <1>4 DEF VctrVal
<1>6. vctr'[v] = y /\ lma'[v].size > 0 /\ lma'[v].data = F
  BY <1>3 DEF TypeOK
<1>7. \A u \in Uqids \ {v} : Fares(u)
  <2>1. \A u \in Uqids \ {v} : lma'[u] = lma[u]
    BY <1>3 DEF TypeOK
  <2> QED BY <1>3, <2>1, OthersApart
<1>8. ASSUME Steady(v) PROVE Lasts(v)
  <2>1. ASSUME NEW k \in RowKeys(vctr[v], v) PROVE SureStays(k)
    <3>1. k \in Keys /\ k[1] = v /\ k[2] \in Idxs(vctr[v]) /\ Sure(k)
      BY <1>8 DEF RowKeys, Steady
    <3>2. k = <<v, k[2]>> /\ k[2] \in ChnkIdxs
      BY <3>1, KeyParts
    <3>3. ASSUME y.is_lma PROVE {k[2]} \X Filled(chnk[k]) \subseteq F
      <4>1. k[2] \in S
        <5>1. vctr[v].min_chnk_idx \in Nat /\ vctr[v].max_chnk_idx \in Nat
          BY <1>4 DEF VctrVal
        <5>2. k[2] \in 0..vctr[v].max_chnk_idx
          BY <3>1, <5>1 DEF Idxs
        <5> QED BY <1>5, <3>3, <5>2
      <4>2. k[2] \in FillsLma(v)
        <5>1. vctr[v].max_chnk_idx \in Int
          BY <1>4 DEF VctrVal
        <5> QED BY <1>2, <4>1, <5>1, RunInOk
      <4>3. chnk[k].l1_mem \/ chnk[k].l2_exists
        BY <3>2, <4>2 DEF FillsLma
      <4>4. /\ chnk[k].l1_mem => Filled(chnk[k]) \subseteq chnk[k].l1_data
            /\ chnk[k].l2_exists => Filled(chnk[k]) \subseteq l2[k].data
        BY <3>1 DEF Sure, Copies
      <4>5. Filled(chnk[k]) \subseteq (IF chnk[k].l1_mem THEN chnk[k].l1_data ELSE l2[k].data)
        BY <4>3, <4>4
      <4>6. Filled(chnk[k]) \subseteq Given(v, k[2])
        BY <3>2, <4>5 DEF Given
      <4>7. Filled(chnk[k]) \subseteq Slots
        <5>1. chnk[k].l1_data \subseteq Slots /\ l2[k].data \subseteq Slots
          BY <3>1 DEF TypeOK, ChnkVal, L2File
        <5> QED BY <4>5, <5>1
      <4> QED BY <1>2, <3>2, <4>1, <4>6, <4>7
    <3>4. Copies(k)'
      <4>1. /\ chnk[k].l1_mem => Filled(chnk[k]) \subseteq chnk[k].l1_data
            /\ chnk[k].l2_exists => /\ l2[k].file = "full"
                                    /\ Filled(chnk[k]) \subseteq l2[k].data
        BY <3>1 DEF Sure, Copies
      <4>2. vctr'[k[1]].is_lma => {k[2]} \X Filled(chnk'[k]) \subseteq lma'[k[1]].data
        BY <1>3, <1>6, <3>1, <3>3
      <4>3. chnk' = chnk /\ l2' = l2
        BY <1>3
      <4>4. /\ chnk'[k].l1_mem => Filled(chnk'[k]) \subseteq chnk'[k].l1_data
            /\ chnk'[k].l2_exists => /\ l2'[k].file = "full"
                                     /\ Filled(chnk'[k]) \subseteq l2'[k].data
        BY <4>1, <4>3
      <4> QED BY <4>2, <4>4, Zenon DEF Copies
    <3>5. /\ k \in chnks'
          /\ chnk'[k].l1_mem \/ chnk'[k].l2_exists \/ vctr'[k[1]].is_lma
          /\ ~(vctr'[k[1]].num_writers > 0)
      BY <1>3, <1>5, <1>6, <3>1 DEF Sure
    <3>6. Sure(k)'
      BY <3>4, <3>5, Zenon DEF Sure
    <3> QED BY <1>3, <3>6 DEF SureStays
  <2> QED BY <1>3, <1>5, <1>6, <1>8, <2>1, LastsFrom DEF Steady
<1>9. Fares(v)
  BY <1>3, <1>8 DEF Fares
<1> QED BY <1>7, <1>9

(* drop_mem(3): a careful client does not, if the vector is persisted.     *)
LEMMA DropLmaFares ==
  ASSUME TypeOK, CarefulClient, DropLma
  PROVE  \A u \in Uqids : Fares(u)
<1>1. PICK v \in Uqids : drop_lma(v)
  BY DEF DropLma
<1>2. PICK y : y = [vctr[v] EXCEPT !.is_lma = FALSE]
  OBVIOUS
<1>3. /\ v \in vctrs /\ vctr[v].is_lma
      /\ vctr' = [vctr EXCEPT ![v] = y] /\ lma' = [lma EXCEPT ![v] = NoLma]
      /\ UNCHANGED <<vctrs, chnks, chnk, l2>>
  BY <1>1, <1>2 DEF drop_lma, chnkTable
<1>4. \A u \in Uqids \ {v} : lma'[u] = lma[u]
  BY <1>3 DEF TypeOK
<1>5. lma'[v].size = 0
  BY <1>3 DEF TypeOK, NoLma
<1>6. ~Steady(v)
  BY <1>3, <1>5 DEF Steady, CarefulClient
<1> QED BY <1>3, <1>4, <1>6, OthersApart DEF Fares

(* vctr_append(): the linear file grows, chunks stay as they are.          *)
LEMMA AppendFares ==
  ASSUME TypeOK, Append
  PROVE  \A u \in Uqids : Fares(u)
<1>1. PICK v, s \in Uqids : vctr_append(v, s)
  BY DEF Append
<1>2. PICK n, y, F :
        /\ n = vctr[v].num_elements + vctr[s].num_elements
        /\ y = [vctr[v] EXCEPT !.num_elements = n]
        /\ F = {p \in ChnkIdxs \X Slots :
                  p[1] * MaxNumInChnk + p[2] \in
                    lma[v].size .. (lma[v].size + vctr[s].num_elements - 1)}
  OBVIOUS
<1>3. /\ v \in vctrs /\ vctr[v].is_lma /\ vctr[v].num_writers = 0
      /\ vctr[s].num_elements > 0
      /\ vctr' = [vctr EXCEPT ![v] = y]
      /\ lma' = [lma EXCEPT ![v] = [size |-> lma[v].size + lma[s].size,
                                    data |-> lma[v].data \cup F]]
      /\ UNCHANGED <<vctrs, chnks, chnk, l2>>
  BY <1>1, <1>2 DEF vctr_append, chnkTable
<1>4. vctr[v] \in VctrVal /\ vctr[s] \in VctrVal /\ lma[v] \in LmaFile /\ lma[s] \in LmaFile
  BY DEF TypeOK
<1>5. /\ y.is_persist = vctr[v].is_persist /\ y.is_eov = vctr[v].is_eov
      /\ y.num_elements > 0 /\ y.min_chnk_idx = vctr[v].min_chnk_idx
      /\ y.max_chnk_idx = vctr[v].max_chnk_idx /\ y.is_lma = vctr[v].is_lma
      /\ y.num_writers = vctr[v].num_writers
  <2>1. n > 0
    <3>1. vctr[v].num_elements \in Nat /\ vctr[s].num_elements \in Nat
      BY <1>4 DEF VctrVal
    <3> QED BY <1>2, <1>3, <3>1
  <2>2. y.num_elements = n
    BY <1>2, <1>4 DEF VctrVal
  <2>3. /\ y.is_persist = vctr[v].is_persist /\ y.is_eov = vctr[v].is_eov
        /\ y.min_chnk_idx = vctr[v].min_chnk_idx
        /\ y.max_chnk_idx = vctr[v].max_chnk_idx /\ y.is_lma = vctr[v].is_lma
        /\ y.num_writers = vctr[v].num_writers
    BY <1>2, <1>4 DEF VctrVal
  <2> QED BY <2>1, <2>2, <2>3
<1>6. /\ vctr'[v] = y /\ lma'[v].size = lma[v].size + lma[s].size
      /\ lma'[v].data = lma[v].data \cup F
  BY <1>3 DEF TypeOK
<1>7. \A u \in Uqids \ {v} : lma'[u] = lma[u]
  BY <1>3 DEF TypeOK
<1>8. ASSUME Steady(v) PROVE Lasts(v)
  <2>1. ASSUME NEW k \in RowKeys(vctr[v], v) PROVE SureStays(k)
    <3>1. k \in Keys /\ k[1] = v /\ Sure(k)
      BY <1>8 DEF RowKeys, Steady
    <3>2. /\ lma[k[1]].data \subseteq lma'[k[1]].data
          /\ chnk'[k] = chnk[k] /\ l2'[k] = l2[k] /\ k \in chnks'
          /\ vctr'[k[1]].is_lma = vctr[k[1]].is_lma
          /\ vctr'[k[1]].num_writers = vctr[k[1]].num_writers
      BY <1>3, <1>5, <1>6, <3>1 DEF Sure
    <3> QED BY <3>1, <3>2, SureFrom DEF Sure, Copies
  <2>2. lma'[v].size > 0
    BY <1>3, <1>4, <1>6, <1>8 DEF Steady, LmaFile
  <2> QED BY <1>3, <1>5, <1>6, <1>8, <2>1, <2>2, LastsFrom DEF Steady
<1>9. Fares(v)
  BY <1>3, <1>8 DEF Fares
<1> QED BY <1>3, <1>7, <1>9, OthersApart

-----------------------------------------------------------------------------
(* Growth, and early_free: they are of vectors that are not steady.        *)

(* A put, stored after memo.                                               *)
LEMMA StoreFares ==
  ASSUME TypeOK, NEW v \in vctrs, ~vctr[v].is_eov, NEW x \in VctrVal,
         NEW keys, keys \subseteq Keys, NEW c \in [Keys -> ChnkVal], NEW e, NEW m,
         StoreWithMemo(v, x, e, keys, c, m), UNCHANGED <<vctrs, lma>>,
         \A k \in Keys : k[1] # v => (k \in keys <=> k \in chnks) /\ c[k] = chnk[k]
  PROVE  \A u \in Uqids : Fares(u)
<1>1. v \in Uqids
  BY DEF TypeOK
<1>2. PICK y : vctr' = [vctr EXCEPT ![v] = y]
  BY Zenon DEF StoreWithMemo
<1>3. \A k \in Keys : k[1] # v =>
        (k \in chnks' <=> k \in chnks) /\ chnk'[k] = chnk[k] /\ l2'[k] = l2[k]
  BY <1>1, MemoLeaves
<1>4. \A u \in Uqids \ {v} : Fares(u)
  BY <1>1, <1>2, <1>3, OthersApart
<1> QED BY <1>4, UnsteadyFares

(* vctr_eov().                                                             *)
LEMMA EovFares ==
  ASSUME TypeOK, VctrEov
  PROVE  \A u \in Uqids : Fares(u)
<1>1. PICK v \in Uqids : vctr_eov(v)
  BY DEF VctrEov
<1>2. /\ v \in vctrs /\ ~vctr[v].is_eov
      /\ StoreWithMemo(v, vctr[v], ~MemoFails(chnks, chnk, v, vctr[v]), chnks, chnk, mem_used)
      /\ UNCHANGED <<vctrs, lma>>
  BY <1>1 DEF vctr_eov
<1>3. vctr[v] \in VctrVal /\ chnks \subseteq Keys /\ chnk \in [Keys -> ChnkVal]
  BY DEF TypeOK
<1> QED BY <1>2, <1>3, StoreFares

(* vctr_put1() and vctr_putn().                                            *)
LEMMA PutnFares ==
  ASSUME TypeOK, VctrPutn
  PROVE  \A u \in Uqids : Fares(u)
<1>1. PICK v \in Uqids, n \in 1..(MaxNumInChnk + 1) : vctr_putn(v, n)
  BY DEF VctrPutn
<1>2. v \in vctrs /\ ~vctr[v].is_eov /\ UNCHANGED <<vctrs, lma>>
  BY <1>1, Zenon DEF vctr_putn
<1>3. PICK y, keys, c, m :
           /\ StoreWithMemo(v, y, FALSE, keys, c, m)
           /\ y \in VctrVal /\ keys \subseteq Keys /\ c \in [Keys -> ChnkVal]
           /\ \A k \in Keys :
                /\ k \in keys <=> \/ k \in chnks
                                  \/ /\ k[1] = v
                                     /\ SlotsFor(k[2], vctr[v].num_elements, n) # {}
                /\ Filled_n(c, v, n, k)
  BY <1>1, PutnShape
<1>4. \A k \in Keys : k[1] # v => (k \in keys <=> k \in chnks) /\ c[k] = chnk[k]
  BY <1>3, Zenon DEF Filled_n
<1>5. /\ StoreWithMemo(v, y, FALSE, keys, c, m)
      /\ y \in VctrVal /\ keys \subseteq Keys /\ c \in [Keys -> ChnkVal]
  BY <1>3
<1> QED BY <1>2, <1>4, <1>5, StoreFares

(* vctr_put_chunk().                                                       *)
LEMMA PutChunkFares ==
  ASSUME TypeOK, VctrPutChunk
  PROVE  \A u \in Uqids : Fares(u)
<1>1. PICK v \in Uqids, n \in 1..MaxNumInChnk, s \in Steals : vctr_put_chunk(v, n, s)
  BY DEF VctrPutChunk
<1> DEFINE x == vctr[v]
           i == IF x.num_elements = 0 THEN 0 ELSE x.max_chnk_idx + 1
           y == [x EXCEPT !.num_elements = @ + n, !.max_chnk_idx = i]
           f == [FreshChnk(x) EXCEPT !.num_elements = n, !.l1_data = 0..(n - 1)]
           keys == chnks \cup {<<v, i>>}
           c == [chnk EXCEPT ![<<v, i>>] = f]
           m == IF s THEN mem_used ELSE incr_mem_used(mem_used, 1)
           e == n < MaxNumInChnk /\ ~MemoFails(keys, c, v, y)
<1>2. /\ v \in vctrs /\ ~x.is_eov /\ i \in ChnkIdxs
      /\ \/ StoreWithMemo(v, x, FALSE, chnks, chnk, mem_used)
         \/ StoreWithMemo(v, y, e, keys, c, m)
      /\ UNCHANGED <<vctrs, lma>>
  BY <1>1, Zenon DEF vctr_put_chunk
<1>3. x \in VctrVal /\ chnks \subseteq Keys /\ chnk \in [Keys -> ChnkVal]
  BY DEF TypeOK
<1>4. CASE StoreWithMemo(v, x, FALSE, chnks, chnk, mem_used)
  BY <1>2, <1>3, <1>4, StoreFares
<1>5. CASE StoreWithMemo(v, y, e, keys, c, m)
  <2>1. keys \subseteq Keys /\ <<v, i>>[1] = v
    BY <1>2, <1>3 DEF Keys
  <2>2. f \in ChnkVal
    <3>1. 0..(n - 1) \in SUBSET Slots
      BY BoundsAssumption DEF BoundsAssumption, Slots
    <3>2. n \in Nat
      OBVIOUS
    <3> QED BY <1>3, <3>1, <3>2, FreshChnkType, ChnkFieldTypes
  <2>3. y \in VctrVal
    <3>1. x.num_elements + n \in Nat /\ i \in Nat
      BY <1>2, <1>3 DEF VctrVal, ChnkIdxs
    <3> HIDE DEF i
    <3> QED BY <1>3, <3>1, VctrFieldTypes
  <2> HIDE DEF x, i, y, f, m, e
  <2>4. c \in [Keys -> ChnkVal]
    BY <1>3, <2>2
  <2>5. \A k \in Keys : k[1] # v => (k \in keys <=> k \in chnks) /\ c[k] = chnk[k]
    BY <1>3, <2>1
  <2> HIDE DEF keys, c
  <2> QED BY <1>2, <1>5, <2>1, <2>3, <2>4, <2>5, StoreFares DEF x
<1> QED BY <1>2, <1>4, <1>5

(* vctr_early_free().                                                      *)
LEMMA EarlyFreeFares ==
  ASSUME TypeOK, VctrEarlyFree
  PROVE  \A u \in Uqids : Fares(u)
<1>0. PICK v \in Uqids : \E ub \in EarlyFreeArgs(v) : vctr_early_free(v, ub)
  BY DEF VctrEarlyFree
<1>1. PICK ub \in EarlyFreeArgs(v) : vctr_early_free(v, ub)
  BY <1>0
<1>2. v \in vctrs /\ ~vctr[v].is_eov /\ UNCHANGED <<vctrs, lma>>
  BY <1>1, Zenon DEF vctr_early_free
<1>3. PICK D, top : EarlyFreed(v, D, top)
  BY <1>1, EarlyFreeShape DEF EarlyFreeArgs
<1>4. PICK y : vctr' = [vctr EXCEPT ![v] = y]
  BY <1>3 DEF EarlyFreed
<1>5. \A k \in Keys : k[1] # v =>
        (k \in chnks' <=> k \in chnks) /\ chnk'[k] = chnk[k] /\ l2'[k] = l2[k]
  BY <1>3 DEF EarlyFreed
<1> QED BY <1>2, <1>4, <1>5, OthersApart, UnsteadyFares

(* vctr_set_lma().                                                         *)
LEMMA SetLmaFares ==
  ASSUME TypeOK, SetLma
  PROVE  \A u \in Uqids : Fares(u)
<1>1. PICK v \in Uqids, n \in 1..MaxElems : vctr_set_lma(v, n)
  BY DEF SetLma
<1>2. PICK low, top : LmaSet(v, n, low, top)
  BY <1>1, SetLmaShape
<1>3. PICK f : lma' = [lma EXCEPT ![v] = f]
  BY <1>1, Zenon DEF vctr_set_lma
<1>4. v \in vctrs /\ vctr[v].num_elements = 0 /\ UNCHANGED <<vctrs, l2>>
  BY <1>1, Zenon DEF vctr_set_lma
<1>5. PICK y : vctr' = [vctr EXCEPT ![v] = y]
  BY <1>2 DEF LmaSet
<1>6. \A k \in Keys : k[1] # v =>
        (k \in chnks' <=> k \in chnks) /\ chnk'[k] = chnk[k] /\ l2'[k] = l2[k]
  BY <1>2, <1>4 DEF LmaSet
<1>7. \A u \in Uqids \ {v} : lma'[u] = lma[u]
  BY <1>3 DEF TypeOK
<1>8. ~(vctr[v].num_elements > 0)
  BY <1>4
<1> QED BY <1>4, <1>5, <1>6, <1>7, <1>8, OthersApart, UnsteadyFares

(* vctr_set_lma() failing.                                                 *)
LEMMA SetLmaFailsFares ==
  ASSUME TypeOK, SetLmaFails
  PROVE  \A u \in Uqids : Fares(u)
<1>1. PICK v \in Uqids, n \in 1..MaxElems : set_lma_fails(v, n)
  BY DEF SetLmaFails
<1>2. /\ v \in vctrs /\ vctr[v].num_elements = 0
      /\ UNCHANGED <<vctrs, vctr, chnks, chnk, l2>>
      /\ lma' = lma \/ lma' = [lma EXCEPT ![v] = [size |-> n, data |-> {}]]
  BY <1>1, Zenon DEF set_lma_fails, vctrTable, chnkTable
<1>3. PICK y : y = vctr[v]
  OBVIOUS
<1>4. vctr' = [vctr EXCEPT ![v] = y]
  BY <1>2, <1>3 DEF TypeOK
<1>5. \A k \in Keys : k[1] # v =>
        (k \in chnks' <=> k \in chnks) /\ chnk'[k] = chnk[k] /\ l2'[k] = l2[k]
  BY <1>2
<1>6. \A u \in Uqids \ {v} : lma'[u] = lma[u]
  BY <1>2 DEF TypeOK
<1>7. ~(vctr[v].num_elements > 0)
  BY <1>2
<1> QED BY <1>2, <1>4, <1>5, <1>6, <1>7, OthersApart, UnsteadyFares

(* New vectors, with new uqids.                                            *)
LEMMA AddFares ==
  ASSUME TypeOK, VctrAdd \/ AddWithNn
  PROVE  \A u \in Uqids : u <= g_vctr_uqid => Fares(u)
<1>1. /\ UNCHANGED <<chnks, chnk, l2, lma>>
      /\ \E N : /\ \A u \in N : u > g_vctr_uqid
                /\ vctrs' = vctrs \cup N
                /\ \A u \in Uqids \ N : vctr'[u] = vctr[u]
  <2>1. CASE VctrAdd
    <3>1. PICK u, y : /\ u = g_vctr_uqid + 1
                      /\ \/ vctrs' = vctrs /\ vctr' = vctr
                         \/ vctrs' = vctrs \cup {u} /\ vctr' = [vctr EXCEPT ![u] = y]
                      /\ UNCHANGED <<chnks, chnk, l2, lma>>
      BY <2>1, Zenon DEF VctrAdd, vctr_add, chnkTable
    <3>2. PICK N : N = IF vctrs' = vctrs /\ vctr' = vctr THEN {} ELSE {u}
      OBVIOUS
    <3>3. /\ \A w \in N : w > g_vctr_uqid
          /\ vctrs' = vctrs \cup N
          /\ \A w \in Uqids \ N : vctr'[w] = vctr[w]
      BY <3>1, <3>2 DEF TypeOK
    <3> QED BY <3>1, <3>3
  <2>2. CASE AddWithNn
    <3>0. PICK q \in Qtypes, memo \in MemoLens, kills \in {Never} \cup KillIgnores,
               frees \in {Never} \cup FreeIgnores : NewWithNn(q, memo, kills, frees)
      BY <2>2 DEF AddWithNn
    <3>01. PICK b, n, p, r : /\ b = g_vctr_uqid + 1 /\ n = g_vctr_uqid + 2
                             /\ p = NewVctr(q, memo, kills, frees)
                             /\ r = NewVctr("BL", memo, kills, frees)
      OBVIOUS
    <3>1. /\ vctrs' = vctrs \cup {b, n} /\ b \in Uqids /\ n \in Uqids
          /\ vctr' = Tied([vctr EXCEPT ![b] = p, ![n] = r], b, n)
          /\ UNCHANGED <<chnks, chnk, l2, lma>>
      BY <3>0, <3>01 DEF NewWithNn, rest, chnkTable
    <3>2. PICK N : N = {b, n}
      OBVIOUS
    <3>3. /\ \A w \in N : w > g_vctr_uqid
          /\ vctrs' = vctrs \cup N
          /\ \A w \in Uqids \ N : vctr'[w] = vctr[w]
      BY <3>01, <3>1, <3>2 DEF TypeOK, Tied
    <3> QED BY <3>1, <3>3
  <2> QED BY <2>1, <2>2
<1>2. PICK N : /\ \A u \in N : u > g_vctr_uqid
               /\ vctrs' = vctrs \cup N
               /\ \A u \in Uqids \ N : vctr'[u] = vctr[u]
  BY <1>1
<1>3. ASSUME NEW u \in Uqids, u <= g_vctr_uqid PROVE Apart(u)
  <2>1. u \notin N
    BY <1>2, <1>3 DEF TypeOK, Uqids
  <2>2. vctr'[u] = vctr[u] /\ (u \in vctrs' <=> u \in vctrs) /\ vctr[u] \in VctrVal
    BY <1>2, <2>1 DEF TypeOK
  <2>3. RowLasts(vctr[u], vctr'[u])
    BY <2>2, FieldsKeep DEF RowLasts
  <2> QED BY <1>1, <2>2, <2>3 DEF Apart
<1> QED BY <1>3, ApartFares

-----------------------------------------------------------------------------
(* Deletion.                                                               *)

(* RowLasts is transitive.                                                 *)
LEMMA RowLastsTwice ==
  ASSUME NEW x, NEW y, NEW z, RowLasts(x, y), RowLasts(y, z)
  PROVE  RowLasts(x, z)
<1>1. Keeps(x, y) /\ Keeps(y, z)
  BY DEF RowLasts
<1>2. Keeps(x, z)
  BY <1>1, KeepsTwice
<1>3. x.is_persist => z.is_persist
  BY DEF RowLasts
<1> QED BY <1>2, <1>3 DEF RowLasts

(* Undoing a tie.                                                          *)
LEMMA UntieLasts ==
  ASSUME NEW x \in [Uqids -> VctrVal], NEW b \in Uqids, x[b].nn_key # 0
  PROVE  \A u \in Uqids : RowLasts(x[u], Untied(x, b)[u])
  BY TieKeeps, TiePersists DEF RowLasts, Persists

(* A step that touches rows only.                                          *)
LEMMA RowsLastFares ==
  ASSUME TypeOK, \A u \in Uqids : RowLasts(vctr[u], vctr'[u]),
         UNCHANGED <<g_vctr_uqid, vctrs, rest>>
  PROVE  \A u \in Uqids : Apart(u) /\ Fares(u)
<1>1. UNCHANGED <<chnks, chnk, l2, lma>>
  BY DEF rest, chnkTable
<1>2. \A u \in Uqids : Apart(u)
  BY <1>1 DEF Apart
<1> QED BY <1>2, ApartFares

(* vctr_del(), when it does not stop half way: the files of a vector that  *)
(* is persisted stay.                                                      *)
LEMMA DelFares ==
  ASSUME TypeOK, NEW x \in [Uqids -> VctrVal], NEW v \in vctrs, vctr_del(x, v),
         half_deleted' = {}, \A u \in Uqids : RowLasts(vctr[u], x[u])
  PROVE  (\A u \in Uqids \ {v} : Apart(u)) /\ \A u \in Uqids : Fares(u)
<1> DEFINE val == x[v]
           y == IF val.nn_key # 0 THEN Untied(x, v) ELSE x
           Unlinks == val.is_lma /\ ~val.is_persist
           D == IF val.num_elements = 0 THEN {} ELSE DelRun(v, val)
           p == val.is_persist
<1>0. v \in Uqids
  BY DEF TypeOK
<1>1. y \in [Uqids -> VctrVal] /\ \A u \in Uqids : RowLasts(vctr[u], y[u])
  <2>1. \A u \in Uqids : RowLasts(x[u], y[u])
    <3>1. CASE val.nn_key # 0
      BY <1>0, <3>1, UntieLasts
    <3>2. CASE val.nn_key = 0
      BY <3>2, FieldsKeep DEF RowLasts
    <3> QED BY <3>1, <3>2
  <2>2. y \in [Uqids -> VctrVal]
    BY <1>0, UntieTypes
  <2> HIDE DEF y
  <2> QED BY <2>1, <2>2, RowLastsTwice
<1>2. \A i \in D : i \in ChnkIdxs
  <2>1. val.min_chnk_idx \in Int /\ val.max_chnk_idx \in Int
    BY <1>0 DEF VctrVal
  <2>2. D \subseteq Freeable(v)
    BY <2>1, RunInOk DEF DelRun
  <2> QED BY <2>2 DEF Freeable
<1>3. \/ vctr' = y /\ UNCHANGED <<g_vctr_uqid, vctrs, rest>>
      \/ /\ \/ /\ vctrs' = vctrs \ {v} /\ vctr' = [y EXCEPT ![v] = ZeroVctr]
               /\ DelChnksDone(v, val)
            \/ half_deleted' = half_deleted \cup {v}
         /\ chnks' = chnks \ KeysOf(v, D)
         /\ chnk' = ChnkAfterDel(chnk, v, D)
         /\ l2' = L2AfterDel(chnk, v, D, p)
         /\ lma' = IF Unlinks THEN [lma EXCEPT ![v] = NoLma] ELSE lma
  BY Zenon DEF vctr_del
<1>4. chnk \in [Keys -> ChnkVal] /\ D \subseteq ChnkIdxs
  BY <1>0, <1>2 DEF TypeOK
<1>5. val.is_persist /\ val.num_elements > 0 /\ DelChnksDone(v, val) => D = Idxs(val)
  <2>1. val.num_elements \in Nat
    BY <1>0 DEF VctrVal
  <2> QED BY <2>1 DEF DelChnksDone
<1>6. p => ~Unlinks
  OBVIOUS
<1>7. RowLasts(vctr[v], val)
  BY <1>0
<1>8. val.is_persist = p
  OBVIOUS
<1> HIDE DEF val, y, D, p, Unlinks
<1>9. CASE vctr' = y /\ UNCHANGED <<g_vctr_uqid, vctrs, rest>>
  BY <1>1, <1>9, RowsLastFares
<1>10. ASSUME vctrs' = vctrs \ {v}, vctr' = [y EXCEPT ![v] = ZeroVctr], DelChnksDone(v, val),
              chnks' = chnks \ KeysOf(v, D), chnk' = ChnkAfterDel(chnk, v, D),
              l2' = L2AfterDel(chnk, v, D, p),
              lma' = IF Unlinks THEN [lma EXCEPT ![v] = NoLma] ELSE lma
       PROVE  (\A u \in Uqids \ {v} : Apart(u)) /\ \A u \in Uqids : Fares(u)
  <2>1. ASSUME NEW u \in Uqids \ {v} PROVE Apart(u) /\ Fares(u)
    <3>1. vctr'[u] = y[u] /\ lma'[u] = lma[u] /\ (u \in vctrs' <=> u \in vctrs)
      BY <1>1, <1>10, <2>1 DEF TypeOK
    <3>2. ASSUME NEW k \in Keys, k[1] = u
          PROVE  (k \in chnks' <=> k \in chnks) /\ chnk'[k] = chnk[k] /\ l2'[k] = l2[k]
      <4>1. k \notin KeysOf(v, D)
        BY <2>1, <3>2, KeyInKeysOf
      <4>2. /\ ChnkAfterDel(chnk, v, D)[k] = chnk[k]
            /\ L2AfterDel(chnk, v, D, p)[k] = l2[k]
        BY <1>0, <1>4, <2>1, <3>2, DelLeaves
      <4> QED BY <1>10, <4>1, <4>2
    <3>3. Apart(u)
      BY <1>1, <3>1, <3>2 DEF Apart
    <3> QED BY <3>3, ApartFares
  <2>2. ASSUME Steady(v) PROVE Goes(v)
    <3>1. /\ vctr[v].is_persist /\ vctr[v].num_elements > 0
          /\ Keeps(vctr[v], val) /\ (vctr[v].is_persist => val.is_persist)
      BY <1>7, <2>2 DEF Steady, RowLasts
    <3>2. val.is_persist /\ val.num_elements > 0 /\ Idxs(val) = Idxs(vctr[v])
      BY <3>1 DEF Keeps, Idxs
    <3>3. D = Idxs(vctr[v])
      BY <1>5, <1>10, <3>2
    <3>4. l2' = l2 /\ lma' = lma
      BY <1>6, <1>8, <1>10, <3>2 DEF L2AfterDel
    <3>5. \A k \in RowKeys(vctr[v], v) : k \notin chnks'
      BY <1>10, <3>3, KeyInKeysOf DEF RowKeys
    <3> QED BY <1>10, <3>4, <3>5 DEF Goes
  <2>3. Fares(v)
    BY <2>2 DEF Fares
  <2> QED BY <2>1, <2>3
<1>11. half_deleted' # half_deleted \cup {v}
  OBVIOUS
<1> QED BY <1>3, <1>9, <1>10, <1>11

(* delete, kill and brk_nn_vec.                                            *)
LEMMA DeletionFares ==
  ASSUME TypeOK, Delete \/ Kill \/ BrkNnVec, half_deleted' = {}
  PROVE  \A u \in Uqids : Fares(u)
<1>0. vctr \in [Uqids -> VctrVal] /\ \A u \in Uqids : RowLasts(vctr[u], vctr[u])
  BY FieldsKeep DEF TypeOK, RowLasts
<1>1. CASE Delete
  <2>1. PICK v \in Uqids : delete(v)
    BY <1>1 DEF Delete
  <2> QED BY <1>0, <2>1, DelFares DEF delete
<1>2. CASE Kill
  <2>1. PICK v \in Uqids : vctr_kill(v)
    BY <1>2 DEF Kill
  <2>2. CASE vctr[v].num_kill_ignore > 0
    <3>1. PICK n, y : n = vctr[v].num_kill_ignore - 1
                      /\ y = [vctr[v] EXCEPT !.num_kill_ignore = n]
      OBVIOUS
    <3>2. /\ vctr' = [vctr EXCEPT ![v] = y] /\ UNCHANGED <<g_vctr_uqid, vctrs, rest>>
      BY <2>1, <2>2, <3>1 DEF vctr_kill
    <3>3. RowLasts(vctr[v], y)
      <4>1. Keeps(vctr[v], y) /\ Persists(vctr[v], y)
        BY <1>0, <3>1, FieldsKeep, FieldsPersist
      <4> QED BY <4>1 DEF RowLasts, Persists
    <3>4. \A u \in Uqids : vctr'[u] = IF u = v THEN y ELSE vctr[u]
      BY <1>0, <3>2
    <3> QED BY <1>0, <3>2, <3>3, <3>4, RowsLastFares
  <2>3. CASE ~(vctr[v].num_kill_ignore > 0)
    BY <1>0, <2>1, <2>3, DelFares DEF vctr_kill
  <2> QED BY <2>2, <2>3
<1>3. CASE BrkNnVec
  <2>1. PICK b \in Uqids, del_nn \in BOOLEAN : vctr_brk_nn_vec(b, del_nn)
    BY <1>3 DEF BrkNnVec
  <2>2. PICK n, x : n = vctr[b].nn_key /\ x = Untied(vctr, b)
    OBVIOUS
  <2>3. /\ n # 0 /\ n \in vctrs
        /\ vctr_del(x, n) \/ (vctr' = x /\ UNCHANGED <<g_vctr_uqid, vctrs, rest>>)
    BY <2>1, <2>2, Zenon DEF vctr_brk_nn_vec
  <2>4. x \in [Uqids -> VctrVal] /\ \A u \in Uqids : RowLasts(vctr[u], x[u])
    BY <1>0, <2>2, <2>3, UntieTypes, UntieLasts
  <2> QED BY <2>3, <2>4, DelFares, RowsLastFares
<1> QED BY <1>1, <1>2, <1>3

(* Every operation of a careful client that leaves nothing half deleted.   *)
LEMMA NextFares ==
  ASSUME TypeOK, CarefulClient, Next, half_deleted' = {}
  PROVE  \A u \in Uqids : u <= g_vctr_uqid => Fares(u)
<1>1. CASE GrowNext
  BY <1>1, AddFares, PutnFares, PutChunkFares, EovFares, EarlyFreeFares DEF GrowNext
<1>2. CASE AccessNext
  BY <1>2, GetFares, ReadersFare, GetLmaWriteFares, UngetLmaWriteFares DEF AccessNext
<1>3. CASE TierNext
  BY <1>3, DropFares, DropLmaFares, MakeL1Fares, BackupFares, UnprefetchFares,
     ChnksToLmaFares, LmaToChnksFares, SetLmaFares, SetLmaFailsFares, AppendFares
     DEF TierNext
<1>4. CASE LifeNext
  BY <1>4, AttributesFare, AddFares, DeletionFares DEF LifeNext
<1> QED BY <1>1, <1>2, <1>3, <1>4 DEF Next

-----------------------------------------------------------------------------
(* What holds of the tables and the files of a session that began new: the *)
(* invariants that the proofs about Vctr rest on.                          *)

UpInv == CopyInv /\ DataInv /\ NnMutual /\ UqidsGiven /\ WholeInv /\ SizedInv

(* A session starts with it.                                               *)
LEMMA InitUp == VctrInit => UpInv
<1>1. VctrInit => CopyInv /\ DataInv
  BY InitCopy, InitData DEF Init
<1>2. VctrInit => NnMutual /\ UqidsGiven
  BY DEF VctrInit, NnMutual, UqidsGiven
<1>3. VctrInit => WholeInv
  BY DEF VctrInit, WholeInv, Whole, Live
<1>4. VctrInit => SizedInv
  BY DEF VctrInit, SizedInv, LmaSized, NoLma
<1> QED BY <1>1, <1>2, <1>3, <1>4 DEF UpInv

(* Every operation of Vctr keeps it.                                       *)
LEMMA NextUp ==
  ASSUME TypeOK, TypeOK', UpInv, Next
  PROVE  UpInv'
<1>1. CopyInv /\ DataInv /\ NnMutual /\ UqidsGiven /\ WholeInv /\ SizedInv
  BY DEF UpInv
<1>2. CopyInv'
  BY <1>1, NextCopy
<1>3. DataInv'
  <2>1. CASE Append
    BY <1>1, <2>1, AppendKeeps
  <2>2. CASE ~Append
    <3>1. \A k \in Keys : Stays(k)
      BY <1>1, <2>2, NextStays
    <3> QED BY <3>1 DEF Stays, DataInv
  <2> QED BY <2>1, <2>2
<1>4. NnMutual' /\ UqidsGiven'
  BY <1>1, GrowTies, AccessTies, TierTies, LifeTies DEF Next
<1>5. WholeInv'
  <2>2. CASE GrowNext
    BY <1>1, <2>2, NewWhole, PutWhole, EarlyFreeWhole DEF GrowNext
  <2>3. CASE AccessNext \/ TierNext
    BY <1>1, <2>3, SetLmaWhole, QuietStepsWhole
  <2>4. CASE LifeNext
    BY <1>1, <2>4, NewWhole, QuietStepsWhole, DeletionWhole DEF LifeNext
  <2> QED BY <2>2, <2>3, <2>4 DEF Next
<1>6. SizedInv'
  BY <1>1, NextSized
<1> QED BY <1>2, <1>3, <1>4, <1>5, <1>6 DEF UpInv

(* So does a step that touches rows only, and of these only attributes.    *)
LEMMA RowsUp ==
  ASSUME TypeOK, TypeOK', UpInv,
         \A u \in vctrs : Keeps(vctr[u], vctr'[u]) /\ SameTie(vctr[u], vctr'[u]),
         UNCHANGED <<g_vctr_uqid, vctrs, rest>>
  PROVE  UpInv'
<1>1. CopyInv /\ DataInv /\ NnMutual /\ UqidsGiven /\ WholeInv /\ SizedInv
  BY DEF UpInv
<1>2. UNCHANGED <<chnks, chnk, l2, lma, half_deleted>>
  BY DEF rest, chnkTable, client
<1>3. SameTable
  BY <1>2 DEF SameTable
<1>4. CopyInv'
  BY <1>1, <1>2, <1>3, QuietCopies
<1>5. DataInv'
  <2>1. \A k \in Keys : Stays(k)
    BY <1>1, <1>2, KeptStays
  <2> QED BY <2>1 DEF Stays, DataInv
<1>6. NnMutual' /\ UqidsGiven'
  BY <1>1, QuietTies
<1>7. WholeInv'
  BY <1>1, <1>2, <1>3, SameTableStays, QuietWhole
<1>8. SizedInv'
  BY <1>1, <1>2, <1>3, SameTableSized
<1> QED BY <1>4, <1>5, <1>6, <1>7, <1>8 DEF UpInv

(* And no step at all.                                                     *)
LEMMA IdleUp ==
  ASSUME TypeOK, TypeOK', UpInv, UNCHANGED vars
  PROVE  UpInv'
<1>1. UNCHANGED <<g_vctr_uqid, vctrs, vctr, rest>>
  BY DEF vars, vctrTable, rest, usage
<1>2. \A u \in vctrs : Keeps(vctr[u], vctr'[u]) /\ SameTie(vctr[u], vctr'[u])
  BY <1>1, FieldsKeep DEF TypeOK, SameTie
<1> QED BY <1>1, <1>2, RowsUp

-----------------------------------------------------------------------------
(* The steps of a save.                                                    *)

(* A row of the vector, and of its nn vector, is stored by SavePersist.    *)
LEMMA PersistRows ==
  ASSUME TypeOK, NEW v \in Uqids, SavePersist(v)
  PROVE  /\ \A u \in Uqids : /\ Keeps(vctr[u], vctr'[u]) /\ SameTie(vctr[u], vctr'[u])
                             /\ Persists(vctr[u], vctr'[u])
         /\ vctr'[v].is_persist
<1>1. vctr' = [u \in Uqids |-> IF u \in WithNn(v)
                               THEN [vctr[u] EXCEPT !.is_persist = TRUE] ELSE vctr[u]]
  BY DEF SavePersist
<1>2. ASSUME NEW u \in Uqids
      PROVE  /\ Keeps(vctr[u], vctr'[u]) /\ SameTie(vctr[u], vctr'[u])
             /\ Persists(vctr[u], vctr'[u])
  <2>1. vctr[u] \in VctrVal
    BY DEF TypeOK
  <2>2. PICK y : y = [vctr[u] EXCEPT !.is_persist = TRUE]
    OBVIOUS
  <2>3. Keeps(vctr[u], y) /\ Persists(vctr[u], y) /\ SameTie(vctr[u], y)
    <3>1. PICK b : b = TRUE
      OBVIOUS
    <3>2. Keeps(vctr[u], [vctr[u] EXCEPT !.is_persist = b])
      BY <2>1, FieldsKeep
    <3>3. SameTie(vctr[u], y)
      BY <2>1, <2>2 DEF SameTie, VctrVal
    <3> QED BY <2>1, <2>2, <3>1, <3>2, <3>3, FieldsPersist
  <2>4. Keeps(vctr[u], vctr[u]) /\ Persists(vctr[u], vctr[u]) /\ SameTie(vctr[u], vctr[u])
    BY <2>1, FieldsKeep, FieldsPersist DEF SameTie
  <2>5. vctr'[u] = y \/ vctr'[u] = vctr[u]
    BY <1>1, <2>2
  <2> QED BY <2>3, <2>4, <2>5
<1>3. vctr'[v].is_persist
  <2>1. v \in WithNn(v) /\ vctr[v] \in VctrVal
    BY DEF WithNn, TypeOK, Uqids
  <2> QED BY <1>1, <2>1 DEF VctrVal
<1> QED BY <1>2, <1>3

(* A vector is skipped: it is deleted, or nothing happens to it.           *)
LEMMA SkipIs ==
  ASSUME NEW v \in Uqids, SaveSkip(v)
  PROVE  (delete(v) /\ Next) \/ UNCHANGED vars
  BY DEF SaveSkip, Delete, Next, LifeNext

(* A vector, or its nn vector, is backed up.                               *)
LEMMA MakeMemIs ==
  ASSUME TypeOK, NEW v \in Uqids, SaveMakeMem(v)
  PROVE  \E u \in Uqids : vctr_make_l2(u) /\ Next
<1>1. PICK u \in WithNn(v) : vctr_make_l2(u)
  BY DEF SaveMakeMem
<1>2. u \in Uqids
  <2>1. vctr[v].nn_key \in Uqids \cup {0}
    BY DEF TypeOK, VctrVal
  <2> QED BY <2>1 DEF WithNn
<1> QED BY <1>1, <1>2 DEF Next, TierNext, MakeL2

(* The step leaves the others alone that a save deletes a vector in.       *)
LEMMA SkipApart ==
  ASSUME TypeOK, half_deleted' = {}, NEW v \in Uqids, SaveSkip(v)
  PROVE  /\ vctrs \ {v} \subseteq vctrs'
         /\ \A u \in Uqids : Fares(u)
<1>1. CASE delete(v)
  <2>1. vctr \in [Uqids -> VctrVal] /\ \A u \in Uqids : RowLasts(vctr[u], vctr[u])
    BY FieldsKeep DEF TypeOK, RowLasts
  <2>2. v \in vctrs /\ vctr_del(vctr, v)
    BY <1>1 DEF delete
  <2>3. (\A u \in Uqids \ {v} : Apart(u)) /\ \A u \in Uqids : Fares(u)
    BY <2>1, <2>2, DelFares
  <2> QED BY <2>3 DEF Apart, TypeOK
<1>2. CASE UNCHANGED vars
  <2>1. UNCHANGED <<g_vctr_uqid, vctrs, vctr, rest>>
    BY <1>2 DEF vars, vctrTable, rest, usage
  <2>2. \A u \in Uqids : RowLasts(vctr[u], vctr'[u])
    BY <2>1, FieldsKeep DEF TypeOK, RowLasts
  <2> QED BY <2>1, <2>2, RowsLastFares
<1> QED BY <1>1, <1>2, SkipIs

-----------------------------------------------------------------------------
(* A session that began new.  restored remembers whether this one did not: *)
(* it went on from saved tables, or without them among files left lying.   *)

VARIABLE restored

Remember ==
  restored' = IF StartNew THEN FALSE ELSE restored \/ RestoreNothing \/ RestoreDone

History == restored = FALSE /\ [][Remember]_<<svars, restored>>

UpOk == mode \in {"up", "saving"} /\ ~restored => UpInv

(* The memory of a new process, with both directories emptied, is that of  *)
(* Vctr's initial state.                                                   *)
LEMMA StartNewInit ==
  ASSUME StartNew
  PROVE  VctrInit'
  BY DEF StartNew, LoseMemory, VctrInit

(* In a session that began new the invariants of Vctr hold: a save does    *)
(* nothing that they do not survive.                                       *)
LEMMA NextUpOk ==
  ASSUME TypeOK, TypeOK', UpOk, [SessionNext]_svars, [Remember]_<<svars, restored>>,
         VctrInit' => UpInv'
  PROVE  UpOk'
<1> SUFFICES ASSUME mode' \in {"up", "saving"}, ~restored' PROVE UpInv'
  BY DEF UpOk
<1>1. CASE StartNew
  BY <1>1, StartNewInit
<1>2. CASE ~StartNew
  <2>1. Remember \/ UNCHANGED <<svars, restored>>
    OBVIOUS
  <2>2. ~restored /\ ~RestoreNothing /\ ~RestoreDone
    <3>1. CASE Remember
      BY <1>2, <3>1, Zenon DEF Remember
    <3>2. CASE UNCHANGED <<svars, restored>>
      <4>1. mode' = mode /\ restored' = restored
        BY <3>2 DEF svars
      <4> QED BY <4>1 DEF RestoreNothing, RestoreDone, MayStart
    <3> QED BY <2>1, <3>1, <3>2
  <2>3. ~Crash /\ ~RestoreTorn /\ ~RestoreTables /\ ~RestoreFails /\ ~SaveTears
    BY DEF Crash, RestoreTorn, RestoreTables, RestoreFails, SaveTears
  <2>4. \A v \in Uqids : ~CleanDel(v) /\ ~CleanFails(v)
    BY DEF CleanDel, CleanFails
  <2>5. \/ Client \/ SaveBegin \/ SaveTables \/ UNCHANGED svars
        \/ \E v \in Uqids : SaveSkip(v) \/ SaveMakeMem(v) \/ SavePersist(v)
    BY <1>2, <2>2, <2>3, <2>4, Zenon DEF SessionNext, Save, Start
  <2>6. UpInv
    <3>1. mode \in {"up", "saving"}
      BY <2>5 DEF Client, SaveBegin, SaveTables, SaveSkip, SaveMakeMem, SavePersist, svars
    <3> QED BY <2>2, <3>1 DEF UpOk
  <2>7. CASE Client
    BY <2>6, <2>7, NextUp DEF Client
  <2>8. CASE SaveBegin \/ SaveTables \/ UNCHANGED svars
    <3>1. UNCHANGED vars
      BY <2>8 DEF SaveBegin, SaveTables, svars
    <3> QED BY <2>6, <3>1, IdleUp
  <2>9. ASSUME NEW v \in Uqids, SaveSkip(v) PROVE UpInv'
    BY <2>6, <2>9, SkipIs, NextUp, IdleUp
  <2>10. ASSUME NEW v \in Uqids, SaveMakeMem(v) PROVE UpInv'
    BY <2>6, <2>10, MakeMemIs, NextUp
  <2>11. ASSUME NEW v \in Uqids, SavePersist(v) PROVE UpInv'
    <3>1. UNCHANGED <<g_vctr_uqid, vctrs, rest>>
      BY <2>11 DEF SavePersist
    <3>2. \A u \in vctrs : Keeps(vctr[u], vctr'[u]) /\ SameTie(vctr[u], vctr'[u])
      BY <2>11, PersistRows DEF TypeOK
    <3> QED BY <2>6, <3>1, <3>2, RowsUp
  <2> QED BY <2>5, <2>7, <2>8, <2>9, <2>10, <2>11
<1> QED BY <1>1, <1>2

-----------------------------------------------------------------------------
(* While a save is under way, what it has persisted is steady and on disk. *)

\* v is on disk, and there is something of it
Backed(v) == Flushed(v) /\ vctr[v].min_chnk_idx <= vctr[v].max_chnk_idx

SavingInv ==
  mode = "saving" =>
    /\ ~whole
    /\ half_deleted = {} => /\ todo \subseteq vctrs /\ names \cap todo = {}
                            /\ \A v \in names : Steady(v) /\ Backed(v)

(* A vector that lasts keeps its files.                                    *)
LEMMA BackedLasts ==
  ASSUME NEW v \in Uqids, Steady(v), Backed(v), Lasts(v)
  PROVE  Backed(v)'
<1>0. Flushed(v)
  BY DEF Backed
<1>1. Idxs(vctr'[v]) = Idxs(vctr[v]) /\ (vctr[v].is_lma => vctr'[v].is_lma)
  BY DEF Lasts, Idxs
<1>2. ASSUME NEW i \in Idxs(vctr[v]), chnk_is(v, i), chnk[<<v, i>>].l2_exists
      PROVE  <<v, i>> \in chnks' /\ chnk'[<<v, i>>].l2_exists
  <2>1. PICK k : k = <<v, i>>
    OBVIOUS
  <2>2. i \in ChnkIdxs
    BY DEF Steady
  <2>3. k \in RowKeys(vctr[v], v)
    BY <2>1, <2>2 DEF RowKeys, Keys
  <2>4. SureStays(k)
    BY <2>3 DEF Lasts
  <2> QED BY <1>2, <2>1, <2>4, Zenon DEF SureStays, Sure
<1>3. Flushed(v)'
  BY <1>0, <1>1, <1>2 DEF Flushed, chnk_is
<1> QED BY <1>3 DEF Backed, Lasts

(* What save() makes sure of before it persists a vector makes it steady.  *)
LEMMA PersistSteady ==
  ASSUME TypeOK, TypeOK', UpInv, EarlyBackup = FALSE, half_deleted = {},
         NEW v \in vctrs, SavePersist(v)
  PROVE  Steady(v)' /\ Backed(v)'
<1>1. v \in Uqids /\ v # 0 /\ v \in Live
  BY DEF TypeOK, Uqids, Live
<1>2. PICK x \in VctrVal : x = vctr[v]
  BY <1>1 DEF TypeOK
<1>3. /\ x.is_eov /\ x.num_elements # 0 /\ Flushed(v)
  <2>1. ~Skips(v) /\ Flushed(v)
    BY <1>1 DEF SavePersist, WithNn
  <2> QED BY <1>2, <2>1 DEF Skips
<1>4. x.num_elements > 0
  <2>1. x.num_elements \in Nat
    BY DEF VctrVal
  <2> QED BY <1>3, <2>1
<1>5. CopyInv /\ DataInv /\ SizedInv
  BY DEF UpInv
<1>6. \A i \in Idxs(x) : <<v, i>> \in chnks
  <2>1. CASE x.is_lma
    <3>1. Present(v) = Idxs(x)
      BY <1>1, <1>2, <1>5, <2>1 DEF CopyInv, LmaWhole
    <3> QED BY <3>1 DEF Present, chnk_is
  <2>2. CASE ~x.is_lma
    BY <1>2, <1>3, <2>2 DEF Flushed, chnk_is
  <2> QED BY <2>1, <2>2
<1>7. Idxs(x) \subseteq ChnkIdxs
  BY <1>6 DEF TypeOK, Keys
<1>8. x.is_lma => lma[v].size > 0
  <2>1. LmaSized(v)
    BY <1>1, <1>5 DEF SizedInv
  <2> QED BY <1>2, <1>4, <2>1 DEF LmaSized, SizeFits
<1>9. UNCHANGED <<vctrs, chnks, chnk, l2, lma>>
  BY DEF SavePersist, rest, chnkTable
<1>10. PICK y : y = vctr'[v]
  OBVIOUS
<1>11. /\ y.is_persist /\ y.is_eov /\ y.num_elements > 0 /\ y.is_lma = x.is_lma
       /\ y.min_chnk_idx = x.min_chnk_idx /\ y.max_chnk_idx = x.max_chnk_idx
       /\ y.num_writers = x.num_writers
  <2>1. y.is_persist
    BY <1>1, <1>10, PersistRows
  <2>2. vctr' = [u \in Uqids |-> IF u \in WithNn(v)
                                 THEN [vctr[u] EXCEPT !.is_persist = TRUE] ELSE vctr[u]]
    BY DEF SavePersist
  <2>3. y = [x EXCEPT !.is_persist = TRUE] \/ y = x
    BY <1>1, <1>2, <1>10, <2>2
  <2> QED BY <1>3, <1>4, <2>1, <2>3 DEF VctrVal
<1>12. Idxs(y) = Idxs(x)
  BY <1>11 DEF Idxs
<1>13. ASSUME NEW k \in RowKeys(x, v) PROVE Sure(k)'
  <2>1. k \in Keys /\ k[1] = v /\ k \in chnks
    BY <1>6, KeyParts DEF RowKeys
  <2>2. Copies(k)
    BY <1>1, <1>5, <2>1 DEF DataInv, Current
  <2>3. chnk[k].l1_mem \/ chnk[k].l2_exists \/ vctr[k[1]].is_lma
    BY <1>1, <1>5, <2>1 DEF CopyInv, DataHeld
  <2>4. vctr[v].num_writers > 0 => /\ vctr[v].is_lma
                                   /\ ~chnk[k].l1_mem /\ ~chnk[k].l2_exists
    <3>1. vctr[v].num_writers > 0 =>
            /\ vctr[v].is_lma
            /\ \A i \in Present(v) : ~chnk[<<v, i>>].l1_mem /\ ~chnk[<<v, i>>].l2_exists
      BY <1>1, <1>5 DEF CopyInv, WriterHasOnlyCopy
    <3>2. k[2] \in Present(v) /\ k = <<v, k[2]>>
      BY <2>1, KeyParts DEF Present, chnk_is
    <3> QED BY <3>1, <3>2
  <2>5. Sure(k)
    BY <2>1, <2>2, <2>3, <2>4 DEF Sure
  <2>6. Copies(k)'
    <3>1. vctr'[k[1]].is_lma = vctr[k[1]].is_lma
      BY <1>2, <1>10, <1>11, <2>1
    <3> QED BY <1>9, <2>2, <3>1, Zenon DEF Copies, Filled
  <2> QED BY <1>2, <1>9, <1>10, <1>11, <2>1, <2>3, <2>4, <2>6, Zenon DEF Sure
<1>14. Steady(v)'
  <2>1. \A k \in RowKeys(y, v) : Sure(k)'
    BY <1>12, <1>13 DEF RowKeys
  <2>2. lma' = lma /\ v \in vctrs'
    BY <1>9
  <2> QED BY <1>7, <1>8, <1>10, <1>11, <1>12, <2>1, <2>2, Zenon DEF Steady
<1>15. Flushed(v)'
  BY <1>2, <1>3, <1>9, <1>10, <1>11, <1>12 DEF Flushed, chnk_is
\* without memo and early_free no chunk is gone, the first one is chunk 0
<1>16. x.min_chnk_idx <= x.max_chnk_idx
  <2>1. ~(x.memo_len > 0) /\ ~x.is_early_freeable
    <3>1. ~Skips(v)
      BY DEF SavePersist
    <3> QED BY <1>2, <3>1 DEF Skips
  <2>2. x.memo_len \in Nat /\ x.max_chnk_idx \in Nat
    BY DEF VctrVal
  <2>3. RowOk(x)
    BY <1>2, <1>5 DEF CopyInv, RowsOk
  <2>4. x.memo_len = 0 /\ ~x.is_early_freeable => x.min_chnk_idx = 0
    BY <2>3 DEF RowOk
  <2> QED BY <2>1, <2>2, <2>4
<1>17. Backed(v)'
  BY <1>10, <1>11, <1>15, <1>16 DEF Backed
<1> QED BY <1>14, <1>17

(* A save makes no vector whole again that is half deleted.                *)
LEMMA HalfStays ==
  ASSUME TypeOK, NEW v \in Uqids, SaveSkip(v) \/ SaveMakeMem(v) \/ SavePersist(v)
  PROVE  half_deleted \subseteq half_deleted'
<1>1. CASE SaveSkip(v)
  <2>1. CASE delete(v)
    BY <2>1, DeletionReadersStay DEF Delete
  <2>2. CASE UNCHANGED vars
    BY <2>2 DEF vars, client
  <2> QED BY <1>1, <2>1, <2>2, SkipIs
<1>2. CASE SaveMakeMem(v)
  <2>1. PICK w \in Uqids : vctr_make_l2(w)
    BY <1>2, MakeMemIs
  <2> QED BY <2>1 DEF vctr_make_l2, make_l2, client
<1>3. CASE SavePersist(v)
  BY <1>3 DEF SavePersist, rest, client
<1> QED BY <1>1, <1>2, <1>3

(* What a save has persisted so far survives the rest of it.               *)
LEMMA NextSaving ==
  ASSUME TypeOK, TypeOK', UpOk, SavingInv, EarlyBackup = FALSE,
         restored => mode # "saving", [SessionNext]_svars
  PROVE  SavingInv'
<1> SUFFICES ASSUME mode' = "saving" PROVE SavingInv'
  BY DEF SavingInv
<1>0. \/ SaveBegin \/ UNCHANGED svars
      \/ \E v \in Uqids : SaveSkip(v) \/ SaveMakeMem(v) \/ SavePersist(v)
  <2>1. ~Crash /\ ~SaveTables /\ ~SaveTears
    BY DEF Crash, SaveTables, SaveTears
  <2>2. ~StartNew /\ ~RestoreNothing /\ ~RestoreTorn /\ ~RestoreTables /\ ~RestoreDone
        /\ ~RestoreFails
    BY DEF StartNew, RestoreNothing, RestoreTorn, RestoreTables, RestoreDone, RestoreFails
  <2>3. \A v \in Uqids : ~CleanDel(v) /\ ~CleanFails(v)
    BY DEF CleanDel, CleanFails
  <2>4. ~Client
    BY DEF Client
  <2> QED BY <2>1, <2>2, <2>3, <2>4, Zenon DEF SessionNext, Save, Start
<1>1. ~whole'
  <2>1. SaveBegin => ~whole'
    BY DEF SaveBegin
  <2>2. \A v \in Uqids : SaveSkip(v) \/ SaveMakeMem(v) \/ SavePersist(v) =>
          mode = "saving" /\ whole' = whole
    BY DEF SaveSkip, SaveMakeMem, SavePersist, disk
  <2>3. UNCHANGED svars => mode' = mode /\ whole' = whole
    BY DEF svars, disk
  <2> QED BY <1>0, <2>1, <2>2, <2>3 DEF SavingInv
<1> SUFFICES ASSUME half_deleted' = {} PROVE SavingInv'
  BY <1>1 DEF SavingInv
<1>2. CASE SaveBegin
  <2>1. UNCHANGED vctrs /\ ~whole' /\ todo' \subseteq vctrs /\ names' = {}
    BY <1>2 DEF SaveBegin, vars, vctrTable
  <2> QED BY <1>1, <2>1 DEF SavingInv
<1>3. CASE UNCHANGED svars
  <2>1. UNCHANGED <<mode, whole, todo, vctrs, names, vctr, lma, l2, chnks, chnk,
                 half_deleted>>
    BY <1>3 DEF svars, vars, vctrTable, chnkTable, client, disk
  <2>2. ~whole' /\ todo' \subseteq vctrs' /\ names' \cap todo' = {}
    BY <2>1 DEF SavingInv
  <2>3. \A v \in names' : Steady(v)' /\ Backed(v)'
    <3> SUFFICES ASSUME NEW v \in names' PROVE Steady(v)' /\ Backed(v)'
      OBVIOUS
    <3>1. Steady(v) /\ Backed(v)
      BY <2>1 DEF SavingInv
    <3>2. \A k \in RowKeys(vctr[v], v) : Sure(k)'
      BY <2>1, <3>1, Zenon DEF Steady, Sure, Copies, Filled
    <3> QED BY <2>1, <3>1, <3>2, Zenon DEF Steady, Backed, Flushed, chnk_is, RowKeys, Idxs
  <2> QED BY <1>1, <2>2, <2>3 DEF SavingInv
\* what a step of a save has to see to, for vectors that were persisted
<1>4. ASSUME NEW v \in Uqids, SaveSkip(v) \/ SaveMakeMem(v) \/ SavePersist(v)
      PROVE  /\ mode = "saving" /\ v \in todo /\ todo \subseteq vctrs
             /\ half_deleted = {}
             /\ \A u \in names : Steady(u) /\ Backed(u) /\ u \in Uqids /\ u # v
  <2>1. mode = "saving" /\ v \in todo
    BY <1>4 DEF SaveSkip, SaveMakeMem, SavePersist
  <2>2. half_deleted = {}
    BY <1>4, HalfStays
  <2> QED BY <2>1, <2>2 DEF SavingInv, Steady, TypeOK
<1>5. ASSUME NEW v \in Uqids, SaveSkip(v) \/ SaveMakeMem(v) \/ SavePersist(v),
             NEW u \in names, Fares(u), u \in vctrs'
      PROVE  Steady(u)' /\ Backed(u)'
  <2>1. Steady(u) /\ Backed(u) /\ u \in Uqids
    BY <1>4, <1>5
  <2>2. Lasts(u)
    BY <1>5, <2>1 DEF Fares, Goes
  <2> QED BY <2>1, <2>2, BackedLasts DEF Lasts
<1>6. ASSUME NEW v \in Uqids, SaveSkip(v) PROVE SavingInv'
  <2>1. todo' = todo \ {v} /\ names' = names
    BY <1>6 DEF SaveSkip
  <2>2. vctrs \ {v} \subseteq vctrs' /\ \A u \in Uqids : Fares(u)
    BY <1>6, SkipApart
  <2>3. \A u \in names : Steady(u)' /\ Backed(u)'
    BY <1>4, <1>5, <1>6, <2>2 DEF Steady
  <2> QED BY <1>1, <1>4, <1>6, <2>1, <2>2, <2>3 DEF SavingInv
<1>7. ASSUME NEW v \in Uqids, SaveMakeMem(v) PROVE SavingInv'
  <2>1. todo' = todo /\ names' = names
    BY <1>7 DEF SaveMakeMem
  <2>2. PICK w \in Uqids : vctr_make_l2(w)
    BY <1>7, MakeMemIs
  <2>3. UNCHANGED vctrs
    BY <2>2 DEF vctr_make_l2, make_l2, vctrTable
  <2>4. \A u \in Uqids : Fares(u)
    BY <2>2, BackupFares DEF MakeL2
  <2>5. \A u \in names : Steady(u)' /\ Backed(u)'
    BY <1>4, <1>5, <1>7, <2>3, <2>4 DEF Steady
  <2> QED BY <1>1, <1>4, <1>7, <2>1, <2>3, <2>5 DEF SavingInv
<1>8. ASSUME NEW v \in Uqids, SavePersist(v) PROVE SavingInv'
  <2>1. /\ todo' = todo \ {v} /\ names' = names \cup {v}
        /\ UNCHANGED <<g_vctr_uqid, vctrs, rest>>
    BY <1>8 DEF SavePersist
  <2>2. \A u \in Uqids : RowLasts(vctr[u], vctr'[u])
    BY <1>8, PersistRows DEF RowLasts, Persists
  <2>3. \A u \in Uqids : Fares(u)
    BY <2>1, <2>2, RowsLastFares
  <2>4. \A u \in names : Steady(u)' /\ Backed(u)'
    BY <1>4, <1>5, <1>8, <2>1, <2>3 DEF Steady
  <2>5. Steady(v)' /\ Backed(v)'
    <3>1. UpInv
      BY <1>4, <1>8 DEF UpOk
    <3> QED BY <1>4, <1>8, <3>1, PersistSteady
  <2> QED BY <1>1, <1>4, <1>8, <2>1, <2>4, <2>5 DEF SavingInv
<1> QED BY <1>0, <1>2, <1>3, <1>6, <1>7, <1>8

-----------------------------------------------------------------------------
(* What a whole save has promised: the vectors it persisted, for as long   *)
(* as no other save begins.                                                *)

Promised == {v \in vctr_file.keys : vctr_file.rows[v].is_persist /\ v \in q_meta.names}

\* the saved tables have the rows of all chunks of v, which is on disk
RowSaved(v) ==
  LET x == vctr_file.rows[v]
  IN  /\ x.is_eov /\ x.num_elements > 0 /\ Idxs(x) \subseteq ChnkIdxs
      /\ x.min_chnk_idx <= x.max_chnk_idx
      /\ \A k \in RowKeys(x, v) :
           k \in chnk_file.keys /\ (x.is_lma \/ chnk_file.rows[k].l2_exists)

\* the files those rows speak of are there, with the elements
FilesHold(v) ==
  LET x == vctr_file.rows[v]
  IN  /\ x.is_lma => lma[v].size > 0
      /\ \A k \in RowKeys(x, v) :
           LET c == chnk_file.rows[k]
           IN  /\ x.is_lma => {k[2]} \X Filled(c) \subseteq lma[v].data
               /\ c.l2_exists => l2[k].file = "full" /\ Filled(c) \subseteq l2[k].data

\* v is in the table, over the chunks it was saved with and with their files
AsSaved(v) ==
  LET x == vctr_file.rows[v]
  IN  /\ Steady(v)
      /\ vctr[v].min_chnk_idx = x.min_chnk_idx /\ vctr[v].max_chnk_idx = x.max_chnk_idx
      /\ x.is_lma => vctr[v].is_lma
      /\ \A k \in RowKeys(x, v) :
           /\ chnk[k].num_elements = chnk_file.rows[k].num_elements
           /\ chnk_file.rows[k].l2_exists => chnk[k].l2_exists

\* v has been deleted, with its chunks
Gone(v) == v \notin vctrs /\ \A k \in RowKeys(vctr_file.rows[v], v) : k \notin chnks

\* v has been read from the saved tables, and clean_hmap() is under way
AsRead(v) ==
  LET x == vctr_file.rows[v]
  IN  /\ v \in vctrs
      /\ vctr[v].is_persist /\ vctr[v].is_eov /\ vctr[v].num_elements > 0
      /\ vctr[v].min_chnk_idx = x.min_chnk_idx /\ vctr[v].max_chnk_idx = x.max_chnk_idx
      /\ vctr[v].is_lma = x.is_lma
      /\ \A k \in RowKeys(x, v) :
           /\ k \in chnks /\ ~chnk[k].l1_mem
           /\ chnk[k].num_elements = chnk_file.rows[k].num_elements
           /\ chnk[k].l2_exists = chnk_file.rows[k].l2_exists

InUp(v) == v <= g_vctr_uqid /\ IF v \in vctrs THEN AsSaved(v) ELSE Gone(v)

Kept(v) ==
  /\ RowSaved(v) /\ FilesHold(v)
  /\ mode = "up" => InUp(v)
  /\ mode = "cleaning" => AsRead(v)

WholeSaved ==
  whole =>
    /\ vctr_file.is = "saved" /\ chnk_file.is = "saved"
    /\ q_meta.ok /\ q_meta.names \subseteq Promised /\ half_deleted = {}
    /\ mode = "cleaning" => todo \subseteq vctrs
    /\ \A v \in Promised : Kept(v)

(* The saved rows are as they were while nobody writes them.               *)
LEMMA SavedRowSame ==
  ASSUME NEW v, UNCHANGED disk, RowSaved(v)
  PROVE  RowSaved(v)'
<1>1. UNCHANGED <<vctr_file, chnk_file>>
  BY DEF disk
<1> QED BY <1>1, Zenon DEF RowSaved, RowKeys, Idxs

(* So are the files, if the step leaves them alone.                        *)
LEMMA HoldSame ==
  ASSUME NEW v, UNCHANGED disk, FilesHold(v), lma'[v] = lma[v],
         \A k \in RowKeys(vctr_file.rows[v], v) : l2'[k] = l2[k]
  PROVE  FilesHold(v)'
<1>1. UNCHANGED <<vctr_file, chnk_file>>
  BY DEF disk
<1>2. PICK x : x = vctr_file.rows[v]
  OBVIOUS
<1>3. \A k \in RowKeys(x, v) :
        /\ l2'[k] = l2[k]
        /\ x.is_lma => {k[2]} \X Filled(chnk_file.rows[k]) \subseteq lma[v].data
        /\ chnk_file.rows[k].l2_exists =>
             l2[k].file = "full" /\ Filled(chnk_file.rows[k]) \subseteq l2[k].data
  BY <1>2 DEF FilesHold
<1>4. x.is_lma => lma'[v].size > 0
  BY <1>2 DEF FilesHold
<1>5. \A k \in RowKeys(x, v) :
        /\ x.is_lma => {k[2]} \X Filled(chnk_file.rows[k]) \subseteq lma'[v].data
        /\ chnk_file.rows[k].l2_exists =>
             l2'[k].file = "full" /\ Filled(chnk_file.rows[k]) \subseteq l2'[k].data
  BY <1>3, Zenon
<1> QED BY <1>1, <1>2, <1>4, <1>5, Zenon DEF FilesHold, RowKeys, Idxs, Filled

(* A vector that is as it was saved has its elements in the files that the *)
(* saved rows speak of.                                                    *)
LEMMA SavedHolds ==
  ASSUME NEW v \in Uqids, AsSaved(v)'
  PROVE  FilesHold(v)'
<1>1. PICK x : x = vctr_file'.rows[v]
  OBVIOUS
<1>2. PICK y : y = vctr'[v]
  OBVIOUS
<1>3. /\ Steady(v)'
      /\ y.min_chnk_idx = x.min_chnk_idx /\ y.max_chnk_idx = x.max_chnk_idx
      /\ x.is_lma => y.is_lma
      /\ \A k \in RowKeys(x, v) :
           /\ chnk'[k].num_elements = chnk_file'.rows[k].num_elements
           /\ chnk_file'.rows[k].l2_exists => chnk'[k].l2_exists
  BY <1>1, <1>2, Zenon DEF AsSaved, RowKeys, Idxs
<1>4. RowKeys(y, v) = RowKeys(x, v)
  BY <1>3 DEF RowKeys, Idxs
<1>5. /\ y.is_lma => lma'[v].size > 0
      /\ \A k \in RowKeys(y, v) : Sure(k)'
  BY <1>2, <1>3, Zenon DEF Steady, RowKeys, Idxs
<1>6. ASSUME NEW k \in RowKeys(x, v)
      PROVE  /\ x.is_lma => {k[2]} \X Filled(chnk_file'.rows[k]) \subseteq lma'[v].data
             /\ chnk_file'.rows[k].l2_exists =>
                  l2'[k].file = "full" /\ Filled(chnk_file'.rows[k]) \subseteq l2'[k].data
  <2>1. /\ chnk'[k].l2_exists => l2'[k].file = "full" /\ Filled(chnk'[k]) \subseteq l2'[k].data
        /\ vctr'[k[1]].is_lma => {k[2]} \X Filled(chnk'[k]) \subseteq lma'[k[1]].data
    BY <1>4, <1>5, Zenon DEF Sure, Copies, Filled
  <2>2. k[1] = v
    BY DEF RowKeys
  <2>3. Filled(chnk'[k]) = Filled(chnk_file'.rows[k])
    BY <1>3 DEF Filled
  <2> QED BY <1>2, <1>3, <2>1, <2>2, <2>3, Zenon
<1> QED BY <1>1, <1>3, <1>5, <1>6, Zenon DEF FilesHold, RowKeys, Idxs, Filled

(* A vector that lasts is still as it was saved.                           *)
LEMMA SavedLasts ==
  ASSUME NEW v \in Uqids, UNCHANGED disk, AsSaved(v), Lasts(v)
  PROVE  AsSaved(v)'
<1>1. UNCHANGED <<vctr_file, chnk_file>>
  BY DEF disk
<1>2. PICK x : x = vctr_file.rows[v]
  OBVIOUS
<1>3. /\ vctr[v].min_chnk_idx = x.min_chnk_idx /\ vctr[v].max_chnk_idx = x.max_chnk_idx
      /\ x.is_lma => vctr[v].is_lma
      /\ \A k \in RowKeys(x, v) :
           /\ chnk[k].num_elements = chnk_file.rows[k].num_elements
           /\ chnk_file.rows[k].l2_exists => chnk[k].l2_exists
  BY <1>2, Zenon DEF AsSaved
<1>4. RowKeys(vctr[v], v) = RowKeys(x, v)
  BY <1>3 DEF RowKeys, Idxs
<1>5. /\ Steady(v)'
      /\ vctr'[v].min_chnk_idx = x.min_chnk_idx /\ vctr'[v].max_chnk_idx = x.max_chnk_idx
      /\ x.is_lma => vctr'[v].is_lma
  BY <1>3, Zenon DEF Lasts
<1>6. \A k \in RowKeys(x, v) :
        /\ chnk'[k].num_elements = chnk_file.rows[k].num_elements
        /\ chnk_file.rows[k].l2_exists => chnk'[k].l2_exists
  BY <1>3, <1>4, Zenon DEF Lasts, SureStays
<1> QED BY <1>1, <1>2, <1>5, <1>6, Zenon DEF AsSaved, RowKeys, Idxs

(* A vector that has lasted, or been deleted by, a step of a session is    *)
(* still kept after it.                                                    *)
LEMMA FaresKept ==
  ASSUME NEW v \in Uqids, UNCHANGED disk, RowSaved(v), FilesHold(v), InUp(v),
         Fares(v), g_vctr_uqid' \in Nat, g_vctr_uqid \in Nat, g_vctr_uqid <= g_vctr_uqid',
         mode' = "up"
  PROVE  Kept(v)'
<1>1. RowSaved(v)'
  BY SavedRowSame
<1>2. v <= g_vctr_uqid'
  BY DEF InUp, Uqids
<1>3. CASE v \in vctrs
  <2>1. AsSaved(v)
    BY <1>3 DEF InUp
  <2>2. CASE Lasts(v)
    <3>1. AsSaved(v)'
      BY <2>1, <2>2, SavedLasts
    <3>2. v \in vctrs'
      BY <2>2, Zenon DEF Lasts, Steady
    <3>3. InUp(v)'
      BY <1>2, <3>1, <3>2 DEF InUp
    <3> QED BY <1>1, <3>1, <3>3, SavedHolds DEF Kept
  <2>3. CASE Goes(v)
    <3>1. RowKeys(vctr_file.rows[v], v) = RowKeys(vctr[v], v)
      BY <2>1 DEF AsSaved, RowKeys, Idxs
    <3>2. FilesHold(v)'
      BY <2>3, <3>1, HoldSame DEF Goes
    <3>3. UNCHANGED vctr_file
      BY DEF disk
    <3>4. Gone(v)'
      BY <2>3, <3>1, <3>3, Zenon DEF Goes, Gone, RowKeys, Idxs
    <3> QED BY <1>1, <1>2, <2>3, <3>2, <3>4 DEF Kept, InUp, Goes
  <2> QED BY <2>1, <2>2, <2>3 DEF Fares, AsSaved
<1>4. CASE v \notin vctrs
  <2>1. Gone(v) /\ StaysAway(v)
    BY <1>4 DEF InUp, Fares
  <2>2. \A k \in RowKeys(vctr_file.rows[v], v) : k \notin chnks' /\ l2'[k] = l2[k]
    BY <2>1 DEF Gone, StaysAway, RowKeys
  <2>3. FilesHold(v)'
    BY <2>1, <2>2, HoldSame DEF StaysAway
  <2>4. UNCHANGED vctr_file
    BY DEF disk
  <2>5. Gone(v)'
    BY <2>1, <2>2, <2>4, Zenon DEF StaysAway, Gone, RowKeys, Idxs
  <2> QED BY <1>1, <1>2, <2>1, <2>3, <2>5 DEF Kept, InUp, StaysAway
<1> QED BY <1>3, <1>4

(* The tables are saved with the rows of what save() has persisted.        *)
LEMMA SavedTables ==
  ASSUME TypeOK, NEW v \in Uqids, SaveTables, Steady(v), Backed(v), v <= g_vctr_uqid
  PROVE  Kept(v)'
<1>0. Flushed(v) /\ vctr[v].min_chnk_idx <= vctr[v].max_chnk_idx
  BY DEF Backed
<1>1. /\ vctr_file' = [is |-> "saved", keys |-> vctrs, rows |-> vctr]
      /\ chnk_file' = [is |-> "saved", keys |-> chnks, rows |-> chnk]
      /\ UNCHANGED <<g_vctr_uqid, vctrs, vctr, chnks, chnk, l2, lma>> /\ mode' = "up"
  BY DEF SaveTables, VctrsNow, ChnksNow, vars, vctrTable, chnkTable
<1>2. vctr_file'.rows = vctr /\ chnk_file'.rows = chnk /\ chnk_file'.keys = chnks
  BY <1>1
<1>3. PICK x : x = vctr[v]
  OBVIOUS
<1>4. /\ v \in vctrs /\ x.is_persist /\ x.is_eov /\ x.num_elements > 0
      /\ x.is_lma => lma[v].size > 0
      /\ Idxs(x) \subseteq ChnkIdxs
      /\ \A k \in RowKeys(x, v) : Sure(k)
  BY <1>3 DEF Steady
<1>5. \A k \in RowKeys(x, v) : k \in chnks /\ (x.is_lma \/ chnk[k].l2_exists)
  <2> SUFFICES ASSUME NEW k \in RowKeys(x, v)
               PROVE  k \in chnks /\ (x.is_lma \/ chnk[k].l2_exists)
    OBVIOUS
  <2>1. k[1] = v /\ k[2] \in Idxs(x) /\ k = <<v, k[2]>>
    BY KeyParts DEF RowKeys
  <2>2. k \in chnks
    BY <1>4 DEF Sure
  <2> QED BY <1>0, <1>3, <2>1, <2>2 DEF Flushed
<1>6. RowSaved(v)'
  BY <1>0, <1>2, <1>3, <1>4, <1>5, Zenon DEF RowSaved, RowKeys, Idxs
<1>7. AsSaved(v)'
  <2>1. \A k \in RowKeys(x, v) : Sure(k)'
    BY <1>1, <1>4, Zenon DEF Sure, Copies, Filled
  <2>2. Steady(v)'
    BY <1>1, <1>3, <1>4, <2>1, Zenon DEF Steady, RowKeys, Idxs
  <2> QED BY <1>1, <1>2, <2>2, Zenon DEF AsSaved
<1>8. FilesHold(v)'
  BY <1>7, SavedHolds
<1> QED BY <1>1, <1>4, <1>6, <1>7, <1>8 DEF Kept, InUp

(* Uqids are given out in ascending order.                                 *)
LEMMA UqidsGrow ==
  ASSUME TypeOK, Next
  PROVE  g_vctr_uqid <= g_vctr_uqid'
<1>0. g_vctr_uqid \in Int
  BY DEF TypeOK
<1>1. CASE AccessNext
  <2>1. g_vctr_uqid' = g_vctr_uqid
    BY <1>1, Zenon DEF AccessNext, VctrGetChunk, ChnkIncrReaders, VctrGetChunkLma,
       VctrUngetChunk, VctrGet1, VctrGetLmaRead, VctrUngetLmaRead, GetLmaWrite,
       UngetLmaWrite, vctr_get_chunk, chnk_incr_num_readers, vctr_get_chunk_lma,
       vctr_unget_chunk, vctr_get1, vctr_get_lma_read, vctr_unget_lma_read,
       get_lma_write, vctr_unget_lma_write, vctrTable
  <2> QED BY <1>0, <2>1
<1>2. CASE VctrAdd \/ AddWithNn
  BY <1>2, NewReaders
<1>3. CASE (GrowNext \/ TierNext \/ LifeNext) /\ ~(VctrAdd \/ AddWithNn)
  <2>1. g_vctr_uqid' = g_vctr_uqid
    BY <1>3, SameVctrs, DeletionReadersStay
  <2> QED BY <1>0, <2>1
<1> QED BY <1>1, <1>2, <1>3 DEF Next

-----------------------------------------------------------------------------
(* Starting from what was saved.                                           *)

(* Reading the tables brings back the rows of what was persisted.          *)
LEMMA TablesRead ==
  ASSUME SavedTypes, NEW v \in Promised, RowSaved(v), RestoreTables
  PROVE  AsRead(v)'
<1>1. /\ vctrs' = vctr_file.keys /\ vctr' = vctr_file.rows
      /\ chnks' = chnk_file.keys
      /\ chnk' = [k \in Keys |-> IF k \in chnk_file.keys THEN AsUnfrozen(chnk_file.rows[k])
                                 ELSE ZeroChnk]
      /\ UNCHANGED <<vctr_file, chnk_file>>
      /\ chnk_file.rows \in [Keys -> ChnkVal]
  BY DEF RestoreTables, SavedTypes, disk
<1>2. PICK x : x = vctr_file.rows[v]
  OBVIOUS
<1>3. /\ v \in vctr_file.keys /\ x.is_persist /\ x.is_eov /\ x.num_elements > 0
      /\ \A k \in RowKeys(x, v) : k \in chnk_file.keys
  BY <1>2 DEF Promised, RowSaved
<1>4. ASSUME NEW k \in RowKeys(x, v)
      PROVE  /\ k \in chnks' /\ ~chnk'[k].l1_mem
             /\ chnk'[k].num_elements = chnk_file.rows[k].num_elements
             /\ chnk'[k].l2_exists = chnk_file.rows[k].l2_exists
  <2>1. k \in Keys
    BY DEF RowKeys
  <2>2. PICK c \in ChnkVal : c = chnk_file.rows[k]
    BY <1>1, <2>1
  <2>3. chnk'[k] = AsUnfrozen(c)
    BY <1>1, <1>3, <2>1, <2>2
  <2>4. /\ ~AsUnfrozen(c).l1_mem /\ AsUnfrozen(c).num_elements = c.num_elements
        /\ AsUnfrozen(c).l2_exists = c.l2_exists
    BY <2>2 DEF AsUnfrozen, ChnkVal
  <2> QED BY <1>1, <1>3, <2>2, <2>3, <2>4
<1>5. vctr'[v] = x
  BY <1>1, <1>2
<1> QED BY <1>1, <1>2, <1>3, <1>4, <1>5, Zenon DEF AsRead, RowKeys, Idxs

(* What clean_hmap() leaves alone is still as it was read.                 *)
LEMMA ApartRead ==
  ASSUME NEW v \in Uqids, UNCHANGED disk, AsRead(v), FilesHold(v), Apart(v)
  PROVE  AsRead(v)' /\ FilesHold(v)'
<1>1. UNCHANGED <<vctr_file, chnk_file>>
  BY DEF disk
<1>2. PICK x : x = vctr_file.rows[v]
  OBVIOUS
<1>3. \A k \in RowKeys(x, v) :
        /\ k \in Keys /\ k[1] = v
        /\ k \in chnks' <=> k \in chnks
        /\ l2'[k] = l2[k]
        /\ chnk'[k].num_elements = chnk[k].num_elements
        /\ chnk'[k].l1_mem = chnk[k].l1_mem
        /\ chnk'[k].l2_exists = chnk[k].l2_exists
  BY DEF RowKeys, Apart
<1>4. FilesHold(v)'
  BY <1>2, <1>3, HoldSame DEF Apart
<1>5. /\ v \in vctrs /\ vctr[v].is_persist /\ vctr[v].is_eov /\ vctr[v].num_elements > 0
      /\ vctr[v].min_chnk_idx = x.min_chnk_idx /\ vctr[v].max_chnk_idx = x.max_chnk_idx
      /\ vctr[v].is_lma = x.is_lma
      /\ \A k \in RowKeys(x, v) :
           /\ k \in chnks /\ ~chnk[k].l1_mem
           /\ chnk[k].num_elements = chnk_file.rows[k].num_elements
           /\ chnk[k].l2_exists = chnk_file.rows[k].l2_exists
  BY <1>2, Zenon DEF AsRead
<1>6. RowLasts(vctr[v], vctr'[v]) /\ v \in vctrs'
  BY <1>5 DEF Apart
<1>7. /\ vctr'[v].is_persist /\ vctr'[v].is_eov /\ vctr'[v].num_elements > 0
      /\ vctr'[v].min_chnk_idx = x.min_chnk_idx /\ vctr'[v].max_chnk_idx = x.max_chnk_idx
      /\ vctr'[v].is_lma = x.is_lma
  BY <1>5, <1>6 DEF RowLasts, Keeps
<1>8. \A k \in RowKeys(x, v) :
           /\ k \in chnks' /\ ~chnk'[k].l1_mem
           /\ chnk'[k].num_elements = chnk_file.rows[k].num_elements
           /\ chnk'[k].l2_exists = chnk_file.rows[k].l2_exists
  BY <1>3, <1>5
<1> QED BY <1>1, <1>2, <1>4, <1>6, <1>7, <1>8, Zenon DEF AsRead, RowKeys, Idxs

(* The end of a restore leaves the vector that came back steady.           *)
LEMMA DoneKept ==
  ASSUME TypeOK, NEW v \in Uqids, RestoreDone, RowSaved(v), FilesHold(v), AsRead(v)
  PROVE  Kept(v)'
<1>0. /\ UNCHANGED <<vctrs, chnks, chnk>> /\ UNCHANGED disk /\ mode' = "up"
      /\ UNCHANGED <<vctr_file, chnk_file>>
  BY DEF RestoreDone, chnkTable, disk
<1>1. PICK x : x = vctr_file.rows[v]
  OBVIOUS
<1>2. /\ v \in vctrs /\ vctr[v].is_persist /\ vctr[v].is_eov /\ vctr[v].num_elements > 0
      /\ vctr[v].min_chnk_idx = x.min_chnk_idx /\ vctr[v].max_chnk_idx = x.max_chnk_idx
      /\ vctr[v].is_lma = x.is_lma
      /\ \A k \in RowKeys(x, v) :
           /\ k \in chnks /\ ~chnk[k].l1_mem
           /\ chnk[k].num_elements = chnk_file.rows[k].num_elements
           /\ chnk[k].l2_exists = chnk_file.rows[k].l2_exists
  BY <1>1, Zenon DEF AsRead
<1>3. vctr[v] \in VctrVal /\ vctr'[v] = AsCleaned(vctr[v])
  BY <1>2 DEF RestoreDone, TypeOK
<1>4. PICK y : y = vctr'[v]
  OBVIOUS
<1>5. /\ y.is_persist /\ y.is_eov /\ y.num_elements > 0
      /\ y.min_chnk_idx = x.min_chnk_idx /\ y.max_chnk_idx = x.max_chnk_idx
      /\ y.is_lma = x.is_lma /\ y.num_writers = 0
  <2>1. PICK z \in VctrVal : z = vctr[v]
    BY <1>3
  <2>2. y = [z EXCEPT !.X = FALSE, !.is_killable = FALSE, !.is_early_freeable = FALSE,
                      !.num_readers = 0, !.num_writers = 0]
    BY <1>3, <1>4, <2>1 DEF AsCleaned
  <2>3. /\ y.is_persist = z.is_persist /\ y.is_eov = z.is_eov
        /\ y.num_elements = z.num_elements
        /\ y.min_chnk_idx = z.min_chnk_idx /\ y.max_chnk_idx = z.max_chnk_idx
        /\ y.is_lma = z.is_lma /\ y.num_writers = 0
    BY <2>2 DEF VctrVal
  <2> QED BY <1>2, <2>1, <2>3
\* the files of a vector in the table are nobody else's
<1>6. lma'[v] = lma[v] /\ \A k \in RowKeys(x, v) : l2'[k] = l2[k]
  BY <1>2 DEF RestoreDone, Disowned, RowKeys
<1>7. FilesHold(v)'
  BY <1>0, <1>1, <1>6, HoldSame
<1>8. /\ Idxs(x) \subseteq ChnkIdxs
      /\ \A k \in RowKeys(x, v) : x.is_lma \/ chnk_file.rows[k].l2_exists
      /\ x.is_lma => lma[v].size > 0
      /\ \A k \in RowKeys(x, v) :
           LET c == chnk_file.rows[k]
           IN  /\ x.is_lma => {k[2]} \X Filled(c) \subseteq lma[v].data
               /\ c.l2_exists => l2[k].file = "full" /\ Filled(c) \subseteq l2[k].data
  BY <1>1, Zenon DEF RowSaved, FilesHold
<1>9. ASSUME NEW k \in RowKeys(x, v) PROVE Sure(k)'
  <2>1. k[1] = v /\ l2'[k] = l2[k] /\ lma'[v] = lma[v]
    BY <1>6 DEF RowKeys
  <2>2. Filled(chnk[k]) = Filled(chnk_file.rows[k])
    BY <1>2 DEF Filled
  <2>3. /\ ~chnk'[k].l1_mem
        /\ chnk'[k].l2_exists => l2'[k].file = "full" /\ Filled(chnk'[k]) \subseteq l2'[k].data
        /\ y.is_lma => {k[2]} \X Filled(chnk'[k]) \subseteq lma'[v].data
    BY <1>0, <1>2, <1>5, <1>8, <2>1, <2>2, Zenon
  <2>4. Copies(k)'
    BY <1>4, <2>1, <2>3, Zenon DEF Copies, Filled
  <2>5. k \in chnks' /\ (chnk'[k].l2_exists \/ y.is_lma) /\ ~(y.num_writers > 0)
    BY <1>0, <1>2, <1>5, <1>8
  <2> QED BY <1>4, <2>1, <2>4, <2>5, Zenon DEF Sure
<1>10. Idxs(y) = Idxs(x)
  BY <1>5 DEF Idxs
<1>11. Steady(v)'
  <2>1. \A k \in RowKeys(y, v) : Sure(k)'
    BY <1>9, <1>10 DEF RowKeys
  <2>2. y.is_lma => lma'[v].size > 0
    BY <1>5, <1>6, <1>8
  <2> QED BY <1>0, <1>2, <1>4, <1>5, <1>8, <1>10, <2>1, <2>2, Zenon DEF Steady
<1>12. AsSaved(v)'
  <2>1. \A k \in RowKeys(x, v) :
          /\ chnk'[k].num_elements = chnk_file.rows[k].num_elements
          /\ chnk_file.rows[k].l2_exists => chnk'[k].l2_exists
    BY <1>0, <1>2
  <2> QED BY <1>0, <1>1, <1>4, <1>5, <1>11, <2>1, Zenon DEF AsSaved, RowKeys, Idxs
<1>13. v <= g_vctr_uqid'
  BY <1>2, LastUqidIs DEF RestoreDone, TypeOK
<1>14. RowSaved(v)'
  BY <1>0, SavedRowSame
<1>15. InUp(v)'
  BY <1>0, <1>2, <1>12, <1>13 DEF InUp
<1> QED BY <1>0, <1>7, <1>14, <1>15 DEF Kept

(* clean_hmap() deletes a vector, and leaves the others apart.             *)
LEMMA CleanApart ==
  ASSUME TypeOK, half_deleted' = {}, NEW w \in vctrs, CleanDel(w)
  PROVE  \A u \in Uqids \ {w} : Apart(u)
<1>1. vctr \in [Uqids -> VctrVal] /\ \A u \in Uqids : RowLasts(vctr[u], vctr[u])
  BY FieldsKeep DEF TypeOK, RowLasts
<1>2. vctr_del(vctr, w)
  BY DEF CleanDel
<1> QED BY <1>1, <1>2, DelFares

(* When it fails, it has touched the files of one vector only.             *)
LEMMA CleanFailsHold ==
  ASSUME TypeOK, NEW w \in Uqids, CleanFails(w), NEW v \in Uqids, v # w,
         RowSaved(v), FilesHold(v)
  PROVE  Kept(v)'
<1>1. UNCHANGED disk /\ mode' = "failed"
  BY DEF CleanFails
<1>2. lma'[v] = lma[v]
  BY DEF CleanFails, TypeOK
<1>3. \A k \in RowKeys(vctr_file.rows[v], v) : l2'[k] = l2[k]
  <2>1. PICK D : l2' = L2AfterDel(chnk, w, D, FALSE)
    BY Zenon DEF CleanFails
  <2>2. \A k \in Keys : k[1] # w => l2'[k] = l2[k]
    BY <2>1 DEF L2AfterDel, KeysOf, Keys
  <2> QED BY <2>2 DEF RowKeys
<1> QED BY <1>1, <1>2, <1>3, SavedRowSame, HoldSame DEF Kept

(* A step that leaves the disk alone, and after which Q is neither up nor  *)
(* restoring.                                                              *)
LEMMA DownKept ==
  ASSUME NEW v, UNCHANGED <<l2, lma, disk>>, Kept(v), mode' \notin {"up", "cleaning"}
  PROVE  Kept(v)'
<1>1. UNCHANGED disk /\ lma'[v] = lma[v]
      /\ \A k \in RowKeys(vctr_file.rows[v], v) : l2'[k] = l2[k]
  OBVIOUS
<1> QED BY <1>1, SavedRowSame, HoldSame DEF Kept

(* So does no step at all.                                                 *)
LEMMA IdleKept ==
  ASSUME NEW v \in Uqids, UNCHANGED svars, Kept(v), TypeOK
  PROVE  Kept(v)'
<1>1. /\ UNCHANGED disk /\ mode' = mode
      /\ UNCHANGED <<g_vctr_uqid, vctrs, vctr, rest, l2, lma, chnks, chnk>>
  BY DEF svars, vars, vctrTable, chnkTable, rest, usage
<1>2. \A u \in Uqids : RowLasts(vctr[u], vctr'[u])
  BY <1>1, FieldsKeep DEF TypeOK, RowLasts
<1>3. Apart(v) /\ Fares(v)
  BY <1>1, <1>2, RowsLastFares
<1>4. CASE mode = "up"
  <2>1. g_vctr_uqid' \in Nat /\ g_vctr_uqid \in Nat /\ g_vctr_uqid <= g_vctr_uqid'
    BY <1>1 DEF TypeOK
  <2> QED BY <1>1, <1>3, <1>4, <2>1, FaresKept DEF Kept
<1>5. CASE mode = "cleaning"
  <2>1. RowSaved(v)' /\ AsRead(v)' /\ FilesHold(v)'
    BY <1>1, <1>3, <1>5, ApartRead, SavedRowSame DEF Kept
  <2> QED BY <1>1, <1>5, <2>1 DEF Kept
<1>6. CASE mode \notin {"up", "cleaning"}
  BY <1>1, <1>6, DownKept
<1> QED BY <1>4, <1>5, <1>6

(* Nothing that a careful client, a crash or a restore does takes what a   *)
(* whole save has promised from the disk.                                  *)
LEMMA NextWhole ==
  ASSUME Careful = TRUE, TypeOK, TypeOK', SavedTypes, CleanInv, UpOk, SavingInv,
         WholeSaved, restored => mode # "saving", [SessionNext]_svars
  PROVE  WholeSaved'
<1> SUFFICES ASSUME whole' PROVE WholeSaved'
  BY DEF WholeSaved
<1>1. CASE SaveTables
  <2>1. /\ vctr_file' = [is |-> "saved", keys |-> vctrs, rows |-> vctr]
        /\ chnk_file' = [is |-> "saved", keys |-> chnks, rows |-> chnk]
        /\ q_meta' = [ok |-> TRUE, names |-> names]
        /\ mode = "saving" /\ mode' = "up" /\ half_deleted = {} /\ half_deleted' = {}
    BY <1>1 DEF SaveTables, VctrsNow, ChnksNow, vars, client
  <2>2. /\ vctr_file'.is = "saved" /\ chnk_file'.is = "saved"
        /\ vctr_file'.keys = vctrs /\ q_meta'.names = names
    BY <2>1
  <2>3. ASSUME NEW v \in Promised' PROVE Kept(v)'
    <3>1. v \in vctrs /\ v \in names
      BY <2>2, <2>3 DEF Promised
    <3>2. Steady(v) /\ Backed(v)
      BY <2>1, <3>1 DEF SavingInv
    <3>3. v \in Uqids /\ v <= g_vctr_uqid
      BY <2>1, <3>1 DEF UpOk, UpInv, UqidsGiven, TypeOK
    <3> QED BY <1>1, <3>2, <3>3, SavedTables
  <2>4. q_meta'.ok /\ q_meta'.names \subseteq Promised'
    <3>1. vctr_file'.rows = vctr
      BY <2>1
    <3>2. \A v \in names : v \in vctrs /\ vctr[v].is_persist
      BY <2>1 DEF SavingInv, Steady
    <3> QED BY <2>1, <2>2, <3>1, <3>2 DEF Promised
  <2> QED BY <2>1, <2>2, <2>3, <2>4 DEF WholeSaved
<1>2. CASE ~SaveTables
  <2>1. ~SaveBegin /\ ~StartNew
    BY DEF SaveBegin, StartNew
  <2>2. UNCHANGED disk
    <3>1. \A v \in Uqids : SaveSkip(v) \/ SaveMakeMem(v) \/ SavePersist(v) => UNCHANGED disk
      BY DEF SaveSkip, SaveMakeMem, SavePersist
    <3>2. ~SaveTears
      BY DEF SaveTears, SavingInv
    <3>3. \A v \in Uqids : CleanDel(v) \/ CleanFails(v) => UNCHANGED disk
      BY DEF CleanDel, CleanFails
    <3>4. Client \/ Crash \/ RestoreNothing \/ RestoreTorn \/ RestoreTables
            \/ RestoreDone \/ RestoreFails \/ UNCHANGED svars => UNCHANGED disk
      BY DEF Client, Crash, RestoreNothing, RestoreTorn, RestoreTables, RestoreDone,
         RestoreFails, svars
    <3> QED BY <1>2, <2>1, <3>1, <3>2, <3>3, <3>4, Zenon DEF SessionNext, Save, Start
  <2>3. whole /\ UNCHANGED <<whole, vctr_file, chnk_file, q_meta>>
    BY <2>2 DEF disk
  <2>4. /\ vctr_file.is = "saved" /\ chnk_file.is = "saved"
        /\ q_meta.ok /\ q_meta.names \subseteq Promised /\ half_deleted = {}
        /\ mode = "cleaning" => todo \subseteq vctrs
        /\ \A v \in Promised : Kept(v)
    BY <2>3 DEF WholeSaved
  <2>5. mode # "saving"
    BY <2>3 DEF SavingInv
  <2>6. Promised' = Promised
    BY <2>3 DEF Promised
  <2>7. \A v \in Promised : v \in Uqids /\ RowSaved(v) /\ FilesHold(v)
    BY <2>4 DEF Promised, SavedTypes, Kept
  <2>8. ASSUME \A v \in Promised : Kept(v)', mode' # "cleaning", half_deleted' = {}
        PROVE  WholeSaved'
    BY <2>3, <2>4, <2>6, <2>8 DEF WholeSaved
  <2>9. CASE Client
    <3>1. /\ mode = "up" /\ mode' = "up" /\ Next /\ CarefulClient
          /\ half_deleted' = {}
      BY <2>4, <2>9 DEF Client, CarefulClient
    <3>2. \A u \in Uqids : u <= g_vctr_uqid => Fares(u)
      BY <3>1, NextFares
    <3>3. g_vctr_uqid' \in Nat /\ g_vctr_uqid \in Nat /\ g_vctr_uqid <= g_vctr_uqid'
      BY <3>1, UqidsGrow DEF TypeOK
    <3>4. ASSUME NEW v \in Promised PROVE Kept(v)'
      <4>1. InUp(v)
        BY <2>4, <3>1 DEF Kept
      <4>2. Fares(v)
        BY <2>7, <3>2, <4>1 DEF InUp
      <4> QED BY <2>2, <2>7, <3>1, <3>3, <4>1, <4>2, FaresKept
    <3> QED BY <2>8, <3>1, <3>4
  <2>10. CASE Crash \/ RestoreTorn \/ RestoreFails
    <3>1. UNCHANGED <<l2, lma, disk>> /\ mode' \notin {"up", "cleaning"}
          /\ half_deleted' = {}
      BY <2>10 DEF Crash, RestoreTorn, RestoreFails, LoseMemory
    <3> QED BY <2>4, <2>8, <3>1, DownKept
  <2>11. CASE RestoreTables
    <3>1. mode' = "cleaning" /\ vctrs' = vctr_file.keys /\ todo' \subseteq vctr_file.keys
      BY <2>11 DEF RestoreTables, ToClean
    <3>2. UNCHANGED <<l2, lma, half_deleted>>
      BY <2>11 DEF RestoreTables, client
    <3>3. ASSUME NEW v \in Promised PROVE Kept(v)'
      <4>1. AsRead(v)'
        BY <2>7, <2>11, TablesRead
      <4>2. RowSaved(v)' /\ FilesHold(v)'
        BY <2>2, <2>7, <3>2, SavedRowSame, HoldSame
      <4> QED BY <3>1, <4>1, <4>2 DEF Kept
    <3> QED BY <2>3, <2>4, <2>6, <3>1, <3>2, <3>3 DEF WholeSaved
  <2>12. CASE RestoreDone
    <3>1. mode = "cleaning" /\ mode' = "up" /\ half_deleted' = {}
      BY <2>4, <2>12 DEF RestoreDone, client
    <3>2. ASSUME NEW v \in Promised PROVE Kept(v)'
      <4>1. AsRead(v)
        BY <2>4, <3>1 DEF Kept
      <4> QED BY <2>7, <2>12, <4>1, DoneKept
    <3> QED BY <2>8, <3>1, <3>2
  <2>13. ASSUME NEW w \in Uqids, CleanDel(w) \/ CleanFails(w) PROVE WholeSaved'
    <3>1. mode = "cleaning" /\ w \in todo
      BY <2>13 DEF CleanDel, CleanFails
    <3>2. w \in vctrs /\ \A v \in Promised : v # w
      BY <2>4, <3>1 DEF CleanInv, ToClean, Promised
    <3>3. CASE CleanFails(w)
      <4>1. mode' = "failed" /\ half_deleted' = {}
        BY <3>3 DEF CleanFails, LoseMemory
      <4> QED BY <2>7, <2>8, <3>2, <3>3, <4>1, CleanFailsHold
    <3>4. CASE CleanDel(w)
      <4>0. half_deleted' = {}
        <5>1. Deletable(w) /\ vctr_del(vctr, w) /\ \A k \in Keys : chnk[k].num_readers = 0
          BY <3>1, <3>4 DEF CleanDel, CleanInv
        <5> QED BY <2>4, <5>1, CleanDelEffect
      <4>1. \A u \in Uqids \ {w} : Apart(u)
        BY <3>2, <3>4, <4>0, CleanApart
      <4>2. mode' = "cleaning" /\ todo' = todo \ {w}
        BY <3>1, <3>4 DEF CleanDel
      <4>3. todo' \subseteq vctrs'
        BY <2>4, <3>1, <4>1, <4>2 DEF Apart, TypeOK
      <4>4. ASSUME NEW v \in Promised PROVE Kept(v)'
        <5>1. AsRead(v)
          BY <2>4, <3>1 DEF Kept
        <5>2. AsRead(v)' /\ FilesHold(v)'
          BY <2>2, <2>7, <3>2, <4>1, <5>1, ApartRead
        <5>3. RowSaved(v)'
          BY <2>2, <2>7, SavedRowSame
        <5> QED BY <4>2, <5>2, <5>3 DEF Kept
      <4> QED BY <2>3, <2>4, <2>6, <4>0, <4>3, <4>4 DEF WholeSaved
    <3> QED BY <2>13, <3>3, <3>4
  <2>14. CASE UNCHANGED svars
    <3>1. UNCHANGED <<mode, todo, vctrs, half_deleted>>
      BY <2>14 DEF svars, vars, vctrTable, client
    <3>2. \A v \in Promised : Kept(v)'
      BY <2>4, <2>7, <2>14, IdleKept
    <3> QED BY <2>3, <2>4, <2>6, <3>1, <3>2 DEF WholeSaved
  <2>15. ~RestoreNothing
    BY <2>4 DEF RestoreNothing, Missing
  <2>16. \A v \in Uqids : ~SaveSkip(v) /\ ~SaveMakeMem(v) /\ ~SavePersist(v)
    BY <2>5 DEF SaveSkip, SaveMakeMem, SavePersist
  <2>17. ~SaveTears
    BY <2>5 DEF SaveTears
  <2> QED BY <1>2, <2>1, <2>9, <2>10, <2>11, <2>12, <2>13, <2>14, <2>15, <2>16, <2>17,
             Zenon DEF SessionNext, Save, Start
<1> QED BY <1>1, <1>2

(* What a whole save has promised is on disk.                              *)
LEMMA WholeOnDisk ==
  ASSUME SavedTypes, WholeSaved
  PROVE  SavedOnDisk
<1> SUFFICES ASSUME whole, NEW v \in vctr_file.keys, vctr_file.rows[v].is_persist,
                    v \in q_meta.names, NEW i \in Idxs(vctr_file.rows[v])
             PROVE  LET x == vctr_file.rows[v]
                        c == chnk_file.rows[<<v, i>>]
                    IN  /\ <<v, i>> \in chnk_file.keys
                        /\ \/ x.is_lma /\ {i} \X Filled(c) \subseteq lma[v].data
                           \/ c.l2_exists /\ Filled(c) \subseteq l2[<<v, i>>].data
  BY DEF SavedOnDisk
<1>1. RowSaved(v) /\ FilesHold(v) /\ v \in Uqids
  BY DEF WholeSaved, Promised, Kept, SavedTypes
<1>2. PICK x, k : x = vctr_file.rows[v] /\ k = <<v, i>>
  OBVIOUS
<1>3. k \in RowKeys(x, v) /\ k[2] = i
  <2>1. i \in ChnkIdxs
    BY <1>1, <1>2 DEF RowSaved
  <2> QED BY <1>1, <1>2, <2>1 DEF RowKeys, Keys
<1>4. k \in chnk_file.keys /\ (x.is_lma \/ chnk_file.rows[k].l2_exists)
  BY <1>1, <1>2, <1>3 DEF RowSaved
<1>5. /\ x.is_lma => {k[2]} \X Filled(chnk_file.rows[k]) \subseteq lma[v].data
      /\ chnk_file.rows[k].l2_exists => Filled(chnk_file.rows[k]) \subseteq l2[k].data
  BY <1>1, <1>2, <1>3, Zenon DEF FilesHold
<1> QED BY <1>2, <1>3, <1>4, <1>5, Zenon

(* The invariants together, of sessions with careful clients, which are    *)
(* saved only if they began new.                                           *)
LEMMA SessionWhole ==
  ASSUME Careful = TRUE, EarlyBackup = FALSE
  PROVE  SessionSpec /\ History /\ [](restored => mode # "saving")
           => [](TypeOK /\ SavedTypes /\ CleanInv /\ SavingInv /\ WholeSaved)
<1>1. SessionInit => CleanInv /\ UpOk /\ SavingInv /\ WholeSaved
  BY DEF SessionInit, CleanInv, UpOk, SavingInv, WholeSaved
<1>2. TypeOK /\ SavedTypes /\ CleanInv /\ [SessionNext]_svars => CleanInv'
  BY NextClean
<1>3. TypeOK /\ TypeOK' /\ UpOk /\ [SessionNext]_svars /\ [Remember]_<<svars, restored>>
        /\ (VctrInit' => UpInv') => UpOk'
  BY NextUpOk
<1>4. TypeOK /\ TypeOK' /\ UpOk /\ SavingInv
        /\ (restored => mode # "saving") /\ [SessionNext]_svars => SavingInv'
  BY NextSaving
<1>5. TypeOK /\ TypeOK' /\ SavedTypes /\ CleanInv /\ UpOk /\ SavingInv /\ WholeSaved
        /\ (restored => mode # "saving") /\ [SessionNext]_svars
        => WholeSaved'
  BY NextWhole
<1>6. SessionSpec => [](TypeOK /\ SavedTypes)
  BY SessionTypeInv
<1>7. VctrInit => UpInv
  BY InitUp
<1> QED BY <1>1, <1>2, <1>3, <1>4, <1>5, <1>6, <1>7, PTL DEF SessionSpec, History

(* What a save that came to its end has persisted stays on disk, complete, *)
(* whatever the session does after it, however often it crashes and is     *)
(* restored, and whatever clean_hmap() deletes then: a crash while a save  *)
(* is under way included.  This takes a client that is careful             *)
(* (CarefulClient) and backs up no vector that still grows.  It is for     *)
(* saves made in sessions that began new; those sessions are restored as   *)
(* often as one likes.                                                     *)
THEOREM SessionSavedOnDisk ==
  ASSUME Careful = TRUE, EarlyBackup = FALSE
  PROVE  SessionSpec /\ History /\ [](restored => mode # "saving") => []SavedOnDisk
<1>1. SavedTypes /\ WholeSaved => SavedOnDisk
  BY WholeOnDisk
<1> QED BY <1>1, SessionWhole, PTL

-----------------------------------------------------------------------------
(* Starting from a save that reached every vector.                         *)

(* vctr_usage() finds the files of a vector that a whole save promised.    *)
LEMMA UsageSucceeds ==
  ASSUME TypeOK, NEW v \in Uqids, RowSaved(v), FilesHold(v), AsRead(v)
  PROVE  vctr_usage(v)
<1>1. PICK x : x = vctr_file.rows[v]
  OBVIOUS
<1>2. /\ vctr[v].min_chnk_idx = x.min_chnk_idx /\ vctr[v].max_chnk_idx = x.max_chnk_idx
      /\ vctr[v].is_lma = x.is_lma
      /\ \A k \in RowKeys(x, v) : /\ k \in chnks
                                  /\ chnk[k].l2_exists = chnk_file.rows[k].l2_exists
  BY <1>1, Zenon DEF AsRead
<1>3. /\ Idxs(x) \subseteq ChnkIdxs /\ x.min_chnk_idx <= x.max_chnk_idx
      /\ \A k \in RowKeys(x, v) : x.is_lma \/ chnk_file.rows[k].l2_exists
  BY <1>1, Zenon DEF RowSaved
<1>4. \A k \in RowKeys(x, v) : chnk_file.rows[k].l2_exists => l2[k].file = "full"
  BY <1>1, Zenon DEF FilesHold
<1>5. Idxs(vctr[v]) = Idxs(x)
  BY <1>2 DEF Idxs
<1>6. \A i \in Idxs(x) : <<v, i>> \in RowKeys(x, v)
  BY <1>3 DEF RowKeys, Keys
<1>7. \A i \in Idxs(x) : vctr[v].is_lma \/ i \in OnDisk(v)
  BY <1>2, <1>3, <1>5, <1>6 DEF OnDisk, chnk_is
<1>8. \A i \in OnDisk(v) : l2[<<v, i>>].file = "full"
  BY <1>2, <1>4, <1>5, <1>6 DEF OnDisk
<1>9. x.min_chnk_idx \in Idxs(x)
  <2>1. vctr[v].min_chnk_idx \in Nat
    BY DEF TypeOK, VctrVal
  <2> QED BY <1>2, <1>3, <2>1 DEF Idxs
<1> QED BY <1>5, <1>7, <1>8, <1>9 DEF vctr_usage

(* When the save reached every vector, clean_hmap() has none to delete,    *)
(* and finds all files.                                                    *)
LEMMA AllRestorable ==
  ASSUME TypeOK, SavedTypes, CleanInv, WholeSaved, whole, AllReached, mode = "cleaning"
  PROVE  todo = {} /\ Restorable
<1>1. /\ todo \subseteq ToClean(vctr_file.keys, vctr_file.rows)
      /\ vctrs \subseteq vctr_file.keys
      /\ \A v \in vctr_file.keys : vctr_file.rows[v].is_persist => v \in vctrs
  BY DEF CleanInv
<1>2. /\ q_meta.ok /\ q_meta.names \subseteq Promised
      /\ \A v \in Promised : Kept(v)
      /\ vctr_file.keys \subseteq Uqids
  BY DEF WholeSaved, SavedTypes
<1>3. \A v \in vctr_file.keys : v \in Promised /\ vctr_file.rows[v].is_persist
  BY <1>2 DEF AllReached, Promised
<1>4. todo = {}
  BY <1>1, <1>3 DEF ToClean
<1>5. q_meta.names \subseteq vctrs
  BY <1>1, <1>3 DEF AllReached
<1>6. ASSUME NEW v \in vctrs PROVE vctr_usage(v)
  <2>1. v \in Uqids /\ Kept(v)
    BY <1>1, <1>2, <1>3
  <2> QED BY <2>1, UsageSucceeds DEF Kept
<1> QED BY <1>2, <1>4, <1>5, <1>6 DEF Restorable

(* The step of RestoreSucceeds: nothing else makes a start fail.           *)
LEMMA NextSucceeds ==
  ASSUME TypeOK, SavedTypes, CleanInv, SavingInv, WholeSaved, RestoreSucceeds,
         [SessionNext]_svars
  PROVE  RestoreSucceeds'
<1> SUFFICES ASSUME whole', AllReached', mode' = "failed" PROVE FALSE
  BY DEF RestoreSucceeds
<1>1. \/ RestoreTorn \/ RestoreFails \/ UNCHANGED svars
      \/ \E v \in Uqids : CleanFails(v)
  <2>1. ~Client
    BY DEF Client
  <2>2. ~Save
    BY DEF Save, SaveBegin, SaveTables, SaveTears, SaveSkip, SaveMakeMem, SavePersist,
       SavingInv
  <2>3. ~Crash
    BY DEF Crash
  <2>4. ~StartNew /\ ~RestoreNothing /\ ~RestoreTables /\ ~RestoreDone
    BY DEF StartNew, RestoreNothing, RestoreTables, RestoreDone
  <2>5. \A v \in Uqids : ~CleanDel(v)
    BY DEF CleanDel
  <2> QED BY <2>1, <2>2, <2>3, <2>4, <2>5, Zenon DEF SessionNext, Start
<1>2. UNCHANGED disk
  BY <1>1 DEF RestoreTorn, RestoreFails, CleanFails, svars
<1>3. whole /\ AllReached
  BY <1>2 DEF disk, AllReached
<1>4. vctr_file.is = "saved" /\ chnk_file.is = "saved"
  BY <1>3 DEF WholeSaved
<1>5. ~RestoreTorn
  BY <1>4 DEF RestoreTorn, Torn, Missing
<1>6. ~RestoreFails /\ \A v \in Uqids : ~CleanFails(v)
  BY <1>3, AllRestorable DEF RestoreFails, CleanFails
<1>7. ~UNCHANGED svars
  BY <1>3 DEF RestoreSucceeds, svars
<1> QED BY <1>1, <1>5, <1>6, <1>7

(* Under the same conditions, starting from a save that reached every      *)
(* vector never fails, however often: restore_session() has no vector to   *)
(* delete that clean_hmap() might fail on, and finds every file it looks   *)
(* for, which it would not after a careless drop_mem or get_lma_write.     *)
THEOREM SessionRestoreSucceeds ==
  ASSUME Careful = TRUE, EarlyBackup = FALSE
  PROVE  SessionSpec /\ History /\ [](restored => mode # "saving") => []RestoreSucceeds
<1>1. SessionInit => RestoreSucceeds
  BY DEF SessionInit, RestoreSucceeds
<1>2. TypeOK /\ SavedTypes /\ CleanInv /\ SavingInv /\ WholeSaved /\ RestoreSucceeds
        /\ [SessionNext]_svars => RestoreSucceeds'
  BY NextSucceeds
<1> QED BY <1>1, <1>2, SessionWhole, PTL DEF SessionSpec
=============================================================================
