------------------------------- MODULE MCVctr -------------------------------
(***************************************************************************)
(* An instance of Vctr for TLC that looks at one vector in full and at     *)
(* three for the ties between them.                                        *)
(***************************************************************************)
EXTENDS Vctr

\* a vector about which nothing matters but its ties and whether it is there
Plain(v) ==
  LET x == vctr[v]
  IN  /\ x.num_elements <= 1 /\ x.memo_len = 0
      /\ ~x.is_early_freeable /\ ~x.is_error

(* Bound: beside a second vector, all of them are plain and have no files. *)
OneOrThree == g_vctr_uqid > 1 => dsk_used = 0 /\ \A v \in vctrs : Plain(v)

(* Bound: of a vctr_set_lma() that failed, only what leaves the account of *)
(* the disk right, and a file of the longest size, is followed any further.*)
LongLeftover ==
  /\ DskExact
  /\ \A v \in vctrs : ~vctr[v].is_lma => lma[v].size \in {0, MaxElems}
=============================================================================
