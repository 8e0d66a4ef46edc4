----------------------------- MODULE MCLVector ------------------------------
(***************************************************************************)
(* Instances of LVector for TLC.  In each x is a source that keeps only    *)
(* its last chunk, and y and z are computed from it and conjoined; s1 and  *)
(* s2 are y split, u1 and u2 its values and counts, and the reducer reduces*)
(* z.  The client never asks for x, of which only y and z make use.        *)
(***************************************************************************)
EXTENDS LVector

MCVec == {"x", "y", "z", "s1", "s2", "u1", "u2"}
MCOp == [v \in MCVec |->
  CASE v = "x" -> "seq" [] v = "y" -> "map" [] v = "z" -> "zip"
    [] v \in {"s1", "s2"} -> "split" [] v \in {"u1", "u2"} -> "unique"]
MCIn == [v \in MCVec |->
  CASE v = "x" -> <<>> [] v = "y" -> <<"x">> [] v = "z" -> <<"x", "x">>
    [] OTHER -> <<"y">>]
MCLead == [v \in MCVec |->
  CASE v = "s2" -> "s1" [] v = "u2" -> "u1" [] OTHER -> v]
MCMemo == [v \in MCVec |-> IF v = "x" THEN 1 ELSE 0]
MCSibs == [v \in MCVec |->
  CASE v = "y" -> <<"z">> [] v = "z" -> <<"y">> [] OTHER -> <<>>]

(* Grouped values, in a whole number of chunks and not, with runs that end *)
(* with a chunk of the input and runs that go on in the next one.          *)
Grouped == {<<1>>, <<1, 1>>, <<1, 2, 3>>, <<1, 1, 2, 3>>, <<1, 2, 2, 2, 3>>,
            <<1, 2, 3, 4, 5>>}

(* As many runs as fit in a chunk: what unique cannot end on. *)
FullOfRuns == {<<1, 2>>, <<1, 1, 2>>}
=============================================================================
