------------------------------ MODULE VctrStolen ------------------------------
(***************************************************************************)
(* The session of module Vctr, with a count of the buffers that were given *)
(* away: the memory of a stealable buffer becomes the chunk's without      *)
(* being added to g_mem_used, and is subtracted when the chunk goes.  The  *)
(* count is a history variable; it bounds how far the account may be off.  *)
(***************************************************************************)
EXTENDS Vctr

VARIABLE stolen

\* the step puts a chunk whose buffer may be taken over
PutsStolen ==
  TRUE \in Steals /\ \E v \in Uqids, n \in 1..MaxNumInChnk : vctr_put_chunk(v, n, TRUE)

StolenInit == Init /\ stolen = 0
StolenNext == Next /\ stolen' = IF PutsStolen THEN stolen + 1 ELSE stolen
StolenSpec == StolenInit /\ [][StolenNext]_<<vars, stolen>>

-----------------------------------------------------------------------------
(* g_mem_used never claims more memory than the chunks in RAM take, and    *)
(* falls short of it by one chunk at most for each buffer given away: all  *)
(* the places that make, load, drop or delete a chunk count it, once.      *)
MemWithin ==
  LET ram == Cardinality({k \in chnks : chnk[k].l1_mem})
  IN  mem_used <= ram /\ ram <= mem_used + stolen
=============================================================================
