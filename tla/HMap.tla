-------------------------------- MODULE HMap --------------------------------
(***************************************************************************)
(* What a hash map promises to its callers, whatever it is made of: it     *)
(* holds a value for each of some keys; put sets one, del removes one,     *)
(* merge sets several, and a call that fails part of the way has done a    *)
(* first part of its work and nothing else.  Looking a key up is reading   *)
(* the variable.                                                           *)
(***************************************************************************)
EXTENDS Integers, Sequences

CONSTANTS
  Keys,     \* the keys a caller may use
  Vals,     \* the values it may store
  Sources   \* what it may merge: sequences of pairs of a key and a value

VARIABLE
  map       \* a function from the keys that are present to their values

With(f, k, v) == [x \in DOMAIN f \cup {k} |-> IF x = k THEN v ELSE f[x]]
Without(f, k) == [x \in DOMAIN f \ {k} |-> f[x]]

(* The map after the first n pairs of src have been put. *)
Merged(src, n) ==
  LET after[i \in 0..n] ==
        IF i = 0 THEN map ELSE With(after[i - 1], src[i][1], src[i][2])
  IN  after[n]

Init == map = [k \in {} |-> k]

Put(k, v) == map' = With(map, k, v)

Del(k) == map' = Without(map, k)

Merge(src) == \E n \in 0..Len(src) : map' = Merged(src, n)

Next ==
  \/ \E k \in Keys, v \in Vals : Put(k, v)
  \/ \E k \in Keys : Del(k)
  \/ \E src \in Sources : Merge(src)

Spec == Init /\ [][Next]_map
=============================================================================
