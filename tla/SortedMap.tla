------------------------------ MODULE SortedMap ------------------------------
(***************************************************************************)
(* What an index promises: a set of <<key, tuple id>> pairs, changed one   *)
(* pair at a time, with at most one pair for a key.                        *)
(***************************************************************************)
CONSTANTS Key, Tid

VARIABLE map

Init == map = {}

\* A key that is already there is refused, so Insert never replaces a tuple id.
Insert(k, t) ==
  /\ map' = map \cup {<<k, t>>}
  /\ \A pair \in map : pair[1] # k

Delete(k, t) ==
  /\ map' = map \ {<<k, t>>}
  /\ <<k, t>> \in map

Next == \E k \in Key, t \in Tid : Insert(k, t) \/ Delete(k, t)

Spec == Init /\ [][Next]_map

=============================================================================
