------------------------------ MODULE MCSession ------------------------------
(***************************************************************************)
(* Session and Savepoints for TLC.                                         *)
(***************************************************************************)
EXTENDS Savepoints, TLC

CONSTANTS s1, s2, a, b, p

Symmetric == Permutations({s1, s2}) \cup Permutations({a, b})

==============================================================================
