------------------------------- MODULE MCWal --------------------------------
(* Instances of Wal for TLC.  The clients are interchangeable. *)
EXTENDS Wal, TLC

ClientSymmetry == Permutations(Client)

=============================================================================
