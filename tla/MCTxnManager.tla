---------------------------- MODULE MCTxnManager ----------------------------
(* Instances of TxnManager for TLC.  The clients are interchangeable. *)
EXTENDS TxnManager, TLC

ClientSymmetry == Permutations(Client)

=============================================================================
