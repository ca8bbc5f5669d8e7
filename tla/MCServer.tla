------------------------------- MODULE MCServer -------------------------------
(***************************************************************************)
(* Server for TLC.                                                         *)
(***************************************************************************)
EXTENDS Server

CONSTANTS c1, c2

=============================================================================
