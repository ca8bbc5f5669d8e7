------------------------------ MODULE RwGraph -------------------------------
(***************************************************************************)
(* What has_cycle (crates/txn/src/manager.rs) computes, without its search. *)
(***************************************************************************)

\* From node x of N an endless path of edges in E leads through N: x reaches
\* a cycle.
CycleFrom(x, N, E) ==
  \E S \in SUBSET N : x \in S /\ \A a \in S : \E b \in S : <<a, b>> \in E

=============================================================================
