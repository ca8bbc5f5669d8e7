------------------------------ MODULE SsiGraph ------------------------------
(***************************************************************************)
(* The depth-first search of check_serializable_conflict, compared with    *)
(* CycleFrom on every graph over a few transactions.  The search threads   *)
(* two sets through its calls, visited and path, and leaves them as they   *)
(* are when it returns early.  The order in which it meets the neighbours  *)
(* of a node is that of ser_txns, a HashMap's order.                       *)
(***************************************************************************)
EXTENDS RwGraph, Sequences, FiniteSets, SequencesExt

CONSTANT Node        \* the active Serializable transactions

VARIABLES edges,     \* the rw-antidependency graph
          ser_txns,  \* the transactions in the order they are iterated
          start      \* the committing transaction

\* No transaction has an edge to itself.
Graphs == SUBSET {e \in Node \X Node : e[1] # e[2]}

\* edges[node], in the order the pairs (i, j) are visited
Neighbors(n) == SelectSeq(ser_txns, LAMBDA m : <<n, m>> \in edges)

-----------------------------------------------------------------------------
\* A call returns whether it found a cycle, and the two sets it was lent.
Result(found, visited, path) == [found |-> found, visited |-> visited, path |-> path]

\* Mutant: a finished node stays on the path.
LeaveOn(path, n) == path

LeavePath(path, n) == path \ {n}

RECURSIVE Dfs(_, _, _), DfsAll(_, _, _)

\* dfs
Dfs(n, visited, path) ==
  IF n \in path THEN Result(TRUE, visited, path)
  ELSE IF n \in visited THEN Result(FALSE, visited, path)
  ELSE LET r == DfsAll(Neighbors(n), visited \cup {n}, path \cup {n})
       IN  IF r.found THEN r ELSE Result(FALSE, r.visited, LeavePath(r.path, n))

\* The loop over the neighbours, up to the first that finds a cycle
DfsAll(ns, visited, path) ==
  IF ns = << >> THEN Result(FALSE, visited, path)
  ELSE LET r == Dfs(Head(ns), visited, path)
       IN  IF r.found THEN r ELSE DfsAll(Tail(ns), r.visited, r.path)

\* has_cycle
HasCycleDfs(x) == Dfs(x, {}, {}).found

-----------------------------------------------------------------------------
\* The search of has_cycle reports a conflict exactly when the committing
\* transaction reaches a cycle, whatever the order of the HashMap, and pays
\* for sharing `visited' between branches with no missed cycle.
DfsFindsCycles == HasCycleDfs(start) = CycleFrom(start, Node, edges)

=============================================================================
