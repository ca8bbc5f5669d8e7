----------------------------- MODULE MCScalars ------------------------------
(***************************************************************************)
(* The inputs of Scalars, and as one more kind of input the graphs of      *)
(* SsiGraph.  The transactions of a graph are numbered in the order they   *)
(* are iterated: since every graph is an input, so is every order.         *)
(***************************************************************************)
EXTENDS Scalars

CONSTANT Transactions  \* bound: nodes of a graph

SSI == INSTANCE SsiGraph WITH
  Node <- 1..Transactions, edges <- input.edges,
  ser_txns <- [i \in 1..Transactions |-> i], start <- input.start

MCInit ==
  \/ Init
  \/ \E g \in SSI!Graphs, x \in 1..Transactions :
       input = [of |-> "graph", edges |-> g, start |-> x]

MCSpec == MCInit /\ [][Next]_input

\* The depth-first search of has_cycle finds a cycle exactly when the
\* committing transaction reaches one (txn/src/manager.rs:594-624).
DfsFindsCycles == input.of = "graph" => SSI!DfsFindsCycles

\* Two weeks at the turn of each month or year that is special
Around(y, m) == (DaysFromYmd(y, m, 1) - 7)..(DaysFromYmd(y, m, 1) + 7)
SomeDays == UNION {Around(y, m) : y \in {-401, -400, -4, -1, 0, 1, 1600, 1900, 1969, 1970, 1972, 2000, 2024, 2100},
                                  m \in {1, 2, 3, 5, 10, 12}}
SomeInstants == {d * DAY + s : d \in {0, 1, 30, 31, 58, 59, 364, 365, 789, 790, 11015, 11016, 19783},
                               s \in {0, 1, 59, 60, 3599, 3600, 86399}}
StoredCells == {NullCell, Cell("bool", 0), Cell("bool", 1), TextCell(<<>>), TextCell(<<0>>), TextCell(<<97, 0>>)}
                 \cup {Cell(t, n) : t \in {"int4", "int8"}, n \in {-70000, -256, -1, 0, 255, 256}}
Characters == {<<97>>, <<195, 169>>, Percent, Underscore, Quote, Semicolon, Dash}
SomeParams == {NoParam, <<>>, <<<<97>>>>, <<Quote>>, <<<<97>>, Quote>>, <<Dollar, Digit(2)>>}

\* Dates count days in order and truncation rounds down, integer arithmetic is exact
\* or an error, logic has three values, and a series ends at its last member.
ValuesExact ==
  CalendarAdvances /\ TruncatesDown /\ ArithmeticExact /\ ThreeValued /\ SeriesEnds

\* A row is read from its bytes as it was written, and index keys compare as the
\* values do.
EncodingsFaithful == RowsReadBack /\ KeysInOrder

\* LIKE finds the parts of its pattern in order, pieces of a text make the text, a
\* script is split at its statements, and parameters go where their numbers are.
TextsExact == LikeFindsParts /\ PiecesMakeText /\ ScriptsSplit /\ ParamsInPlace

=============================================================================
