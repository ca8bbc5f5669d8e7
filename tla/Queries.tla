------------------------------ MODULE Queries -------------------------------
(***************************************************************************)
(* What the relational operators, the aggregates and the windows promise,  *)
(* against reference definitions, for every small input.  Init chooses an  *)
(* input of one of three kinds and nothing changes it.                     *)
(***************************************************************************)
EXTENDS Aggregates

CONSTANTS
  Cells,    \* values of the first column of two inputs, on which they are joined
  Keys,     \* values of the first column of one input, by which it is grouped
  Numerals, \* values of the second column
  Node,     \* a set of numbers, the nodes of the graph of a recursive query
  MaxLeft,  \* bound: rows of the first input of a join or set operation
  MaxRight, \* bound: rows of the second input
  MaxRows,  \* bound: rows of an aggregated input
  MaxEdges  \* bound: edges of the graph

VARIABLE input

Rows(keys, values) == {<<c, n>> : c \in keys, n \in values}

Init ==
  \/ \E l \in BoundedSeq(Rows(Cells, {Int4(1), Int4(2)}), MaxLeft),
        r \in BoundedSeq(Rows(Cells, {Int4(1)}), MaxRight) :
       input = [of |-> "two", left |-> l, right |-> r]
  \/ \E rows \in BoundedSeq(Rows(Keys, Numerals), MaxRows) :
       input = [of |-> "one", rows |-> rows]
  \/ \E edges \in BoundedSeq({<<Int4(a), Int4(b)>> : a \in Node, b \in Node}, MaxEdges) :
       input = [of |-> "graph", edges |-> edges]

Next == UNCHANGED input

Spec == Init /\ [][Next]_input

Copies(row, rows) == Cardinality({k \in DOMAIN rows : rows[k] = row})

-----------------------------------------------------------------------------
(* Set operations and joins *)

Bigger(a, b) == IF a < b THEN b ELSE a
AsSet(n) == IF n > 0 THEN 1 ELSE 0

\* The copies of a row in the result of a set operation, by the SQL standard
StandardCopies(op, all, l, r) ==
  CASE op = "union" /\ all      -> l + r
    [] op = "union" /\ ~all     -> AsSet(l + r)
    [] op = "intersect" /\ all  -> Smaller(l, r)
    [] op = "intersect" /\ ~all -> AsSet(Smaller(l, r))
    [] op = "except" /\ all     -> Bigger(l - r, 0)
    [] op = "except" /\ ~all    -> IF r = 0 THEN AsSet(l) ELSE 0

CopiesAreStandard(exec(_, _, _, _)) ==
  input.of = "two" =>
    \A op \in {"union", "intersect", "except"}, all \in BOOLEAN :
      LET out == exec(op, all, input.left, input.right)
      IN  \A row \in ToSet(input.left \o input.right \o out) :
            Copies(row, out) =
              StandardCopies(op, all, Copies(row, input.left), Copies(row, input.right))

\* UNION, INTERSECT and EXCEPT, with and without ALL, keep as many copies of
\* each row as the standard says (exec_set_op).
SetOpsCount == CopiesAreStandard(ExecSetOp)

\* So they do inside a WITH query (exec_plan_with_ctes).
CteSetOpsCount == CopiesAreStandard(CteSetOp)

SameType(rows) ==
  \A v, w \in {row[1] : row \in ToSet(rows)} \ {NullValue} : v[1] = w[1]

NullRow == <<NullValue, NullValue>>

\* The copies of a row in a join: one for every pair of rows that match, one
\* for every row of an outer side that no row matches
JoinCopies(type, left, right, row) ==
  LET pairs == {<<k, m>> \in (DOMAIN left) \X (DOMAIN right) : Matches(left[k][1], right[m][1])}
      alone(side, i) == \A p \in pairs : p[side] # i
      lone(k) == type \in {"left", "full"} /\ left[k] \o NullRow = row /\ alone(1, k)
      lonely(m) == type \in {"right", "full"} /\ NullRow \o right[m] = row /\ alone(2, m)
  IN  Cardinality({p \in pairs : left[p[1]] \o right[p[2]] = row})
      + Cardinality({k \in DOMAIN left : lone(k)})
      + Cardinality({m \in DOMAIN right : lonely(m)})

\* Every join returns each pair of matching rows once and each unmatched row of
\* an outer side once, padded with NULLs, by the hash join and by the nested
\* loop alike, when both sides have rows and the keys have one type (exec_join).
JoinsComplete ==
  (input.of = "two" /\ input.left # <<>> /\ input.right # <<>>
     /\ SameType(input.left \o input.right)) =>
    \A type \in {"inner", "left", "right", "full"} :
      LET left  == input.left
          right == input.right
          out   == ExecJoin(type, left, right, 1, 1)
      IN  \A row \in ToSet(out) \cup {l \o NullRow : l \in ToSet(left)}
                       \cup {NullRow \o r : r \in ToSet(right)}
                       \cup {l \o r : l \in ToSet(left), r \in ToSet(right)} :
            Copies(row, out) = JoinCopies(type, left, right, row)

\* The hash join finds what the nested loop finds, whatever the types are.
HashJoinAgrees ==
  input.of = "two" =>
    \A type \in {"inner", "left"} :
      ExecJoin(type, input.left, input.right, 1, 1)
        = NestedLoop(type, input.left, input.right,
                     {p \in ToSet(input.left) \X ToSet(input.right) : OnEqual(1, 1, p[1], p[2])})

-----------------------------------------------------------------------------
(* Sorting and recursion *)

\* ORDER BY with OFFSET and LIMIT, page by page, gives every row once and in an
\* order that never goes back (exec_sort, exec_limit).
PagesCoverAll ==
  input.of = "one" =>
    \A asc \in BOOLEAN, nulls \in BOOLEAN, size \in 1..2 :
      LET key    == [column |-> 1, ascending |-> asc, nulls_first |-> nulls]
          sorted == ExecSort(input.rows, key)
          pages  == FlattenSeq([p \in 1..MaxRows + 1 |->
                      ExecLimit(sorted, size, (p - 1) * size)])
      IN  /\ pages = sorted
          /\ \A row \in ToSet(input.rows) : Copies(row, sorted) = Copies(row, input.rows)
          /\ \A i, j \in DOMAIN sorted :
               i < j => ~Ahead(sorted[j][1], sorted[i][1], key)

\* NULLS FIRST puts the NULLs first and NULLS LAST puts them last.
NullsWhereAsked ==
  input.of = "one" =>
    \A asc \in BOOLEAN, nulls \in BOOLEAN :
      LET out == ExecSort(input.rows, [column |-> 1, ascending |-> asc, nulls_first |-> nulls])
      IN  \A i, j \in DOMAIN out :
            i < j /\ IsNull(out[IF nulls THEN j ELSE i][1])
              => IsNull(out[IF nulls THEN i ELSE j][1])

\* The edges that lead from a row's value, as exec_plan_with_ctes joins them
StepAlong(row) ==
  LET out == SelectSeq(input.edges, LAMBDA e : Matches(e[1], row[1]))
  IN  [k \in DOMAIN out |-> <<out[k][2]>>]

\* The number of walks of n edges from node 1 to node b
Walks(n, b) ==
  LET walks[m \in 0..n, c \in Node] ==
        IF m = 0 THEN IF c = 1 THEN 1 ELSE 0
        ELSE Total([k \in DOMAIN input.edges |->
               IF input.edges[k][2] = Int4(c) THEN walks[m - 1, input.edges[k][1][2]] ELSE 0])
  IN  walks[n, b]

Acyclic == \A b \in Node : Walks(MaxEdges + 1, b) = 0

\* WITH RECURSIVE over a graph without cycles ends, having returned each node
\* once for every walk that leads to it (exec_recursive_cte).
RecursionCountsWalks ==
  input.of = "graph" /\ Acyclic =>
    LET out == RecursiveCte(<<<<Int4(1)>>>>, [row \in {<<Int4(b)>> : b \in Node} |-> StepAlong(row)],
                            MaxEdges + 1)
    IN  \A b \in Node :
          Copies(<<Int4(b)>>, out) = Total([n \in 1..MaxEdges + 1 |-> Walks(n - 1, b)])

-----------------------------------------------------------------------------
(* Groups and windows *)

RowsWith(c) == SelectSeq(input.rows, LAMBDA row : row[1] = c)
Value(v) == IF IsNull(v) THEN 0 ELSE v[2]

\* The groups' counts, sums and extremes make up those of the whole table, with
\* NULL keys in one group of their own (exec_aggregate, compute_aggregates).
GroupsAddUp ==
  input.of = "one" =>
    LET by(func)    == Column(ExecAggregate(input.rows, <<1>>, func, 2), 2)
        whole(func) == ExecAggregate(input.rows, <<>>, func, 2)[1][1]
        keys        == Column(ExecAggregate(input.rows, <<1>>, "count", 2), 1)
    IN  /\ Cardinality(ToSet(keys)) = Len(keys)
        /\ \A func \in {"count(*)", "count", "sum"} :
             Value(Aggregate("sum", by(func))) = Value(whole(func))
        /\ \A func \in {"min", "max"} : Aggregate(func, by(func)) = whole(func)
        /\ \A k \in DOMAIN keys : by("array_agg")[k][2] = NonNull(Column(RowsWith(keys[k]), 2))

TotalCount(rows) == Total([k \in DOMAIN rows |-> rows[k][3][2]])
LevelsAddUp(fine, mid, whole) ==
  /\ \A k \in DOMAIN mid :
       /\ mid[k][2] = NullValue
       /\ mid[k][3][2] = TotalCount(SelectSeq(fine, LAMBDA row : row[1] = mid[k][1]))
  /\ whole = <<NullValue, NullValue, Int8(TotalCount(mid))>>
RollupLevels(out, n) == LevelsAddUp(SubSeq(out, 1, n), SubSeq(out, n + 1, Len(out) - 1), Last(out))

\* Every level of a ROLLUP adds up to the level above it, with NULL in the
\* columns rolled up (exec_aggregate_grouping_sets).
RollupAddsUp ==
  input.of = "one" =>
    RollupLevels(ExecGroupingSets(input.rows, <<1, 2>>, <<<<1, 2>>, <<1>>, <<>>>>, "count(*)", 2),
                 Len(Groups(input.rows, <<1, 2>>)))

\* Columns not in a grouping set are NULL in its rows, for CUBE as well.
SetsLeaveNulls ==
  input.of = "one" =>
    \A row \in ToSet(ExecGroupingSets(input.rows, <<1, 2>>, <<<<2>>>>, "count", 2)) :
      row[1] = NullValue

Func(name, n) == [name |-> name, n |-> n]
Over(func) == ApplyWindow(input.rows, 1, 2, func, 2)
Peers(i) == {j \in DOMAIN input.rows : input.rows[j][1] = input.rows[i][1]}
Earlier(i) == {j \in Peers(i) : Less(input.rows[j][2], input.rows[i][2])}

RanksCount(rank, dense, place) ==
  \A i \in DOMAIN input.rows :
    /\ rank[i] = Int8(Cardinality(Earlier(i)) + 1)
    /\ dense[i] = Int8(Cardinality({input.rows[j][2] : j \in Earlier(i)}) + 1)
    /\ {place[j] : j \in Peers(i)} = {Int8(n) : n \in 1..Cardinality(Peers(i))}
    /\ \A j \in Earlier(i) : place[j][2] < place[i][2]

\* rank() is one more than the rows of the partition that come before,
\* dense_rank() one more than the values that do, and row_number() numbers the
\* partition in that order (apply_window_expr).
RanksCountEarlier ==
  input.of = "one" =>
    RanksCount(Over(Func("rank", 0)), Over(Func("dense_rank", 0)), Over(Func("row_number", 0)))

BucketsOf(n, tile) ==
  LET size(i, b) == Cardinality({j \in Peers(i) : tile[j] = Int8(b)})
  IN  \A i \in DOMAIN input.rows :
        /\ tile[i][2] \in 1..n
        /\ \A a, b \in 1..Smaller(n, Cardinality(Peers(i))) : size(i, a) <= size(i, b) + 1

\* ntile(n) cuts every partition into buckets whose sizes differ by at most one.
TilesBalanced == input.of = "one" => \A n \in 1..3 : BucketsOf(n, Over(Func("ntile", n)))

\* The frames that begin at or before the current row and end at or after it
Frames == [start : {[dir |-> "preceding", n |-> n] : n \in {1, Unbounded}} \cup {[dir |-> "current", n |-> 0]},
           end   : {[dir |-> "following", n |-> n] : n \in {1, Unbounded}} \cup {[dir |-> "current", n |-> 0]}]

SumsInside(frame, place, sum) ==
  LET inside(i) == {j \in Peers(i) : /\ place[j][2] >= place[i][2] - frame.start.n
                                     /\ place[j][2] <= place[i][2] + frame.end.n}
  IN  \A i \in DOMAIN input.rows :
        Value(sum[i]) = Total([k \in DOMAIN input.rows |->
                                IF k \in inside(i) THEN Value(input.rows[k][2]) ELSE 0])

\* An aggregate over a frame takes in exactly the rows of the partition whose
\* distance from the current row the frame allows (frame_range).
FramesExact ==
  input.of = "one" =>
    \A frame \in Frames :
      SumsInside(frame, Over(Func("row_number", 0)),
                 Over([name |-> "framed", n |-> 0, agg |-> "sum", frame |-> frame]))
=============================================================================
