----------------------------- MODULE Aggregates -----------------------------
(***************************************************************************)
(* GROUP BY, grouping sets, the aggregate functions and the window         *)
(* functions of the executor (sql/src/executor.rs), on the rows and values *)
(* of Relations.  A floating-point result is a fraction <<"ratio", n, d>>. *)
(***************************************************************************)
EXTENDS Relations

NonNull(values) == SelectSeq(values, LAMBDA v : ~IsNull(v))
Numbers(values) == [k \in DOMAIN NonNull(values) |-> NonNull(values)[k][2]]
Total(numbers) == FoldLeft(LAMBDA a, n : a + n, 0, numbers)
Ratio(n, d) == <<"ratio", n, d>>

\* The first of the values that no other comes before
Best(values, better(_, _)) ==
  IF NonNull(values) = <<>> THEN NullValue
  ELSE FoldLeft(LAMBDA acc, v : IF better(v, acc) THEN v ELSE acc,
                NonNull(values)[1], NonNull(values))

Sum(values) ==
  IF NonNull(values) = <<>> THEN NullValue
  ELSE <<NonNull(values)[1][1], Total(Numbers(values))>>
MinValue(values) == Best(values, LAMBDA v, acc : Less(v, acc))
MaxValue(values) == Best(values, LAMBDA v, acc : Less(acc, v))
Avg(values) ==
  IF NonNull(values) = <<>> THEN NullValue
  ELSE Ratio(Total(Numbers(values)), Len(Numbers(values)))

\* The squared distances from the mean, all multiplied by n * n
Variance(values, sample) ==
  LET vals == Numbers(values)
      n    == Len(vals)
      sum2 == Total([k \in DOMAIN vals |-> (n * vals[k] - Total(vals)) * (n * vals[k] - Total(vals))])
  IN  IF n = 0 \/ (sample /\ n < 2) THEN NullValue
      ELSE Ratio(sum2, n * n * (IF sample THEN n - 1 ELSE n))

\* compute_aggregates for one function over the argument's values in a group;
\* 0 is false in a Boolean column
Aggregate(func, values) ==
  LET some == NonNull(values)
  IN  CASE func = "count(*)"       -> Int8(Len(values))
        [] func = "count"          -> Int8(Len(some))
        [] func = "count_distinct" -> Int8(Cardinality(ToSet(some)))
        [] func = "sum"            -> Sum(values)
        [] func = "min"            -> MinValue(values)
        [] func = "max"            -> MaxValue(values)
        [] func = "avg"            -> Avg(values)
        [] func = "variance"       -> Variance(values, TRUE)
        [] func = "var_pop"        -> Variance(values, FALSE)
        [] func = "bool_and"       -> IF some = <<>> THEN NullValue
                                      ELSE <<"bool", IF \E v \in ToSet(some) : v[2] = 0 THEN 0 ELSE 1>>
        [] func = "bool_or"        -> IF some = <<>> THEN NullValue
                                      ELSE <<"bool", IF \E v \in ToSet(some) : v[2] # 0 THEN 1 ELSE 0>>
        [] func = "array_agg"      -> <<"array", some>>

-----------------------------------------------------------------------------
(* Grouping *)

Key(row, columns) == [k \in DOMAIN columns |-> row[columns[k]]]
Column(rows, c) == [k \in DOMAIN rows |-> rows[k][c]]

\* Mutant: a NULL is in no group of another.
GroupsNullsApart(rows, columns) ==
  FoldLeft(LAMBDA groups, i :
             LET same(h) == /\ Key(rows[h[1]], columns) = Key(rows[i], columns)
                            /\ NullValue \notin ToSet(Key(rows[i], columns))
                 g == SelectInSeq(groups, same)
             IN  IF g = 0 THEN Append(groups, <<i>>)
                 ELSE [groups EXCEPT ![g] = Append(@, i)],
           <<>>, [i \in DOMAIN rows |-> i])

\* The groups in the order of their first rows, each the list of its rows'
\* indices; NULLs are one group
Groups(rows, columns) ==
  FoldLeft(LAMBDA groups, i :
             LET g == SelectInSeq(groups, LAMBDA h : Key(rows[h[1]], columns) = Key(rows[i], columns))
             IN  IF g = 0 THEN Append(groups, <<i>>)
                 ELSE [groups EXCEPT ![g] = Append(@, i)],
           <<>>, [i \in DOMAIN rows |-> i])

Pick(rows, indices) == [k \in DOMAIN indices |-> rows[indices[k]]]

\* exec_aggregate without HAVING, which is FilterRows on its result
GroupResults(rows, groups, columns, func, arg) ==
  [g \in DOMAIN groups |-> Append(Key(rows[groups[g][1]], columns),
                                  Aggregate(func, Column(Pick(rows, groups[g]), arg)))]
ExecAggregate(rows, columns, func, arg) ==
  IF columns = <<>> THEN <<<<Aggregate(func, Column(rows, arg))>>>>
  ELSE GroupResults(rows, Groups(rows, columns), columns, func, arg)

\* Mutant: the values of a set fill the grouping columns from the right.
ExecGroupingSetsRight(rows, columns, sets, func, arg) ==
  LET expanded(set) ==
        LET out == ExecAggregate(rows, set, func, arg)
            gap == Len(columns) - Len(set)
        IN  [k \in DOMAIN out |->
               Append([i \in DOMAIN columns |-> IF i > gap THEN out[k][i - gap] ELSE NullValue],
                      Last(out[k]))]
  IN  FlattenSeq([s \in DOMAIN sets |-> expanded(sets[s])])

\* exec_aggregate_grouping_sets: the values of a set fill the grouping columns
\* from the left
ExpandedSet(columns, set, out) ==
  [k \in DOMAIN out |->
     Append([i \in DOMAIN columns |-> IF i <= Len(set) THEN out[k][i] ELSE NullValue], Last(out[k]))]
ExecGroupingSets(rows, columns, sets, func, arg) ==
  FlattenSeq([s \in DOMAIN sets |->
    ExpandedSet(columns, sets[s], ExecAggregate(rows, sets[s], func, arg))])

-----------------------------------------------------------------------------
(* Windows: PARTITION BY column p, ORDER BY column o *)

WindowOrder(rows, indices, o) ==
  LET less(i, j) == Less(rows[i][o], rows[j][o])
      before(a, b) == \/ less(indices[a], indices[b])
                      \/ ~less(indices[b], indices[a]) /\ a < b
      order == SetToSortSeq(DOMAIN indices, before)
  IN  [k \in DOMAIN order |-> indices[order[k]]]

Unbounded == 99  \* bound: more than the rows of a partition

\* Mutant: a frame that ends at the current row leaves it out.
FrameRangeBefore(frame, pos, len) ==
  LET clip(n)  == IF n < 0 THEN 0 ELSE n
      start == CASE frame.start.dir = "preceding" -> clip(pos - frame.start.n)
                 [] frame.start.dir = "current"   -> pos
                 [] frame.start.dir = "following" -> Smaller(pos + frame.start.n, clip(len - 1))
      end   == CASE frame.end.dir = "preceding" -> clip(pos - frame.end.n)
                 [] frame.end.dir = "current"   -> pos
                 [] frame.end.dir = "following" -> Smaller(pos + frame.end.n + 1, len)
  IN  <<start, end>>

\* frame_range: offsets from the current row, counted from 0; the end is
\* exclusive.  A bound is [dir, n]; n = Unbounded for UNBOUNDED, 0 for CURRENT ROW
FrameRange(frame, pos, len) ==
  LET clip(n)  == IF n < 0 THEN 0 ELSE n
      start == CASE frame.start.dir = "preceding" -> clip(pos - frame.start.n)
                 [] frame.start.dir = "current"   -> pos
                 [] frame.start.dir = "following" -> Smaller(pos + frame.start.n, clip(len - 1))
      end   == CASE frame.end.dir = "preceding" -> clip(pos - frame.end.n)
                 [] frame.end.dir = "current"   -> pos + 1
                 [] frame.end.dir = "following" -> Smaller(pos + frame.end.n + 1, len)
  IN  <<start, end>>

NoFrame == [start |-> [dir |-> "preceding", n |-> Unbounded], end |-> [dir |-> "current", n |-> 0]]

\* The running number of a row's key among its partition's distinct keys
DenseRanks(keys) ==
  LET rank[k \in DOMAIN keys] ==
        IF k = 1 THEN 1 ELSE rank[k - 1] + (IF keys[k] = keys[k - 1] THEN 0 ELSE 1)
  IN  rank
\* Mutant: no gap after peers.
RanksWithoutGaps(keys) == DenseRanks(keys)

Ranks(keys) ==
  LET rank[k \in DOMAIN keys] ==
        IF k = 1 THEN 1 ELSE IF keys[k] = keys[k - 1] THEN rank[k - 1] ELSE k
  IN  rank

Shift(values, pos, offset, default) ==
  IF pos + offset \in DOMAIN values THEN values[pos + offset] ELSE default

\* Mutant: buckets of one size, the last ones short or empty.
TileOfSize(pos, n, total) == (pos - 1) \div ((total + n - 1) \div n) + 1

\* The bucket of a place among n
Tile(pos, n, total) == ((pos - 1) * n) \div total + 1

\* The value of a window function at each place of a sorted partition: keys of
\* ORDER BY, values of the argument; func.n is the offset or bucket count
WindowValues(func, keys, values) ==
  LET total == Len(values)
      nth   == IF func.n - 1 > 0 THEN func.n ELSE 1
      slice(pos) == LET r == FrameRange(func.frame, pos - 1, total) IN SubSeq(values, r[1] + 1, r[2])
  IN  [pos \in 1..total |->
         CASE func.name = "row_number"   -> Int8(pos)
           [] func.name = "rank"         -> Int8(Ranks(keys)[pos])
           [] func.name = "dense_rank"   -> Int8(DenseRanks(keys)[pos])
           [] func.name = "lead"         -> Shift(values, pos, func.n, NullValue)
           [] func.name = "lag"          -> Shift(values, pos, -func.n, NullValue)
           [] func.name = "first_value"  -> values[1]
           [] func.name = "last_value"   -> values[total]
           [] func.name = "nth_value"    -> Shift(values, nth, 0, NullValue)
           [] func.name = "cume_dist"    -> Ratio(pos, total)
           [] func.name = "percent_rank" -> IF total <= 1 THEN Ratio(0, 1) ELSE Ratio(pos - 1, total - 1)
           [] func.name = "ntile"        -> Int8(Tile(pos, IF func.n > 1 THEN func.n ELSE 1, total))
           [] func.name = "whole"        -> Aggregate(func.agg, values)
           [] func.name = "framed"       -> Aggregate(func.agg, slice(pos))]

\* apply_window_expr: the value of the function for each row, in the rows' order
SpreadOver(order, vals) == [i \in ToSet(order) |-> vals[CHOOSE k \in DOMAIN order : order[k] = i]]
PartitionValues(rows, order, o, func, arg) ==
  SpreadOver(order, WindowValues(func, Column(Pick(rows, order), o), Column(Pick(rows, order), arg)))
WindowOver(rows, groups, o, func, arg) ==
  LET values[g \in DOMAIN groups] ==
        PartitionValues(rows, WindowOrder(rows, groups[g], o), o, func, arg)
  IN  [i \in DOMAIN rows |-> values[CHOOSE g \in DOMAIN groups : i \in ToSet(groups[g])][i]]
ApplyWindow(rows, p, o, func, arg) == WindowOver(rows, Groups(rows, <<p>>), o, func, arg)
=============================================================================
