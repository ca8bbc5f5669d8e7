----------------------------- MODULE Relations ------------------------------
(***************************************************************************)
(* The relational operators of the executor (sql/src/executor.rs) on lists *)
(* of rows: filter, sort, limit, set operations, joins, recursive queries. *)
(* A row is a list of values; a value is <<type, number>>, since equality  *)
(* of values (derived, it looks at the type) and comparison (partial_cmp,  *)
(* it does not, for numbers) are two things and the operators use both.    *)
(***************************************************************************)
EXTENDS Integers, Sequences, FiniteSets, SequencesExt, FiniteSetsExt, Functions

NullValue == <<"null", 0>>
IsNull(v) == v = NullValue
Int4(n) == <<"int4", n>>
Int8(n) == <<"int8", n>>

\* partial_cmp: Null is equal to Null and less than the rest
Less(v, w) == \/ IsNull(v) /\ ~IsNull(w)
              \/ ~IsNull(v) /\ ~IsNull(w) /\ v[2] < w[2]
Equal(v, w) == ~Less(v, w) /\ ~Less(w, v)

\* The SQL condition l = r, TRUE only if it is Bool(true)
Matches(v, w) == ~IsNull(v) /\ ~IsNull(w) /\ Equal(v, w)

-----------------------------------------------------------------------------
(* One input *)

\* exec_sort: sort_by is stable; NULLs go by nulls_first, and the whole order
\* is turned round for DESC
Ahead(v, w, key) ==
  LET less(a, b) == IF IsNull(a) \/ IsNull(b)
                    THEN IF key.nulls_first THEN IsNull(a) /\ ~IsNull(b)
                                            ELSE IsNull(b) /\ ~IsNull(a)
                    ELSE Less(a, b)
  IN  IF key.ascending THEN less(v, w) ELSE less(w, v)

ExecSort(rows, key) ==
  LET before(i, j) ==
        \/ Ahead(rows[i][key.column], rows[j][key.column], key)
        \/ ~Ahead(rows[j][key.column], rows[i][key.column], key) /\ i < j
      order == SetToSortSeq(DOMAIN rows, before)
  IN  [k \in DOMAIN order |-> rows[order[k]]]

\* exec_limit; NoLimit stands for u64::MAX
NoLimit == -1
Smaller(a, b) == IF a < b THEN a ELSE b
\* Mutant: LIMIT counts from the first row, OFFSET included.
ExecLimitFromFirst(rows, limit, offset) ==
  SubSeq(rows, Smaller(offset, Len(rows)) + 1,
         IF limit = NoLimit THEN Len(rows) ELSE Smaller(limit, Len(rows)))

ExecLimit(rows, limit, offset) ==
  LET start == Smaller(offset, Len(rows))
      end   == IF limit = NoLimit THEN Len(rows) ELSE Smaller(start + limit, Len(rows))
  IN  SubSeq(rows, start + 1, end)

DeduplicateRows(rows) ==
  FoldLeft(LAMBDA out, row : IF row \in ToSet(out) THEN out ELSE Append(out, row), <<>>, rows)

-----------------------------------------------------------------------------
(* Set operations *)

\* Mutant: a copy on the right is used for every copy on the left.
PooledAgain(left, right, keep) == SelectSeq(left, LAMBDA row : (row \in ToSet(right)) = keep)

\* The rows of left that find (or do not find) their copy in a pool made of
\* right; each copy is used once.
Pooled(left, right, keep) ==
  FoldLeft(LAMBDA st, row :
             LET i == SelectInSeq(st.pool, LAMBDA r : r = row)
             IN  [pool |-> IF i = 0 THEN st.pool ELSE RemoveAt(st.pool, i),
                  out  |-> IF (i # 0) = keep THEN Append(st.out, row) ELSE st.out],
           [pool |-> right, out |-> <<>>], left).out

ExecSetOp(op, all, left, right) ==
  CASE op = "union" /\ all      -> left \o right
    [] op = "union" /\ ~all     -> DeduplicateRows(left \o right)
    [] op = "intersect" /\ ~all ->
         DeduplicateRows(SelectSeq(left, LAMBDA row : row \in ToSet(right)))
    [] op = "intersect" /\ all  -> Pooled(left, right, TRUE)
    [] op = "except" /\ ~all    ->
         DeduplicateRows(SelectSeq(left, LAMBDA row : row \notin ToSet(right)))
    [] op = "except" /\ all     -> Pooled(left, right, FALSE)

\* The same operators inside a WITH query (exec_plan_with_ctes)
CteSetOp(op, all, left, right) ==
  LET result == CASE op = "union"     -> left \o right
                  [] op = "intersect" -> SelectSeq(left, LAMBDA row : row \in ToSet(right))
                  [] op = "except"    -> SelectSeq(left, LAMBDA row : row \notin ToSet(right))
  IN  IF all THEN result ELSE DeduplicateRows(result)

-----------------------------------------------------------------------------
(* Joins on left.i = right.j *)

\* The other side of a row without match; its width is taken from a row of the
\* other side, and is 0 when there is none.
Nulls(rows) == IF rows = <<>> THEN <<>> ELSE [k \in DOMAIN rows[1] |-> NullValue]
LeftPadRow(row, right) == row \o Nulls(right)
RightPadRow(left, row) == Nulls(left) \o row

\* Mutant: a NULL matches a NULL.
OnEqualWithNulls(i, j, l, r) == Equal(l[i], r[j])

OnEqual(i, j, l, r) == Matches(l[i], r[j])
\* rows_match_using compares with partial_cmp
UsingEqual(i, j, l, r) == Equal(l[i], r[j])

\* One row with all rows of the other side: merge(other) for those that match
Matched(rows, match(_), merge(_)) ==
  LET found == SelectSeq(rows, match) IN [k \in DOMAIN found |-> merge(found[k])]

\* In the joins, on is the pairs of rows that meet the condition.
InnerJoin(left, right, on) ==
  FlattenSeq([k \in DOMAIN left |->
    Matched(right, LAMBDA r : <<left[k], r>> \in on, LAMBDA r : left[k] \o r)])

LeftJoin(left, right, on) ==
  FlattenSeq([k \in DOMAIN left |->
    LET m == Matched(right, LAMBDA r : <<left[k], r>> \in on, LAMBDA r : left[k] \o r)
    IN  IF m = <<>> THEN <<LeftPadRow(left[k], right)>> ELSE m])

RightJoin(left, right, on) ==
  FlattenSeq([k \in DOMAIN right |->
    LET m == Matched(left, LAMBDA l : <<l, right[k]>> \in on, LAMBDA l : l \o right[k])
    IN  IF m = <<>> THEN <<RightPadRow(left, right[k])>> ELSE m])

FullJoin(left, right, on) ==
  LET alone == SelectSeq(left, LAMBDA l : \A k \in DOMAIN right : <<l, right[k]>> \notin on)
  IN  RightJoin(left, right, on) \o [k \in DOMAIN alone |-> LeftPadRow(alone[k], right)]

NestedLoop(type, left, right, on) ==
  CASE type = "inner" -> InnerJoin(left, right, on)
    [] type = "left"  -> LeftJoin(left, right, on)
    [] type = "right" -> RightJoin(left, right, on)
    [] type = "full"  -> FullJoin(left, right, on)

\* exec_hash_join: the buckets are named by the text of the key, which has the
\* type in it; a matching row is checked again with the condition.
HashJoin(type, left, right, i, j, on) ==
  LET table(v) == SelectSeq(right, LAMBDA r : ~IsNull(r[j]) /\ r[j] = v)
      unusable == right # <<>> /\ \A k \in DOMAIN right : IsNull(right[k][j])
      joined(l) == Matched(table(l[i]), LAMBDA r : <<l, r>> \in on, LAMBDA r : l \o r)
      out(l) == CASE type = "inner" /\ IsNull(l[i]) -> <<>>
                  [] type = "inner"                 -> joined(l)
                  [] IsNull(l[i]) \/ joined(l) = <<>> -> <<LeftPadRow(l, right)>>
                  [] OTHER                          -> joined(l)
  IN  IF unusable THEN NestedLoop(type, left, right, on)
                  ELSE FlattenSeq([k \in DOMAIN left |-> out(left[k])])

\* exec_join takes the hash join for inner and left joins on an equality
ExecJoin(type, left, right, i, j) ==
  LET on == {p \in ToSet(left) \X ToSet(right) : OnEqual(i, j, p[1], p[2])}
  IN  IF type \in {"inner", "left"} THEN HashJoin(type, left, right, i, j, on)
      ELSE NestedLoop(type, left, right, on)

\* JOIN ... USING: the column of the right side is left out of the result
ExecJoinUsing(type, left, right, i, j) ==
  NestedLoop(type, left, right,
             {p \in ToSet(left) \X ToSet(right) : UsingEqual(i, j, p[1], p[2])})

-----------------------------------------------------------------------------
(* WITH RECURSIVE nodes AS (base UNION ALL step): step gives the rows that  *)
(* one row leads to.  A round sees the rows of the last round only.  The    *)
(* planner fills in no SEARCH and no CYCLE clause, so their code never runs. *)

MAX_ITERATIONS == 1000

\* Mutant: the rows of all rounds go into the next.
AfterRoundAll(all, new) == [all |-> all \o new, frontier |-> all \o new]

\* The rows so far, and those of this round
AfterRound(all, new) == [all |-> all \o new, frontier |-> new]

\* iterations is MAX_ITERATIONS, or fewer where the rows end sooner
RecursiveCte(base, step, iterations) ==
  LET state[n \in 0..iterations] ==
        IF n = 0 THEN [all |-> base, frontier |-> base]
        ELSE LET p   == state[n - 1]
                 new == FlattenSeq([k \in DOMAIN p.frontier |-> step[p.frontier[k]]])
             IN  AfterRound(p.all, new)
  IN  IF base = <<>> THEN <<>> ELSE state[iterations].all
=============================================================================
