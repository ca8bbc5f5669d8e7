--------------------------- MODULE PlanExecution ----------------------------
(***************************************************************************)
(* The walk over a plan: exec_plan, exec_plan_with_ctes (under a WITH) and *)
(* exec_plan_correlated (in a subquery, for a row of the query around it), *)
(* sql/src/executor.rs.  env holds what the three differ in:               *)
(*   mode     "plain", "cte" or "correlated"                               *)
(*   ctes     the rows of the WITH queries a scan can see, by name         *)
(*   context  cte_context, what a subquery will see                        *)
(*   outer    the row around a subquery                                    *)
(* A result is [ok, rows]; an error anywhere makes the statement fail.     *)
(***************************************************************************)
EXTENDS Planner

Failed == [ok |-> FALSE, rows |-> <<>>]
Ok(rows) == [ok |-> TRUE, rows |-> rows]

\* The rows, unless one of the values worked out on the way is an error
Unless(errors, rows) == IF Error \in errors THEN Failed ELSE Ok(rows)

NoCtes == <<>>
Plain(context) ==
  [mode |-> "plain", ctes |-> NoCtes, context |-> context, outer |-> NoRow]
UnderWith(ctes, context) ==
  [mode |-> "cte", ctes |-> ctes, context |-> context, outer |-> NoRow]
Correlated(context, row) ==
  [mode |-> "correlated", ctes |-> context, context |-> context, outer |-> row]

-----------------------------------------------------------------------------
(* One node *)

Holds(cond, l, r) == IF cond.op = "eq" THEN Matches(l, r)
                     ELSE ~IsNull(l) /\ ~IsNull(r) /\ Less(r, l)

\* exec_filter and exec_filter_correlated, for a comparison
FilterRows(rows, cond, outer) ==
  LET value(row, e) == Eval(row, outer, e)
  IN  Unless({value(r, cond.l) : r \in ToSet(rows)} \cup {value(r, cond.r) : r \in ToSet(rows)},
             SelectSeq(rows, LAMBDA r : Holds(cond, value(r, cond.l), value(r, cond.r))))

\* exec_project and exec_project_correlated
ProjectRows(rows, columns, distinct, outer) ==
  LET names == [k \in DOMAIN columns |-> Bare(columns[k].name)]
      out   == [i \in DOMAIN rows |->
                  Row(names, [k \in DOMAIN columns |-> Eval(rows[i], outer, columns[k].e)])]
  IN  Unless(UNION {ToSet(out[i].values) : i \in DOMAIN out},
             IF distinct THEN DeduplicateRows(out) ELSE out)

\* exec_sort, with the keys worked out once
SortRows(rows, key) ==
  LET keyed == [i \in DOMAIN rows |-> <<Eval(rows[i], NoRow, key.e), i>>]
      sorted == ExecSort(keyed, [column |-> 1, ascending |-> key.ascending,
                                 nulls_first |-> key.nulls_first])
  IN  Unless({k[1] : k \in ToSet(keyed)}, [i \in DOMAIN sorted |-> rows[sorted[i][2]]])

\* compute_aggregates for the rows of a group
AggregateRow(rows, aggs) ==
  Row([k \in DOMAIN aggs |-> Bare(aggs[k].name)],
      [k \in DOMAIN aggs |->
         Aggregate(aggs[k].func, [i \in DOMAIN rows |-> Eval(rows[i], NoRow, aggs[k].arg)])])

\* exec_aggregate for a list of grouping columns
GroupRows(rows, columns, aggs) ==
  LET keys   == [i \in DOMAIN rows |->
                   [k \in DOMAIN columns |-> EvalColumn(rows[i], NoRow, columns[k])]]
      groups == Groups(keys, [k \in DOMAIN columns |-> k])
      names  == [k \in DOMAIN columns |-> Bare(columns[k][2])]
  IN  IF columns = <<>> THEN <<AggregateRow(rows, aggs)>>
      ELSE [g \in DOMAIN groups |->
              MergeRows(Row(names, keys[groups[g][1]]), AggregateRow(Pick(rows, groups[g]), aggs))]

\* exec_aggregate_grouping_sets: the columns of a set fill the grouping columns
\* from the left
ExpandSet(columns, set, row) ==
  Row([k \in DOMAIN columns |-> Bare(columns[k][2])] \o SubSeq(row.names, Len(set) + 1, Len(row.names)),
      [k \in DOMAIN columns |-> IF k <= Len(set) THEN row.values[k] ELSE NullValue]
        \o SubSeq(row.values, Len(set) + 1, Len(row.values)))

Having(plan, rows) ==
  IF plan.having = <<>> THEN Ok(rows) ELSE FilterRows(rows, plan.having[1], NoRow)

\* The rows of the grouping sets, one result for each, put together
UnionOfSets(plan, results) ==
  IF \E s \in DOMAIN results : ~results[s].ok THEN Failed
  ELSE Ok(FlattenSeq([s \in DOMAIN results |->
         [i \in DOMAIN results[s].rows |->
            ExpandSet(plan.group_by, plan.sets[s], results[s].rows[i])]]))

AggregateRows(rows, plan) ==
  LET args == {Eval(r, NoRow, a.arg) : r \in ToSet(rows), a \in ToSet(plan.aggs)}
      keys == {EvalColumn(r, NoRow, c) : r \in ToSet(rows), c \in ToSet(plan.group_by)}
  IN  IF Error \in args \cup keys THEN Failed
      ELSE IF plan.sets = <<>> THEN Having(plan, GroupRows(rows, plan.group_by, plan.aggs))
      ELSE UnionOfSets(plan, [s \in DOMAIN plan.sets |->
                                Having(plan, GroupRows(rows, plan.sets[s], plan.aggs))])

\* find_using_col_value: the bare name, else the first that ends in it
UsingValue(row, c) ==
  LET bare == {k \in Places(row, c) : row.names[k][1] = ""}
  IN  row.values[Min(IF bare # {} THEN bare ELSE Places(row, c))]

\* exec_hash_join: which side of the equality belongs to which input.  A column
\* of the other table counts as found where this one has the same bare name.
HashKeys(left, right, cond) ==
  LET resolves(rows, e) == \E row \in ToSet(rows) : Eval(row, NoRow, e) # Error
  IN  IF resolves(left, cond.l) /\ resolves(right, cond.r)
      THEN <<cond.l, cond.r>> ELSE <<cond.r, cond.l>>

\* The condition of a join on two rows
JoinHolds(plan, l, r) ==
  IF plan.using # <<>>
  THEN \A c \in ToSet(plan.using) : Equal(UsingValue(l, c), UsingValue(r, c))
  ELSE \A c \in ToSet(plan.on) :
         Holds(c, Eval(MergeRows(l, r), NoRow, c.l), Eval(MergeRows(l, r), NoRow, c.r))

\* exec_join takes the hash join for an inner or left join on two columns
HashJoins(plan) ==
  /\ plan.using = <<>> /\ plan.on # <<>> /\ plan.type \in {"inner", "left"}
  /\ plan.on[1].op = "eq" /\ plan.on[1].l[1] = "col" /\ plan.on[1].r[1] = "col"

\* A row is joined as <<index, key>>; a key that cannot be worked out is NULL.
KeyOf(value) == IF value = Error THEN NullValue ELSE value
Indexes(rows) == [i \in DOMAIN rows |-> <<Int4(i), NullValue>>]
WithKeys(rows, e) == [i \in DOMAIN rows |-> <<Int4(i), KeyOf(Eval(rows[i], NoRow, e))>>]

\* A pair of indices back to a row.  A padded row keeps both USING columns; the
\* names of an empty side are missing.
SideOf(rows, index) ==
  CASE rows = <<>> -> NoRow
    [] rows # <<>> /\ IsNull(index) -> Row(rows[1].names, [k \in DOMAIN rows[1].names |-> NullValue])
    [] OTHER -> rows[index[2]]
MergedPair(left, right, plan, p) ==
  LET both == MergeRows(SideOf(left, p[1]), SideOf(right, p[Len(p) - 1]))
  IN  IF Len(p) = 4 /\ ~IsNull(p[1]) /\ ~IsNull(p[3]) THEN DeduplicateUsing(both, plan.using)
      ELSE both
MergedPairs(left, right, plan, pairs) ==
  [k \in DOMAIN pairs |-> MergedPair(left, right, plan, pairs[k])]

\* The condition is worked out for these pairs, and an error in one fails the join.
Tried(left, right, plan, tried, rows) ==
  Unless({Eval(MergeRows(left[p[1]], right[p[2]]), NoRow, e) :
            p \in tried, e \in UNION {{c.l, c.r} : c \in ToSet(plan.on)}}, rows)

\* Those in one bucket, or all when no row of the right has a key
InOneBucket(L, R) ==
  {p \in (DOMAIN L) \X (DOMAIN R) :
     (\E i \in DOMAIN R : ~IsNull(R[i][2])) => ~IsNull(R[p[2]][2]) /\ L[p[1]][2] = R[p[2]][2]}

JoinPairs(left, right, plan, L, R) ==
  {p \in ToSet(L) \X ToSet(R) : JoinHolds(plan, left[p[1][1][2]], right[p[2][1][2]])}

HashJoinRows(left, right, plan, L, R) ==
  LET on == JoinPairs(left, right, plan, L, R)
  IN  Tried(left, right, plan, InOneBucket(L, R),
            MergedPairs(left, right, plan, HashJoin(plan.type, L, R, 2, 2, on)))

NestedLoopRows(left, right, plan) ==
  LET on == JoinPairs(left, right, plan, Indexes(left), Indexes(right))
  IN  Tried(left, right, plan, (DOMAIN left) \X (DOMAIN right),
            MergedPairs(left, right, plan, NestedLoop(plan.type, Indexes(left), Indexes(right), on)))

\* exec_join
HashJoinOn(left, right, plan, keys) ==
  HashJoinRows(left, right, plan, WithKeys(left, keys[1]), WithKeys(right, keys[2]))
JoinRows(left, right, plan) ==
  IF HashJoins(plan) THEN HashJoinOn(left, right, plan, HashKeys(left, right, plan.on[1]))
                     ELSE NestedLoopRows(left, right, plan)

\* exec_index_scan with the keys of the tree: one row for each value, since the
\* tree refuses a second; no row for NULL; a value of another type is another key
IndexRows(plan, rows) ==
  LET columns == Schema[plan.table]
      column == SelectInSeq(columns, LAMBDA c : c = plan.column)
      first(i) == \A j \in 1..i - 1 : rows[j][column] # rows[i][column]
      within(v) == /\ ~IsNull(v)
                   /\ IsNull(plan.lo) \/ (v[1] = plan.lo[1] /\ ~Less(v, plan.lo))
                   /\ IsNull(plan.hi) \/ (v[1] = plan.hi[1] /\ ~Less(plan.hi, v))
      found == {i \in DOMAIN rows : first(i) /\ within(rows[i][column])}
      order == SetToSortSeq(found, LAMBDA i, j : Less(rows[i][column], rows[j][column]))
  IN  [k \in DOMAIN order |->
         Row([c \in DOMAIN columns |-> Bare(columns[c])], rows[order[k]])]

-----------------------------------------------------------------------------
(* The walk *)

RECURSIVE Exec(_, _, _)

\* Mutant: a subquery sees the row right around it only.
ExistsRowsOneLevel(rows, cond, db, env) ==
  LET sub(row) == Exec(cond.plan, db, Correlated(env.context, row))
  IN  IF \E r \in ToSet(rows) : ~sub(r).ok THEN Failed
      ELSE Ok(SelectSeq(rows, LAMBDA r : (sub(r).rows # <<>>) # cond.negated))

\* EXISTS: the subquery is run for each row (eval_expr, eval_expr_with_outer)
ExistsRows(rows, cond, db, env) ==
  LET sub(row) == Exec(cond.plan, db, Correlated(env.context, MergeRows(row, env.outer)))
  IN  IF \E r \in ToSet(rows) : ~sub(r).ok THEN Failed
      ELSE Ok(SelectSeq(rows, LAMBDA r : (sub(r).rows # <<>>) # cond.negated))

\* exec_lateral: the subquery is run for each row of the other side
NamedRow(alias, row) ==
  Row([k \in DOMAIN row.names |-> IF row.names[k][1] = "" THEN <<alias, row.names[k][2]>>
                                                          ELSE row.names[k]], row.values)
BesideEach(rows, results, alias) ==
  IF \E i \in DOMAIN rows : ~results[i].ok THEN Failed
  ELSE Ok(FlattenSeq([i \in DOMAIN rows |->
         [k \in DOMAIN results[i].rows |-> MergeRows(rows[i], NamedRow(alias, results[i].rows[k]))]]))
LateralRows(out, plan, db, env) ==
  IF ~out.ok THEN Failed
  ELSE BesideEach(out.rows,
                  [i \in DOMAIN out.rows |-> Exec(plan.subquery, db, Correlated(env.context, out.rows[i]))],
                  plan.alias)
ExecLateral(plan, db, env) ==
  LateralRows(Exec(plan.outer, db, Plain(env.context)), plan, db, env)

\* plan_contains_aggregate
RECURSIVE ContainsAggregate(_)
ContainsAggregate(plan) ==
  CASE plan.node = "aggregate" -> TRUE
    [] plan.node \in {"project", "filter", "sort", "limit"} -> ContainsAggregate(plan.input)
    [] plan.node = "join" -> ContainsAggregate(plan.left) \/ ContainsAggregate(plan.right)
    [] plan.node = "cte"  -> ContainsAggregate(plan.inner)
    [] OTHER -> FALSE

\* supplement_cte_rows_from_source: the columns the WITH query read and did not
\* select are put behind the ones it selected
SupplementRow(row, source) ==
  LET extra == Ascending(source.names, {k \in DOMAIN source.names :
                                          source.names[k] \notin ToSet(row.names)})
  IN  Row(row.names \o Pick(source.names, extra), row.values \o Pick(source.values, extra))

SupplementRows(out, source) ==
  CASE ~source.ok -> Failed
    [] source.ok /\ Len(source.rows) # Len(out.rows) -> out
    [] OTHER -> Ok([i \in DOMAIN out.rows |-> SupplementRow(out.rows[i], source.rows[i])])

Supplement(plan, out, db, env) ==
  IF ~out.ok \/ plan.node # "project" THEN out
  ELSE IF ContainsAggregate(plan.input) THEN out
  ELSE SupplementRows(out, Exec(plan.input, db, env))

Extend(f, g) == [x \in DOMAIN f \cup DOMAIN g |-> IF x \in DOMAIN g THEN g[x] ELSE f[x]]

\* The WITH queries in order, each with the rows of those before it: exec_cte at
\* the top, exec_plan_with_ctes below another WITH, where nothing is
\* supplemented and subqueries see nothing of it
CteRows(plan, db, env, top) ==
  IF top THEN Supplement(plan, Exec(plan, db, env), db, env) ELSE Exec(plan, db, env)
WithCte(st, name, out) == [ok |-> st.ok /\ out.ok, ctes |-> Extend(st.ctes, (name :> out.rows))]
Materialize(plan, db, env) ==
  FoldLeft(LAMBDA st, cte :
             WithCte(st, cte[1], CteRows(cte[2], db, UnderWith(st.ctes, env.context), env.mode # "cte")),
           [ok |-> TRUE, ctes |-> IF env.mode = "cte" THEN env.ctes ELSE NoCtes], plan.ctes)

ExecInner(plan, db, env, st) ==
  LET context == IF env.mode = "cte" THEN env.context ELSE Extend(env.context, st.ctes)
  IN  IF st.ok THEN Exec(plan.inner, db, UnderWith(st.ctes, context)) ELSE Failed
ExecCte(plan, db, env) == ExecInner(plan, db, env, Materialize(plan, db, env))

\* The rows of a table, or of a WITH query of that name.  The columns a WITH
\* query only read keep their qualifier, and get no second one.
ScanRows(plan, db, env) ==
  LET rows == env.ctes[plan.table]
      bare(row) == Ascending(row.names, {k \in DOMAIN row.names : row.names[k][1] = ""})
      rest(row) == Ascending(row.names, {k \in DOMAIN row.names : row.names[k][1] # ""})
      columns(row) == [k \in DOMAIN bare(row) |-> row.names[bare(row)[k]][2]]
  IN  IF plan.table \in DOMAIN env.ctes
      THEN [i \in DOMAIN rows |->
              MergeRows(QualifyRow(plan.alias, columns(rows[i]), Pick(rows[i].values, bare(rows[i]))),
                        Row(Pick(rows[i].names, rest(rows[i])), Pick(rows[i].values, rest(rows[i]))))]
      ELSE [i \in DOMAIN db[plan.table] |-> QualifyRow(plan.alias, plan.columns, db[plan.table][i])]

\* A node of one input, on its result
ExecUnary(plan, input, db, env) ==
  CASE ~input.ok -> Failed
    [] input.ok /\ plan.node = "filter" /\ plan.pred.op = "exists" ->
         ExistsRows(input.rows, plan.pred, db, env)
    [] input.ok /\ plan.node = "filter" /\ plan.pred.op # "exists" ->
         FilterRows(input.rows, plan.pred, env.outer)
    [] input.ok /\ plan.node = "project" ->
         ProjectRows(input.rows, plan.columns, plan.distinct, env.outer)
    [] input.ok /\ plan.node = "sort"  -> SortRows(input.rows, plan.key)
    [] input.ok /\ plan.node = "limit" -> Ok(ExecLimit(input.rows, plan.limit, plan.offset))
    [] input.ok /\ plan.node = "aggregate" -> AggregateRows(input.rows, plan)

ExecJoined(plan, left, right) ==
  IF left.ok /\ right.ok THEN JoinRows(left.rows, right.rows, plan) ELSE Failed

Exec(plan, db, env) ==
  CASE plan.node = "error"   -> Failed
    [] plan.node = "scan"    -> Ok(ScanRows(plan, db, env))
    [] plan.node = "index"   -> Ok(IndexRows(plan, db[plan.table]))
    [] plan.node = "cte"     -> ExecCte(plan, db, env)
    [] plan.node = "lateral" -> ExecLateral(plan, db, env)
    [] plan.node = "join"    -> ExecJoined(plan, Exec(plan.left, db, env), Exec(plan.right, db, env))
    [] OTHER                 -> ExecUnary(plan, Exec(plan.input, db, env), db, env)

\* The answer to a query: its rows without their names
Unnamed(out) == [ok |-> out.ok, rows |-> [i \in DOMAIN out.rows |-> out.rows[i].values]]
Answer(q, db) == Unnamed(Exec(Optimize(PlanQueryWithCte(q, {})), db, Plain(NoCtes)))
=============================================================================
