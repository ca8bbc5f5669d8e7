------------------------------ MODULE Planner -------------------------------
(***************************************************************************)
(* From a query to its rows: the planner (sql/src/planner.rs), the         *)
(* optimizer (sql/src/optimizer.rs) and the walk over the plan             *)
(* (exec_plan and its variants, sql/src/executor.rs).  Columns are found   *)
(* by name at run time: a row carries its names, and most of what follows  *)
(* is about which names a row has at which node of the plan.               *)
(*                                                                         *)
(* A name is <<qualifier, column>>, with "" for none.  An expression is    *)
(* <<"col", name>>, <<"lit", value>>, <<"agg", function, expression>> or   *)
(* <<"star">>.  A condition is [op, l, r] with op eq or gt, or             *)
(* [op |-> "exists", query, negated].  A query is a record                 *)
(*   [ctes, from, join, where, items, distinct, group_by, having,          *)
(*    order_by, limit, offset]                                             *)
(* with lists for ctes (of <<name, query>>), from (of factors), items (of  *)
(* [e, as]) and group_by (of [kind, sets]); where and having are lists of  *)
(* at most one condition, order_by of at most one [e, ascending,           *)
(* nulls_first].                                                           *)
(***************************************************************************)
EXTENDS Aggregates

CONSTANTS
  Schema,     \* the columns of each table
  Indexed,    \* pairs <<table, column>> with an index
  Statistics  \* for some <<table, column>>: [n_distinct, common, freq], in percent

-----------------------------------------------------------------------------
(* Rows with names (sql/src/row.rs) *)

\* The indices of a list that are in S, in order
Ascending(list, S) == SelectSeq([i \in DOMAIN list |-> i], LAMBDA i : i \in S)

Bare(c) == <<"", c>>
Row(names, values) == [names |-> names, values |-> values]
NoRow == Row(<<>>, <<>>)

\* Row::get: the place of the name, or of the one qualified name that ends in it
FoundAt(name, exact, suffix) ==
  CASE exact # 0 -> exact
    [] exact = 0 /\ name[1] = "" /\ Cardinality(suffix) = 1 -> CHOOSE k \in suffix : TRUE
    [] OTHER -> 0
Get(row, name) ==
  FoundAt(name, SelectInSeq(row.names, LAMBDA n : n = name),
          {k \in DOMAIN row.names : row.names[k][1] # "" /\ row.names[k][2] = name[2]})

\* The places of all columns with that name
Places(row, c) == {k \in DOMAIN row.names : row.names[k][2] = c}

Error == <<"error", 0>>

\* The column of a row (eval_expr), or where it has none, of the row around a
\* subquery (eval_expr_with_outer), from the places of the name and of the bare
\* name in both
ColumnValue(row, outer, name, own, around, bareOwn, bareAround) ==
  LET foreign == name[1] # "" /\ \A k \in DOMAIN row.names : row.names[k][1] # name[1]
      first(S) == CHOOSE k \in S : \A j \in S : k <= j
  IN  CASE name[1] # "" /\ own # 0 -> row.values[own]
        [] name[1] # "" /\ own = 0 /\ around # 0 -> outer.values[around]
        [] OTHER ->
             IF foreign /\ Places(outer, name[2]) # {}
             THEN outer.values[IF bareAround # 0 THEN bareAround ELSE first(Places(outer, name[2]))]
             ELSE IF bareOwn # 0 THEN row.values[bareOwn]
             ELSE IF Places(row, name[2]) # {} THEN Error
             ELSE IF bareAround # 0 THEN outer.values[bareAround]
             ELSE Error

EvalColumn(row, outer, name) ==
  ColumnValue(row, outer, name, Get(row, name), Get(outer, name),
              Get(row, Bare(name[2])), Get(outer, Bare(name[2])))

Eval(row, outer, e) == IF e[1] = "lit" THEN e[2] ELSE EvalColumn(row, outer, e[2])

\* qualify_row_schema: every column twice, with and without the alias
QualifyRow(alias, columns, values) ==
  Row([k \in 1..2 * Len(columns) |->
         IF k % 2 = 1 THEN <<alias, columns[(k + 1) \div 2]>> ELSE Bare(columns[k \div 2])],
      [k \in 1..2 * Len(columns) |-> values[(k + 1) \div 2]])

MergeRows(l, r) == Row(l.names \o r.names, l.values \o r.values)

\* deduplicate_using_cols: of a USING column the first occurrence stays
DeduplicateUsing(row, using) ==
  LET keep == {k \in DOMAIN row.names :
                 row.names[k][2] \in ToSet(using) =>
                   \A j \in 1..k - 1 : row.names[j][2] # row.names[k][2]}
      order == Ascending(row.names, keep)
  IN  Row(Pick(row.names, order), Pick(row.values, order))

-----------------------------------------------------------------------------
(* The planner: FROM, WHERE, GROUP BY *)

Scan(table, alias, columns) ==
  [node |-> "scan", table |-> table, alias |-> alias, columns |-> columns]

Join(l, r, type, on, using) ==
  [node |-> "join", left |-> l, right |-> r, type |-> type, on |-> on, using |-> using]

\* get_plan_column_names, for NATURAL JOIN
RECURSIVE PlanColumnNames(_)
PlanColumnNames(plan) ==
  CASE plan.node = "scan" -> plan.columns
    [] plan.node = "project" -> [k \in DOMAIN plan.columns |-> plan.columns[k].name]
    [] plan.node = "join" -> PlanColumnNames(plan.left) \o PlanColumnNames(plan.right)
    [] OTHER -> <<>>

\* extract_schema_from_plan
RECURSIVE SchemaOf(_)
SchemaOf(plan) ==
  CASE plan.node = "scan" -> QualifyRow(plan.alias, plan.columns, plan.columns).names
    [] plan.node = "index" -> [k \in DOMAIN Schema[plan.table] |-> Bare(Schema[plan.table][k])]
    [] plan.node = "filter" -> SchemaOf(plan.input)
    [] plan.node = "project" -> [k \in DOMAIN plan.columns |-> Bare(plan.columns[k].name)]
    [] plan.node = "join" -> SchemaOf(plan.left) \o SchemaOf(plan.right)
    [] OTHER -> <<>>

\* estimate_selectivity, in percent
EstimateSelectivity(table, cond) ==
  LET col == IF cond.l[1] = "col" THEN cond.l[2][2] ELSE cond.r[2][2]
      lit == IF cond.l[1] = "lit" THEN cond.l ELSE cond.r
  IN  IF <<table, col>> \notin DOMAIN Statistics THEN 50
      ELSE LET s == Statistics[<<table, col>>]
           IN  CASE cond.op = "eq" /\ lit[2] = s.common -> s.freq
                 [] cond.op = "eq" -> 100 \div (IF s.n_distinct > 1 THEN s.n_distinct ELSE 1)
                 [] cond.op = "gt" -> 30

Index(plan, col, lo, hi) ==
  [node |-> "index", table |-> plan.table, column |-> col, lo |-> lo, hi |-> hi]

\* A column of a scan against a literal, either way round.  The qualifier is
\* not looked at.
OnIndex(plan, cond) ==
  /\ plan.node = "scan"
  /\ cond.op \in {"eq", "gt"}
  /\ {cond.l[1], cond.r[1]} = {"col", "lit"}
  /\ <<plan.table, IF cond.l[1] = "col" THEN cond.l[2][2] ELSE cond.r[2][2]>> \in Indexed

\* try_index_scan of the planner: an equality; nothing is left to filter
PlanWhere(plan, cond) ==
  IF OnIndex(plan, cond) /\ cond.op = "eq"
  THEN IF cond.l[1] = "col" THEN Index(plan, cond.l[2][2], cond.r[2], cond.r[2])
                            ELSE Index(plan, cond.r[2][2], cond.l[2], cond.l[2])
  ELSE [node |-> "filter", input |-> plan, pred |-> cond]

\* try_index_scan of the optimizer: ranges too, where few rows are expected
OptimizeFilter(plan, cond) ==
  IF OnIndex(plan, cond) /\ cond.op = "gt" /\ EstimateSelectivity(plan.table, cond) < 20
  THEN IF cond.l[1] = "col" THEN Index(plan, cond.l[2][2], cond.r[2], NullValue)
                            ELSE Index(plan, cond.r[2][2], NullValue, cond.l[2])
  ELSE PlanWhere(plan, cond)

\* extract_group_by and extract_grouping_sets; <<>> stands for a plain GROUP BY.
\* Of two elements every set of one is combined with every set of the other.
ExtractGroupBy(group_by) ==
  FlattenSeq([k \in DOMAIN group_by |-> FlattenSeq(group_by[k].sets)])

Masked(cols, mask) ==
  LET in == {i \in DOMAIN cols : (mask \div 2 ^ (i - 1)) % 2 = 1}
  IN  Pick(cols, Ascending(cols, in))

\* Mutant: ROLLUP without the grand total.
ExpandGroupingNoTotal(g) ==
  LET cols == FlattenSeq(g.sets)
      n    == Len(cols)
  IN  CASE g.kind = "rollup" -> [i \in 1..n |-> SubSeq(cols, 1, n + 1 - i)]
        [] g.kind = "cube"   -> [i \in 1..2 ^ n |-> Masked(cols, 2 ^ n - i)]
        [] OTHER             -> g.sets

ExpandGrouping(g) ==
  LET cols == FlattenSeq(g.sets)
      n    == Len(cols)
  IN  CASE g.kind = "rollup" -> [i \in 1..n + 1 |-> SubSeq(cols, 1, n + 1 - i)]
        [] g.kind = "cube"   -> [i \in 1..2 ^ n |-> Masked(cols, 2 ^ n - i)]
        [] OTHER             -> g.sets

Combine(all, new) ==
  IF all = <<>> THEN new
  ELSE FlattenSeq([i \in DOMAIN all |-> [j \in DOMAIN new |-> all[i] \o new[j]]])

ExtractGroupingSets(group_by) ==
  IF \A k \in DOMAIN group_by : group_by[k].kind = "plain" THEN <<>>
  ELSE FoldLeft(LAMBDA all, g : Combine(all, ExpandGrouping(g)), <<>>, group_by)

-----------------------------------------------------------------------------
(* The planner: SELECT list, HAVING, ORDER BY *)

ExprToName(e) ==
  CASE e[1] = "col" -> e[2][2]
    [] e[1] = "agg" -> e[2]
    [] OTHER        -> "literal"

NameOf(item) == IF item.as = "" THEN ExprToName(item.e) ELSE item.as
HasAggregate(e) == e[1] = "agg"

\* extract_aggregates
AggregatesOf(items) ==
  LET aggs == SelectSeq(items, LAMBDA i : HasAggregate(i.e))
  IN  [k \in DOMAIN aggs |-> [name |-> NameOf(aggs[k]), func |-> aggs[k].e[2], arg |-> aggs[k].e[3]]]

\* extract_having_aggregates: those whose name is not there yet
HavingAggregates(having, aggs) ==
  LET found == FlattenSeq([k \in DOMAIN having |-> <<having[k].l, having[k].r>>])
      add(out, e) == IF HasAggregate(e) /\ \A k \in DOMAIN (aggs \o out) : (aggs \o out)[k].name # e[2]
                     THEN Append(out, [name |-> e[2], func |-> e[2], arg |-> e[3]]) ELSE out
  IN  FoldLeft(add, <<>>, found)

\* convert_having_expr: an aggregate becomes a column with the function's name
ConvertHaving(cond) ==
  LET column(e) == IF HasAggregate(e) THEN <<"col", Bare(ExprToName(e))>> ELSE e
  IN  [cond EXCEPT !.l = column(@), !.r = column(@)]

\* validate_aggregate_select
ValidAggregateSelect(items, columns, aggs) ==
  aggs # <<>> =>
    \A k \in DOMAIN items :
      \/ items[k].e[1] \in {"star", "lit"}
      \/ \E a \in ToSet(aggs) : a.name = NameOf(items[k])
      \/ \E c \in ToSet(columns) : items[k].e = <<"col", c>>

\* build_projection
BuildProjection(items, plan) ==
  LET bare == SelectSeq(SchemaOf(plan), LAMBDA n : n[1] = "")
      expand(item) == IF item.e[1] = "star"
                      THEN [k \in DOMAIN bare |-> [name |-> bare[k][2], e |-> <<"col", bare[k]>>]]
                      ELSE <<[name |-> NameOf(item), e |-> item.e]>>
  IN  FlattenSeq([k \in DOMAIN items |-> expand(items[k])])

\* build_post_agg_projection: every item is the column of that name
PostAggProjection(items) ==
  [k \in DOMAIN items |-> [name |-> NameOf(items[k]), e |-> <<"col", Bare(NameOf(items[k]))>>]]

Project(plan, columns, distinct) ==
  [node |-> "project", input |-> plan, columns |-> columns, distinct |-> distinct]

\* plan_select_body after FROM and WHERE: a plan, whether its projection is
\* applied already, and the projection; plan_select puts the one on the other
PlanSelectBody(q, plan) ==
  LET columns == ExtractGroupBy(q.group_by)
      listed  == AggregatesOf(q.items)
      aggs    == listed \o HavingAggregates(q.having, listed)
      agg     == [node |-> "aggregate", input |-> plan, group_by |-> columns, aggs |-> aggs,
                  having |-> [k \in DOMAIN q.having |-> ConvertHaving(q.having[k])],
                  sets |-> ExtractGroupingSets(q.group_by)]
  IN  IF listed = <<>> /\ columns = <<>>
      THEN [ok |-> TRUE, projected |-> FALSE, plan |-> plan,
            columns |-> BuildProjection(q.items, plan)]
      ELSE [ok |-> ValidAggregateSelect(q.items, columns, aggs), projected |-> TRUE,
            plan |-> Project(agg, PostAggProjection(q.items), q.distinct), columns |-> <<>>]

\* Mutant: ORDER BY does not look at aliases.
OrderExprAsWritten(q, e, projected) ==
  IF projected /\ HasAggregate(e) THEN <<"col", Bare(ExprToName(e))>> ELSE e

\* The ORDER BY key of plan_query: an aggregate by the text of the call, an
\* alias by what it stands for, else the expression
OrderExpr(q, e, projected) ==
  LET same    == SelectSeq(q.items, LAMBDA i : i.e = e)
      aliased == SelectSeq(q.items, LAMBDA i : i.as # "" /\ e = <<"col", Bare(i.as)>>)
  IN  CASE projected /\ HasAggregate(e) ->
             <<"col", Bare(IF same # <<>> THEN NameOf(same[1]) ELSE ExprToName(e))>>
        [] ~projected /\ aliased # <<>> -> aliased[1].e
        [] OTHER -> e

\* A plan that could not be made
NoPlan == [node |-> "error"]

PlanLimit(q, plan) ==
  IF q.limit = NoLimit /\ q.offset = 0 THEN plan
  ELSE [node |-> "limit", input |-> plan, limit |-> q.limit, offset |-> q.offset]

\* A factor of FROM: a table, a WITH query (its columns are not known), or a
\* subquery, whose alias is forgotten.  The join is [type, con, on, using].
RECURSIVE PlanQueryWithCte(_, _)
PlanFactor(f, ctes) ==
  CASE f.kind # "table"  -> PlanQueryWithCte(f.query, ctes)
    [] f.table \in ctes  -> Scan(f.table, f.alias, <<>>)
    [] OTHER             -> Scan(f.table, f.alias, Schema[f.table])

UsingColumns(join, l, r) ==
  CASE join.con = "using"   -> join.using
    [] join.con = "natural" ->
         SelectSeq(PlanColumnNames(l), LAMBDA c : c \in ToSet(PlanColumnNames(r)))
    [] OTHER -> <<>>

PlanFrom(q, ctes) ==
  LET l == PlanFactor(q.from[1], ctes)
      r == PlanFactor(q.from[2], ctes)
  IN  IF Len(q.from) = 1 THEN l
      ELSE IF q.from[2].kind = "lateral"
      THEN [node |-> "lateral", outer |-> l, subquery |-> r, alias |-> q.from[2].alias]
      ELSE Join(l, r, q.join.type, q.join.on, UsingColumns(q.join, l, r))

\* A subquery in a condition is planned with it.
ConvertCondition(cond, ctes) ==
  IF cond.op # "exists" THEN cond
  ELSE [op |-> "exists", plan |-> PlanQueryWithCte(cond.query, ctes), negated |-> cond.negated]

\* plan_query: the sort comes before the projection
FinishSelect(q, from, ctes) ==
  LET plan == IF q.where = <<>> THEN from ELSE PlanWhere(from, ConvertCondition(q.where[1], ctes))
      body == PlanSelectBody(q, plan)
      sorted == IF q.order_by = <<>> THEN body.plan
                ELSE [node |-> "sort", input |-> body.plan,
                      key |-> [q.order_by[1] EXCEPT !.e = OrderExpr(q, @, body.projected)]]
      all == IF body.projected THEN sorted ELSE Project(sorted, body.columns, q.distinct)
  IN  IF body.ok THEN PlanLimit(q, all) ELSE NoPlan

\* plan_query_with_cte: each WITH query sees the ones before it
PlanQueryWithCte(q, ctes) ==
  LET names(k) == ctes \cup {q.ctes[j][1] : j \in 1..k - 1}
      all == names(Len(q.ctes) + 1)
      inner == FinishSelect(q, PlanFrom(q, all), all)
  IN  IF q.ctes = <<>> THEN inner
      ELSE [node |-> "cte", inner |-> inner,
            ctes |-> [k \in DOMAIN q.ctes |->
                        <<q.ctes[k][1], PlanQueryWithCte(q.ctes[k][2], names(k))>>]]

\* optimize: the filters that are left on scans; everything else is rebuilt
RECURSIVE Optimize(_)
Optimize(plan) ==
  CASE plan.node = "filter" -> OptimizeFilter(Optimize(plan.input), plan.pred)
    [] plan.node \in {"project", "sort", "limit", "aggregate"} ->
         [plan EXCEPT !.input = Optimize(@)]
    [] plan.node = "join" -> [plan EXCEPT !.left = Optimize(@), !.right = Optimize(@)]
    [] plan.node = "cte"  ->
         [plan EXCEPT !.inner = Optimize(@),
                      !.ctes = [k \in DOMAIN @ |-> <<@[k][1], Optimize(@[k][2])>>]]
    [] OTHER -> plan
=============================================================================
