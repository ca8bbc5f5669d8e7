-------------------------------- MODULE Plans -------------------------------
(***************************************************************************)
(* What a query means, without plans and without names in rows, and that   *)
(* the planned, optimized and executed query answers it.  A scope is a     *)
(* list of [alias, columns, values]; a name is looked up from the left, so *)
(* the scopes around a subquery come behind its own.                       *)
(***************************************************************************)
EXTENDS PlanExecution

CONSTANTS
  Statements, \* pairs <<kind, query>>
  Databases,  \* functions from tables to rows
  Groupings   \* GROUP BY clauses

VARIABLE input

Init ==
  \/ \E q \in Statements, db \in Databases : input = [of |-> q[1], query |-> q[2], db |-> db]
  \/ \E g \in Groupings : input = [of |-> "grouping", group_by |-> g]

Next == UNCHANGED input
Spec == Init /\ [][Next]_input

-----------------------------------------------------------------------------
(* The meaning of a query *)

InBinding(b, c) == b.values[SelectInSeq(b.columns, LAMBDA d : d = c)]
Lookup(scope, name) ==
  InBinding(scope[SelectInSeq(scope, LAMBDA b : /\ name[2] \in ToSet(b.columns)
                                                /\ name[1] \in {"", b.alias})], name[2])

ValueOf(scope, e) == IF e[1] = "lit" THEN e[2] ELSE Lookup(scope, e[2])

True(op, v, w) ==
  ~IsNull(v) /\ ~IsNull(w) /\ (IF op = "eq" THEN v[2] = w[2] ELSE v[2] > w[2])

Binding(f, columns, values) == [alias |-> f.alias, columns |-> columns, values |-> values]
Empty(f, columns) == Binding(f, columns, [k \in DOMAIN columns |-> NullValue])

RECURSIVE Meaning(_, _, _, _)

\* The columns and rows a factor of FROM stands for
Source(f, db, ctes, outer) ==
  CASE f.kind # "table" -> Meaning(f.query, db, ctes, outer)
    [] f.kind = "table" /\ f.table \in DOMAIN ctes -> ctes[f.table]
    [] OTHER -> [columns |-> Schema[f.table], rows |-> db[f.table]]

Satisfies(scope, cond, db, ctes) ==
  IF cond.op = "exists"
  THEN (Meaning(cond.query, db, ctes, scope).rows # <<>>) # cond.negated
  ELSE True(cond.op, ValueOf(scope, cond.l), ValueOf(scope, cond.r))

Bindings(f, source) == [i \in DOMAIN source.rows |-> Binding(f, source.columns, source.rows[i])]

Common(join, l, r) ==
  CASE join.con = "using" -> ToSet(join.using)
    [] join.con = "natural" -> ToSet(l.columns) \cap ToSet(r.columns)
    [] OTHER -> {}

JoinedOn(join, l, r, db, ctes) ==
  /\ \A c \in Common(join, l, r) : True("eq", InBinding(l, c), InBinding(r, c))
  /\ \A c \in ToSet(join.on) : Satisfies(<<l, r>>, c, db, ctes)

\* A row of the left with its partners, or for an outer join with NULLs
WithPartners(type, l, partners, nulls) ==
  IF partners = <<>> /\ type \in {"left", "full"} THEN <<<<l, nulls>>>>
  ELSE [k \in DOMAIN partners |-> <<l, partners[k]>>]
WithNulls(rows, nulls) == [k \in DOMAIN rows |-> <<nulls, rows[k]>>]

\* The right side of a join; a LATERAL subquery has rows for each row of the left
RightSide(g, db, ctes, outer, l) ==
  Source(g, db, ctes, IF g.kind = "lateral" THEN <<l>> \o outer ELSE outer)

PartnersOf(q, db, ctes, l, right) ==
  WithPartners(q.join.type, l,
               SelectSeq(Bindings(q.from[2], right), LAMBDA r : JoinedOn(q.join, l, r, db, ctes)),
               Empty(q.from[2], right.columns))

Lonely(q, db, ctes, lefts, rights) ==
  SelectSeq(rights, LAMBDA r : \A l \in ToSet(lefts) : ~JoinedOn(q.join, l, r, db, ctes))

\* The scopes of a join: the pairs that satisfy it, and for an outer join each
\* row without a partner, with NULLs beside it
JoinScopes(q, db, ctes, outer, columns, lefts) ==
  FlattenSeq([i \in DOMAIN lefts |->
    PartnersOf(q, db, ctes, lefts[i], RightSide(q.from[2], db, ctes, outer, lefts[i]))])
  \o IF q.join.type \notin {"right", "full"} THEN <<>>
     ELSE WithNulls(Lonely(q, db, ctes, lefts, Bindings(q.from[2], Source(q.from[2], db, ctes, outer))),
                    Empty(q.from[1], columns))

FromScopes(q, db, ctes, outer, first) ==
  IF Len(q.from) = 2
  THEN JoinScopes(q, db, ctes, outer, first.columns, Bindings(q.from[1], first))
  ELSE [i \in DOMAIN first.rows |-> <<Binding(q.from[1], first.columns, first.rows[i])>>]

\* The value of an expression for a group of scopes
AggregateOf(func, vs) ==
  CASE func = "count" -> Int8(Len(vs))
    [] func = "sum" /\ vs # <<>> -> Int8(FoldLeft(LAMBDA s, v : s + v[2], 0, vs))
    [] OTHER -> NullValue
GroupValue(scopes, e) ==
  IF HasAggregate(e)
  THEN AggregateOf(e[2], NonNull([i \in DOMAIN scopes |-> ValueOf(scopes[i], e[3])]))
  ELSE ValueOf(scopes[1], e)

Grouped(q) == q.group_by # <<>> \/ \E i \in ToSet(q.items) : HasAggregate(i.e)

\* Scopes that agree on the grouping columns are a group; without any column
\* there is one, even of no scopes.
ScopeKey(columns, scope) == [k \in DOMAIN columns |-> Lookup(scope, columns[k])]
GroupsBy(columns, scopes) ==
  IF columns = <<>> THEN <<scopes>>
  ELSE SetToSeq({SelectSeq(scopes, LAMBDA s : ScopeKey(columns, s) = key) :
                   key \in {ScopeKey(columns, s) : s \in ToSet(scopes)}})
GroupsOf(q, scopes) ==
  IF Grouped(q) THEN GroupsBy(FlattenSeq([k \in DOMAIN q.group_by |-> FlattenSeq(q.group_by[k].sets)]), scopes)
  ELSE [i \in DOMAIN scopes |-> <<scopes[i]>>]

\* WHERE, HAVING and the items, each for the result of the one before
Chosen(q, db, ctes, outer, from) ==
  SelectSeq([i \in DOMAIN from |-> from[i] \o outer],
            LAMBDA s : \A c \in ToSet(q.where) : Satisfies(s, c, db, ctes))
Kept(q, groups) ==
  SelectSeq(groups, LAMBDA g : \A c \in ToSet(q.having) :
                                 True(c.op, GroupValue(g, c.l), GroupValue(g, c.r)))
ItemValues(q, g, e) ==
  IF e[1] = "star" THEN FlattenSeq([k \in DOMAIN q.from |-> g[1][k].values]) ELSE <<GroupValue(g, e)>>
OutputRows(q, groups) ==
  [i \in DOMAIN groups |-> FlattenSeq([k \in DOMAIN q.items |-> ItemValues(q, groups[i], q.items[k].e)])]

OutputName(item) ==
  IF item.as # "" THEN item.as ELSE IF item.e[1] = "col" THEN item.e[2][2] ELSE ""

Output(q, db, ctes, outer, first) ==
  LET rows == OutputRows(q, Kept(q, GroupsOf(q, Chosen(q, db, ctes, outer,
                                                       FromScopes(q, db, ctes, outer, first)))))
  IN  [columns |-> IF q.items[1].e[1] = "star" THEN first.columns
                   ELSE [k \in DOMAIN q.items |-> OutputName(q.items[k])],
       rows |-> IF q.distinct THEN SetToSeq(ToSet(rows)) ELSE rows]

\* The columns and rows of a query, for the scopes around it
Selected(q, db, ctes, outer) == Output(q, db, ctes, outer, Source(q.from[1], db, ctes, outer))
Meaning(q, db, ctes, outer) ==
  Selected(q, db, FoldLeft(LAMBDA env, cte : Extend(env, (cte[1] :> Meaning(cte[2], db, env, <<>>))),
                           ctes, q.ctes), outer)

-----------------------------------------------------------------------------
(* Properties *)

\* The same rows as often, types of integers apart
Plainly(rows) == [i \in DOMAIN rows |-> [k \in DOMAIN rows[i] |->
                    IF IsNull(rows[i][k]) THEN <<>> ELSE <<rows[i][k][2]>>]]
Count(rows, row) == Cardinality({i \in DOMAIN rows : rows[i] = row})
Within(rows, others) == \A row \in ToSet(rows) : Count(rows, row) <= Count(others, row)

\* The rows come in the order of the key, which is the first column; where DESC
\* puts NULLs is left open (see NullsWhereAsked in Queries)
InOrder(rows, key) ==
  \A i \in DOMAIN rows : \A j \in 1..i - 1 :
    LET v == rows[j][1]
        w == rows[i][1]
    IN  CASE IsNull(v) /\ IsNull(w)  -> TRUE
          [] IsNull(v) /\ ~IsNull(w) -> key.ascending => key.nulls_first
          [] ~IsNull(v) /\ IsNull(w) -> key.ascending => ~key.nulls_first
          [] OTHER -> IF key.ascending THEN v[2] <= w[2] ELSE v[2] >= w[2]

\* No row that was left out comes before one that was returned.
Foremost(rows, all, plain, plainAll, key) ==
  \A i \in DOMAIN all :
    Count(plain, plainAll[i]) < Count(plainAll, plainAll[i]) =>
      \A got \in ToSet(rows) : InOrder(<<got, all[i]>>, key)

AreAnswer(q, rows, all, plain, plainAll) ==
  /\ Len(rows) = IF q.limit = NoLimit THEN Len(all) ELSE Smaller(Len(all), q.limit)
  /\ Within(plain, plainAll)
  /\ \A key \in ToSet(q.order_by) : InOrder(rows, key) /\ Foremost(rows, all, plain, plainAll, key)
IsAnswer(q, out, all) == out.ok /\ AreAnswer(q, out.rows, all, Plainly(out.rows), Plainly(all))
Answers(q, db) == IsAnswer(q, Answer(q, db), Meaning(q, db, NoCtes, <<>>).rows)

\* rows_match_using takes NULL for equal to NULL.
NullsMeet(q, db) ==
  /\ q.join.con \in {"using", "natural"}
  /\ \A k \in DOMAIN q.from : \E row \in ToSet(db[q.from[k].table]) : NullValue \in ToSet(row)

\* A query over tables gets the rows it asks for, each as often as it should,
\* in the order of its ORDER BY and, under a LIMIT, the first of them: filters,
\* index scans chosen by the planner and the optimizer, joins on, using and
\* natural, grouping, HAVING, DISTINCT, an alias as the sort key.
PlansAnswer ==
  input.of = "plan" => NullsMeet(input.query, input.db) \/ Answers(input.query, input.db)

\* So does a query over other queries: a WITH query and the one after it that
\* uses it, a subquery in FROM, LATERAL, and [NOT] EXISTS that looks at the row
\* around it, in one another.
SubqueriesAnswer == input.of = "sub" => Answers(input.query, input.db)

\* GROUP BY with ROLLUP, CUBE and GROUPING SETS: the sets of columns that the
\* planner hands to the executor are, each as often as it should be, all ways
\* to choose one set of each element: the prefixes of a ROLLUP, the subsets of a
\* CUBE.
SetsOf(g) ==
  LET cols == FlattenSeq(g.sets)
  IN  CASE g.kind = "rollup" -> {SubSeq(cols, 1, n) : n \in 0..Len(cols)}
        [] g.kind = "cube"   -> {SelectSeq(cols, LAMBDA c : c \in S) : S \in SUBSET ToSet(cols)}
        [] OTHER             -> ToSet(g.sets)

EachSetOnce(out, chosen) ==
  \/ out = <<>> /\ Cardinality(chosen) = 1
  \/ /\ Len(out) = Cardinality(chosen)
     /\ \A s \in ToSet(out) \cup {FlattenSeq(f) : f \in chosen} :
          Count(out, s) = Cardinality({f \in chosen : FlattenSeq(f) = s})

GroupingSetsExpand ==
  input.of = "grouping" =>
    LET gs == input.group_by
    IN  EachSetOnce(ExtractGroupingSets(gs),
                    {f \in [DOMAIN gs -> UNION {SetsOf(gs[k]) : k \in DOMAIN gs}] :
                       \A k \in DOMAIN gs : f[k] \in SetsOf(gs[k])})
=============================================================================
