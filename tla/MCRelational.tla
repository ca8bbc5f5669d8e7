---------------------------- MODULE MCRelational -----------------------------
(* Small inputs for the relational operators, and queries with small tables for
   the planner and the executor. *)
EXTENDS Queries, TLC

JoinValues == {NullValue, Int4(1), Int4(2), Int8(1)}
GroupValues == {NullValue, Int4(1)}
Amounts == {NullValue, Int4(1), Int4(3)}

-----------------------------------------------------------------------------
Columns == [t |-> <<"a", "b">>, u |-> <<"a", "c">>, k |-> <<"a", "b">>]
Keyed == {<<"k", "a">>}
Stats == (<<"k", "a">> :> [n_distinct |-> 2, common |-> Int4(1), freq |-> 50])

Col(q, c) == <<"col", <<q, c>>>>
Lit(n) == <<"lit", Int4(n)>>
Cond(op, l, r) == [op |-> op, l |-> l, r |-> r]
Item(e, as) == [e |-> e, as |-> as]
Table(t, alias) == [kind |-> "table", table |-> t, alias |-> alias]
Sub(kind, q, alias) == [kind |-> kind, query |-> q, alias |-> alias]
Exists(q, negated) == [op |-> "exists", query |-> q, negated |-> negated]
By(e, asc, first) == [e |-> e, ascending |-> asc, nulls_first |-> first]

Base == [ctes |-> <<>>, from |-> <<Table("t", "t")>>,
         join |-> [type |-> "inner", con |-> "on", on |-> <<>>, using |-> <<>>],
         where |-> <<>>, items |-> <<Item(<<"star">>, "")>>, distinct |-> FALSE,
         group_by |-> <<>>, having |-> <<>>, order_by |-> <<>>, limit |-> NoLimit, offset |-> 0]

Wheres == {<<>>, <<Cond("eq", Col("", "a"), Lit(1))>>, <<Cond("gt", Col("", "a"), Lit(1))>>,
           <<Cond("gt", Lit(2), Col("", "a"))>>, <<Cond("eq", Col("", "b"), Col("", "a"))>>}

\* One table: plain, or with an index on a column of distinct values
OneTable ==
  {[Base EXCEPT !.from = <<Table(t, t)>>, !.where = w, !.items = i, !.distinct = d,
                !.order_by = o, !.limit = n] :
     t \in {"t", "k"}, w \in Wheres, d \in BOOLEAN, n \in {NoLimit, 1},
     i \in {<<Item(<<"star">>, "")>>, <<Item(Col("", "a"), "")>>, <<Item(Col("", "a"), "b")>>},
     o \in {<<>>, <<By(Col("", "a"), TRUE, FALSE)>>, <<By(Col("", "a"), FALSE, TRUE)>>}}

\* An alias that is a column as well is the alias in ORDER BY.
Aliased ==
  {[Base EXCEPT !.items = <<Item(Col("", "a"), "b")>>, !.where = w,
                !.order_by = <<By(Col("", "b"), asc, FALSE)>>, !.limit = n] :
     w \in Wheres, asc \in BOOLEAN, n \in {NoLimit, 1}}

Agg(f, c) == <<"agg", f, Col("", c)>>
PlainBy(c) == [kind |-> "plain", sets |-> <<<<<<"", c>>>>>>]
GroupQueries ==
  {[Base EXCEPT !.items = i, !.where = w, !.group_by = <<PlainBy("a")>>, !.having = h, !.order_by = o] :
     i \in {<<Item(Col("", "a"), ""), Item(Agg("sum", "b"), "")>>,
            <<Item(Col("", "a"), ""), Item(Agg("count", "b"), "n")>>},
     w \in Wheres,
     h \in {<<>>, <<Cond("gt", Agg("sum", "b"), Lit(1))>>, <<Cond("eq", Agg("count", "b"), Lit(1))>>},
     o \in {<<>>, <<By(Col("", "a"), FALSE, TRUE)>>}}
  \cup {[Base EXCEPT !.items = <<Item(Agg(f, "b"), "")>>, !.where = w] :
          f \in {"sum", "count"}, w \in Wheres}

Both == <<Item(Col("t", "a"), ""), Item(Col("", "b"), ""), Item(Col("", "c"), "")>>
JoinTU(type, con, on, using) ==
  [Base EXCEPT !.from = <<Table("t", "t"), Table("u", "u")>>, !.items = Both,
               !.join = [type |-> type, con |-> con, on |-> on, using |-> using]]
JoinQueries ==
  {JoinTU(type, "on", <<c>>, <<>>) :
     type \in {"inner", "left", "right", "full"},
     c \in {Cond("eq", Col("t", "a"), Col("u", "a")), Cond("eq", Col("u", "a"), Col("t", "a")),
            Cond("eq", Col("t", "b"), Col("u", "c")), Cond("eq", Col("u", "c"), Col("t", "b")),
            Cond("gt", Col("t", "a"), Col("u", "a"))}}
  \cup {JoinTU(type, "using", <<>>, <<"a">>) : type \in {"inner", "left"}}
  \cup {JoinTU(type, "natural", <<>>, <<>>) : type \in {"inner", "left"}}

\* Queries over queries
Inner == {[Base EXCEPT !.where = w, !.items = <<Item(Col("", "a"), ""), Item(Col("", "b"), "")>>] :
            w \in Wheres}
Same == Cond("eq", Col("u", "a"), Col("t", "a"))
Around(neg, w) == Exists([Base EXCEPT !.from = <<Table("u", "u")>>, !.where = <<w>>], neg)
SubQueries ==
  {[Base EXCEPT !.from = <<Sub("derived", q, "s")>>, !.where = w,
                !.items = <<Item(Col("", "b"), "")>>] : q \in Inner, w \in Wheres}
  \cup {[Base EXCEPT !.ctes = <<<<"w", q>>>>, !.from = <<Table("w", "w")>>, !.where = w,
                     !.items = <<Item(Col("w", "a"), "")>>] : q \in Inner, w \in Wheres}
  \cup {[Base EXCEPT !.ctes = <<<<"w", q>>, <<"x", [Base EXCEPT !.from = <<Table("w", "w")>>,
                                                              !.items = <<Item(Col("", "b"), "c")>>]>>>>,
                     !.from = <<Table("w", "w"), Table("x", "x")>>,
                     !.join = [@ EXCEPT !.type = type, !.on = <<Cond("eq", Col("w", "a"), Col("x", "c"))>>],
                     !.items = <<Item(Col("w", "a"), ""), Item(Col("x", "c"), "")>>] :
          q \in Inner, type \in {"inner", "left"}}
  \cup {[Base EXCEPT !.where = <<Around(neg, c)>>] :
          neg \in BOOLEAN,
          c \in {Same, Cond("gt", Col("u", "c"), Col("t", "b")), Cond("gt", Col("", "c"), Col("", "b")),
                 Exists([Base EXCEPT !.from = <<Table("k", "k")>>,
                                     !.where = <<Cond("eq", Col("u", "a"), Col("t", "b"))>>], FALSE)}}
  \cup {[Base EXCEPT !.from = <<Table("t", "t"),
                                Sub("lateral", [Base EXCEPT !.from = <<Table("u", "u")>>, !.where = <<c>>,
                                                            !.items = <<Item(Col("", "c"), "")>>], "s")>>,
                     !.items = <<Item(Col("t", "a"), ""), Item(Col("s", "c"), "")>>] :
          c \in {Same, Cond("gt", Col("u", "c"), Col("t", "b"))}}
  \cup {[Base EXCEPT !.ctes = <<<<"w", q>>>>, !.from = <<Table("u", "u")>>,
                     !.where = <<Exists([Base EXCEPT !.from = <<Table("w", "w")>>,
                                                     !.where = <<Cond("eq", Col("w", "b"), Col("u", "a"))>>,
                                                     !.items = <<Item(Col("w", "a"), "")>>], neg)>>] :
          q \in Inner, neg \in BOOLEAN}

AllQueries == ({"plan"} \X (OneTable \cup Aliased \cup GroupQueries \cup JoinQueries)) \cup ({"sub"} \X SubQueries)

Num(n) == IF n = 0 THEN NullValue ELSE Int4(n)
Rows2(s) == [i \in DOMAIN s |-> <<Num(s[i][1]), Num(s[i][2])>>]
Contents ==
  {[t |-> Rows2(x), u |-> Rows2(y), k |-> Rows2(z)] :
     x \in {<<<<1, 2>>>>, <<<<1, 1>>, <<1, 2>>>>, <<<<0, 1>>, <<2, 0>>>>, <<<<2, 1>>, <<1, 2>>, <<2, 1>>>>},
     y \in {<<<<1, 1>>>>, <<<<2, 1>>, <<0, 2>>>>, <<<<1, 2>>, <<1, 0>>>>},
     z \in {<<<<2, 1>>, <<1, 0>>>>}}

Cols == {<<<<"", "a">>>>, <<<<"", "b">>>>, <<<<"", "a">>, <<"", "b">>>>, <<>>}
Elements ==
  {[kind |-> k, sets |-> s] : k \in {"rollup", "cube"},
     s \in {<<<<x>>>> : x \in {<<"", "a">>, <<"", "b">>}}
           \cup {<<<<<<"", "a">>>>, <<<<"", "b">>>>>>, <<<<<<"", "a">>>>, <<<<"", "b">>>>, <<<<"", "c">>>>>>}}
  \cup {[kind |-> "sets", sets |-> p] : p \in {p \in Cols \X Cols : p[1] # p[2]}}
  \cup {PlainBy("a"), PlainBy("d")}
Clauses == {<<x>> : x \in Elements} \cup {<<x, y>> : x, y \in Elements}

P == INSTANCE Plans WITH
  Schema <- Columns, Indexed <- Keyed, Statistics <- Stats,
  Statements <- AllQueries, Databases <- Contents, Groupings <- Clauses

AnyInit == Init \/ P!Init
AnySpec == AnyInit /\ [][Next]_input

\* The planned query has the rows, the order and the limit it asks for.
PlansAnswer == P!PlansAnswer

\* So has a query over WITH queries, subqueries, LATERAL and EXISTS.
SubqueriesAnswer == P!SubqueriesAnswer

\* ROLLUP, CUBE and GROUPING SETS become the grouping sets they stand for.
GroupingSetsExpand == P!GroupingSetsExpand

\* Set operations, joins, LIMIT with OFFSET and recursive queries give each row as
\* often as their reference definitions do.
OperatorsExact == SetOpsCount /\ JoinsComplete /\ PagesCoverAll /\ RecursionCountsWalks

\* GROUP BY splits the rows, ROLLUP and the other grouping sets add the totals their
\* definition lists, and the aggregates of the groups add up.
GroupingExact == GroupsAddUp /\ RollupAddsUp /\ GroupingSetsExpand

\* Ranks count the rows that come earlier, NTILE balances its tiles, and a frame
\* covers the rows its bounds name, at the ends of a partition too.
WindowsExact == RanksCountEarlier /\ TilesBalanced /\ FramesExact

\* A planned, optimized and executed query, with its subqueries, gives the rows the
\* query means.
QueriesAnswered == PlansAnswer /\ SubqueriesAnswer

=============================================================================
