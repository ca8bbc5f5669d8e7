------------------------------- MODULE Texts --------------------------------
(***************************************************************************)
(* Text: the string functions and LIKE of sql/src/executor.rs, splitting a *)
(* script into statements (engine.rs), putting parameters into a statement *)
(* (network/src/handler.rs) and the rewriting of TRIM (parser.rs).  A text *)
(* is a list of characters; a character is the list of its UTF-8 bytes, so *)
(* that code which works on bytes and code which works on characters are   *)
(* told apart.                                                             *)
(***************************************************************************)
EXTENDS Integers, Sequences, SequencesExt

Least(a, b) == IF a < b THEN a ELSE b
Most(a, b) == IF a < b THEN b ELSE a

Occurs(s, part, i) ==
  i + Len(part) - 1 <= Len(s) /\ SubSeq(s, i, i + Len(part) - 1) = part

\* The first place of part in s, 0 if none
Find(s, part) ==
  SelectInSeq([i \in 1..Len(s) + 1 |-> Occurs(s, part, i)], LAMBDA here : here)

\* str::split by a text that is not empty
Split(s, sep) ==
  LET step(st, i) ==
        CASE st.skip > 0        -> [st EXCEPT !.skip = @ - 1]
          [] Occurs(s, sep, i)  -> [parts |-> Append(st.parts, st.cur), cur |-> <<>>, skip |-> Len(sep) - 1]
          [] OTHER              -> [st EXCEPT !.cur = Append(@, s[i])]
      end == FoldLeft(step, [parts |-> <<>>, cur |-> <<>>, skip |-> 0], [i \in DOMAIN s |-> i])
  IN  Append(end.parts, end.cur)

Join(parts, sep) ==
  IF parts = <<>> THEN <<>>
  ELSE FoldLeft(LAMBDA acc, p : acc \o sep \o p, parts[1], Tail(parts))

Replace(s, from, to) == Join(Split(s, from), to)

-----------------------------------------------------------------------------
(* eval_function on text *)

TrimStart(s, chars) ==
  LET k == SelectInSeq(s, LAMBDA c : c \notin chars)
  IN  IF k = 0 THEN <<>> ELSE SubSeq(s, k, Len(s))
TrimEnd(s, chars) ==
  LET k == SelectLastInSeq(s, LAMBDA c : c \notin chars) IN SubSeq(s, 1, k)
Trim(s, chars) == TrimEnd(TrimStart(s, chars), chars)

Substring(s, from, len) ==
  LET start == Least(Most(from - 1, 0), Len(s))
  IN  SubSeq(s, start + 1, Least(start + Most(len, 0), Len(s)))

SplitPart(s, sep, n) ==
  LET parts == Split(s, sep) IN IF n \in DOMAIN parts THEN parts[n] ELSE <<>>

Left(s, n) ==
  IF n >= 0 THEN SubSeq(s, 1, Least(n, Len(s)))
  ELSE SubSeq(s, 1, Len(s) - Least(-n, Len(s)))
\* Mutant: a negative count is taken from the end.
RightFromEnd(s, n) ==
  LET len == IF n >= 0 THEN n ELSE -n IN SubSeq(s, Most(Len(s) - len, 0) + 1, Len(s))

Right(s, n) ==
  IF n >= 0 THEN SubSeq(s, Most(Len(s) - n, 0) + 1, Len(s))
  ELSE SubSeq(s, Least(-n, Len(s)) + 1, Len(s))

\* The fill is repeated; an empty one gives nothing
Fill(fill, n) ==
  IF fill = <<>> THEN <<>> ELSE [k \in 1..n |-> fill[((k - 1) % Len(fill)) + 1]]
Lpad(s, n, fill) ==
  LET len == Most(n, 0)
  IN  IF Len(s) >= len THEN SubSeq(s, 1, len) ELSE Fill(fill, len - Len(s)) \o s
Rpad(s, n, fill) ==
  LET len == Most(n, 0)
  IN  IF Len(s) >= len THEN SubSeq(s, 1, len) ELSE s \o Fill(fill, len - Len(s))

\* like_match on bytes; % and _ are wildcards
Percent == <<37>>
Underscore == <<95>>
Bytes(s) == FlattenSeq(s)
\* Mutant: % stands for one byte at least.
LikeMatchSome(text, pattern) ==
  LET t == Bytes(text)
      p == Bytes(pattern)
      m[i \in 1..Len(t) + 1, j \in 1..Len(p) + 1] ==
        CASE j > Len(p)    -> i > Len(t)
          [] p[j] = Percent[1] -> \E k \in i + 1..Len(t) + 1 : m[k, j + 1]
          [] p[j] = Underscore[1] -> i <= Len(t) /\ m[i + 1, j + 1]
          [] OTHER         -> i <= Len(t) /\ t[i] = p[j] /\ m[i + 1, j + 1]
  IN  m[1, 1]

LikeMatch(text, pattern) ==
  LET t == Bytes(text)
      p == Bytes(pattern)
      m[i \in 1..Len(t) + 1, j \in 1..Len(p) + 1] ==
        CASE j > Len(p)    -> i > Len(t)
          [] p[j] = Percent[1] -> \E k \in i..Len(t) + 1 : m[k, j + 1]
          [] p[j] = Underscore[1] -> i <= Len(t) /\ m[i + 1, j + 1]
          [] OTHER         -> i <= Len(t) /\ t[i] = p[j] /\ m[i + 1, j + 1]
  IN  m[1, 1]

-----------------------------------------------------------------------------
(* Scripts and parameters *)

Quote == <<39>>
Semicolon == <<59>>
Dash == <<45>>
Newline == <<10>>
Blank == <<32>>
Dollar == <<36>>
Comma == <<44>>
Spaces == {Blank, Newline}

\* Mutant: a semicolon in quotes ends the statement too.
StatementEndsAnywhere(c, quote) == c = Semicolon

StatementEnds(c, quote) == c = Semicolon /\ ~quote

\* split_sql_statements
SplitStatements(sql) ==
  LET close(st) == LET t == Trim(st.cur, Spaces)
                   IN  IF t = <<>> THEN st.stmts ELSE Append(st.stmts, t)
      step(st, i) ==
        CASE st.comment -> [st EXCEPT !.comment = sql[i] # Newline]
          [] ~st.comment /\ ~st.quote /\ Occurs(sql, <<Dash, Dash>>, i) -> [st EXCEPT !.comment = TRUE]
          [] ~st.comment /\ StatementEnds(sql[i], st.quote) -> [st EXCEPT !.stmts = close(st), !.cur = <<>>]
          [] OTHER -> [st EXCEPT !.quote = (@ # (sql[i] = Quote)), !.cur = Append(@, sql[i])]
  IN  close(FoldLeft(step, [stmts |-> <<>>, cur |-> <<>>, quote |-> FALSE, comment |-> FALSE],
                     [i \in DOMAIN sql |-> i]))

\* value_to_sql_literal of a text
Literal(s) == <<Quote>> \o Replace(s, <<Quote>>, <<Quote, Quote>>) \o <<Quote>>

Digit(d) == <<48 + d>>
Placeholder(i) == IF i < 10 THEN <<Dollar, Digit(i)>> ELSE <<Dollar, Digit(i \div 10), Digit(i % 10)>>

\* A parameter's value: a text that is UTF-8, or none
NoParam == <<<<>>>>
NullWord == <<<<78>>, <<85>>, <<76>>, <<76>>>>
ParamLiteral(p) == IF p = NoParam THEN NullWord ELSE Literal(p)

\* Mutant: only the first occurrence of a placeholder is replaced.
SubstituteFirst(sql, params) ==
  LET put(text, i) ==
        LET k == Find(text, Placeholder(i))
        IN  IF k = 0 THEN text
            ELSE SubSeq(text, 1, k - 1) \o ParamLiteral(params[i])
                   \o SubSeq(text, k + Len(Placeholder(i)), Len(text))
  IN  FoldLeft(put, sql, [i \in DOMAIN params |-> i])

\* substitute_params: one parameter after the other
SubstituteParams(sql, params) ==
  FoldLeft(LAMBDA text, i : Replace(text, Placeholder(i), ParamLiteral(params[i])),
           sql, [i \in DOMAIN params |-> i])
=============================================================================
