------------------------------ MODULE Scalars -------------------------------
(***************************************************************************)
(* What the functions on single values and single rows promise, against    *)
(* reference definitions, for every small input.  Init chooses an input of *)
(* one kind and nothing changes it.                                        *)
(***************************************************************************)
EXTENDS Dates, Expressions, Codec, Texts

CONSTANTS
  Days,      \* days whose successor is looked at
  Instants,  \* timestamps, in seconds
  Cells,     \* stored values: NULL and some of each type
  Letters,   \* characters of texts, patterns and scripts
  MaxRow,    \* bound: columns of a row
  MaxText,   \* bound: characters of a text
  ParamTexts, \* texts of the parameters of a statement
  MaxParams,  \* bound: parameters of a statement
  MaxPieces   \* bound: placeholders of a statement

VARIABLE input

Integers4 == -(2^(Int4Bits - 1))..(2^(Int4Bits - 1) - 1)
Integers8 == -(2^(Int8Bits - 1))..(2^(Int8Bits - 1) - 1)
Operands == {NullValue, Bool(TRUE), Bool(FALSE)} \cup {<<"int4", n>> : n \in Integers4}
              \cup {<<"int8", n>> : n \in Integers8}
Texts == BoundedSeq(Letters, MaxText)

Init ==
  \/ \E d \in Days : input = [of |-> "day", day |-> d]
  \/ \E t \in Instants : input = [of |-> "instant", ts |-> t]
  \/ \E l \in Operands, r \in Operands : input = [of |-> "operands", l |-> l, r |-> r]
  \/ \E start \in Integers8, stop \in Integers8, step \in Integers8 \ {0} :
       input = [of |-> "series", start |-> start, stop |-> stop, step |-> step]
  \/ \E row \in BoundedSeq(Cells, MaxRow) : input = [of |-> "row", row |-> row]
  \/ \E s \in Texts, p \in Texts : input = [of |-> "texts", s |-> s, p |-> p]
  \/ \E pieces \in BoundedSeq(1..MaxParams, MaxPieces), params \in [1..MaxParams -> ParamTexts] :
       input = [of |-> "statement", pieces |-> pieces, params |-> params]

Next == UNCHANGED input

Spec == Init /\ [][Next]_input

-----------------------------------------------------------------------------
(* Dates *)

LeapYear(y) == y % 4 = 0 /\ (y % 100 # 0 \/ y % 400 = 0)
MonthLength(y, m) ==
  CASE m = 2 -> IF LeapYear(y) THEN 29 ELSE 28
    [] m \in {4, 6, 9, 11} -> 30
    [] OTHER -> 31
NextDay(x) ==
  CASE x.d < MonthLength(x.y, x.m) -> [x EXCEPT !.d = @ + 1]
    [] x.d = MonthLength(x.y, x.m) /\ x.m < 12 -> [y |-> x.y, m |-> x.m + 1, d |-> 1]
    [] OTHER -> [y |-> x.y + 1, m |-> 1, d |-> 1]

\* ymd_from_days walks the Gregorian calendar day by day, across leap days,
\* centuries, the year 0 and 1970, and parse_date_str takes back what
\* format_date writes (value.rs:600-623).
CalendarAdvances ==
  input.of = "day" =>
    LET x == YmdFromDays(input.day)
    IN  /\ YmdFromDays(input.day + 1) = NextDay(x)
        /\ ParseDate(x.y, x.m, x.d) = input.day

TruncFields == <<"second", "minute", "hour", "day", "month", "quarter", "year", "decade">>

\* date_trunc goes down to the start of the unit and stays there, truncating to
\* a finer unit first makes no difference, a week starts on its own Monday, and
\* the start of a unit has the unit's number in extract; and a timestamp reads
\* back as it was written.
TruncatesDown ==
  input.of = "instant" =>
    LET t == input.ts
    IN  /\ ParseTimestamp(Fields(t)) = t
        /\ \A k \in DOMAIN TruncFields :
             LET cut == DateTrunc(TruncFields[k], t)
             IN  /\ cut <= t
                 /\ DateTrunc(TruncFields[k], cut) = cut
                 /\ \A j \in 1..k : DateTrunc(TruncFields[k], DateTrunc(TruncFields[j], t)) = cut
        /\ LET monday == DateTrunc("week", t)
           IN  /\ ExtractField("dow", monday) = 1
               /\ monday <= t /\ t < monday + 7 * DAY
        /\ \A field \in {"quarter", "decade"} \cup {c \in {"century"} : Fields(t).y > 2000} :
             ExtractField(field, DateTrunc(field, t)) = ExtractField(field, t)
        /\ ExtractField("doy", t) - 1 = Quot(t - DateTrunc("year", t), DAY)

-----------------------------------------------------------------------------
(* Expressions *)

\* Arithmetic on integers gives the exact number when it fits the wider of the
\* two types and an error when it does not: no operator wraps (the remainder
\* of the least number by -1 excepted, which panics); and the quotient and the
\* remainder belong together.
ArithmeticExact ==
  (input.of = "operands" /\ {input.l[1], input.r[1]} \subseteq {"int4", "int8"}) =>
    LET l == input.l
        r == input.r
        q == EvalBinaryOp("/", l, r)
        m == EvalBinaryOp("%", l, r)
        sound(res, n) == res = IF InRange(Promoted(l, r), n) THEN <<Promoted(l, r), n>> ELSE Error
    IN  /\ sound(EvalBinaryOp("+", l, r), l[2] + r[2])
        /\ sound(EvalBinaryOp("-", l, r), l[2] - r[2])
        /\ sound(EvalBinaryOp("*", l, r), l[2] * r[2])
        /\ (r[2] = 0) = (q = Error /\ m = Error)
        /\ q # Error => q[2] * r[2] + m[2] = l[2]

\* NULL is "unknown" throughout: the connectives obey De Morgan's laws and
\* absorption (a FALSE decides AND whatever the other operand is), a
\* comparison and its opposite are negations of each other (eval_binary_op), IN
\* over one row that is not NULL is =, and the short forms NULLIF and COALESCE
\* are the CASE expressions they stand for.
ThreeValued ==
  input.of = "operands" =>
    LET l == input.l
        r == input.r
        logical == {l[1], r[1]} \subseteq {"null", "bool"}
        opposite == [op \in {"=", "<", ">"} |-> CASE op = "=" -> "<>" [] op = "<" -> ">=" [] op = ">" -> "<="]
    IN  /\ logical => Not(EvalBinaryOp("and", l, r)) = EvalBinaryOp("or", Not(l), Not(r))
        /\ logical => Not(EvalBinaryOp("or", l, r)) = EvalBinaryOp("and", Not(l), Not(r))
        /\ logical => EvalBinaryOp("and", l, EvalBinaryOp("or", l, r)) = l
        /\ (l[1] = "bool") = (r[1] = "bool") =>
             \A op \in DOMAIN opposite :
               Not(EvalBinaryOp(op, l, r)) = EvalBinaryOp(opposite[op], l, r)
        /\ ~IsNull(r) => InSubquery(l, <<r>>, FALSE) = EvalBinaryOp("=", l, r)
        /\ NullIf(l, r) = SearchedCase(<<<<EvalBinaryOp("=", l, r), NullValue>>>>, l)
        /\ NullIf(l, r) = SimpleCase(l, <<<<r, NullValue>>>>, l)
        /\ Coalesce(<<l, r>>) = SearchedCase(<<<<IsDistinctFrom(l, NullValue), l>>>>, r)

\* Every row of generate_series lies between its bounds, one step after the row
\* before, and it stops before the next step passes the bound; unless that step
\* passes the end of the 64-bit range (executor.rs:4706-4746).
SeriesEnds ==
  input.of = "series" =>
    LET i == input
        out == GenerateSeries(i.start, i.stop, i.step, 2^Int8Bits + 1)
        n == IF i.step > 0 THEN IF i.start > i.stop THEN 0 ELSE ((i.stop - i.start) \div i.step) + 1
                           ELSE IF i.start < i.stop THEN 0 ELSE ((i.start - i.stop) \div (-i.step)) + 1
    IN  InRange("int8", i.stop + i.step) =>
          out = [k \in 1..n |-> Int8(i.start + (k - 1) * i.step)]

\* generate_series ends for every start, stop and step
SeriesAlwaysEnds ==
  input.of = "series" =>
    Len(GenerateSeries(input.start, input.stop, input.step, 2^Int8Bits + 1)) <= 2^Int8Bits

-----------------------------------------------------------------------------
(* Rows *)

TypeOfCell(c) == IF c.type = "null" THEN "int4" ELSE c.type

\* A row is read as it was written, also by a schema with further columns, which
\* are NULL: as long as its NULLs are within the bitmap (codec.rs:8-173).
RowsReadBack ==
  input.of = "row" =>
    LET row == input.row
        types == [k \in DOMAIN row |-> TypeOfCell(row[k])]
        nulls == {k \in DOMAIN row : row[k] = NullCell}
    IN  (\A k \in nulls : k <= NullBits) =>
          \A added \in {"bool", "int4", "int8", "text"} :
            /\ DecodeRow(EncodeRow(row), types) = row
            /\ DecodeRow(EncodeRow(row), Append(types, added)) = Append(row, NullCell)

\* Every row is read as it was written
WideRowsReadBack ==
  input.of = "row" =>
    DecodeRow(EncodeRow(input.row), [k \in DOMAIN input.row |-> TypeOfCell(input.row[k])]) = input.row

\* The bytes of index keys are in the order of the values, and equal only for
\* equal values; NULL is below all (codec.rs:176-252).
KeysInOrder ==
  (input.of = "row" /\ Len(input.row) = 2) =>
    LET v == input.row[1]
        w == input.row[2]
        a == EncodeSortKey(v)
        b == EncodeSortKey(w)
    IN  /\ (a = b) = (v = w)
        /\ v.type = w.type => (KeyLess(a, b) = CASE v.type = "null" -> FALSE
                                                 [] v.type = "text" -> KeyLess(v.s, w.s)
                                                 [] OTHER -> v.n < w.n)
        /\ (v = NullCell /\ w # NullCell) => KeyLess(a, b)

-----------------------------------------------------------------------------
(* Texts *)

\* A pattern matches when its parts between the % signs can be found one after
\* the other, the first at the start and the last at the end
LikeReference(s, p) ==
  LET parts == Split(p, <<Percent>>)
      fits(part, i) == /\ i + Len(part) - 1 <= Len(s)
                       /\ \A k \in DOMAIN part : part[k] \in {Underscore, s[i + k - 1]}
  IN  \E at \in [DOMAIN parts -> 1..Len(s) + 1] :
        /\ at[1] = 1
        /\ \A k \in DOMAIN parts : fits(parts[k], at[k])
        /\ \A k \in 1..Len(parts) - 1 : at[k] + Len(parts[k]) <= at[k + 1]
        /\ at[Len(parts)] + Len(parts[Len(parts)]) = Len(s) + 1

Ascii(s) == \A k \in DOMAIN s : Len(s[k]) = 1

\* LIKE finds the parts of the pattern in order; for texts of one-byte
\* characters (executor.rs:6296-6321).
LikeFindsParts ==
  (input.of = "texts" /\ Ascii(input.s)) =>
    LikeMatch(input.s, input.p) = LikeReference(input.s, input.p)

\* "_ matches one char"
LikeCountsCharacters ==
  input.of = "texts" => LikeMatch(input.s, input.p) = LikeReference(input.s, input.p)

\* A text cut with left and right, for a positive or a negative count, falls
\* into two pieces that make it up; a padded text has the length asked for; a
\* text split by a separator can be joined again, and strpos finds the first
\* part's end.
PiecesMakeText ==
  input.of = "texts" =>
    LET s == input.s
        p == input.p
    IN  /\ \A n \in 1..MaxText + 1 :
             /\ Left(s, n) \o Right(s, -n) = s
             /\ Left(s, -n) \o Right(s, n) = s
             /\ Left(s, n) = Substring(s, 1, n)
             /\ p # <<>> => Len(Lpad(s, n, p)) = n /\ Len(Rpad(s, n, p)) = n
        /\ p # <<>> =>
             /\ Join(Split(s, p), p) = s
             /\ \A k \in DOMAIN Split(s, p) : Find(SplitPart(s, p, k), p) = 0
             /\ Find(s, p) = IF Len(Split(s, p)) = 1 THEN 0 ELSE Len(SplitPart(s, p, 1)) + 1

\* A text without an open quote or a comment mark, as a statement of a script
Simple(s) ==
  /\ Trim(s, Spaces) = s /\ s # <<>>
  /\ Cardinality({k \in DOMAIN s : s[k] = Quote}) % 2 = 0
  /\ Find(s, <<Dash, Dash>>) = 0
  /\ \A k \in DOMAIN s : s[k] = Semicolon => Cardinality({j \in 1..k : s[j] = Quote}) % 2 = 1

\* A script falls into the statements it was put together from, with their
\* quoted semicolons, whether or not comments with quotes stand between them
\* (engine.rs:786-823).
ScriptsSplit ==
  (input.of = "texts" /\ Simple(input.s) /\ Simple(input.p)) =>
    LET comment == <<Dash, Dash, Quote, Newline>>
        both == <<input.s, input.p>>
    IN  /\ SplitStatements(input.s \o <<Semicolon>> \o input.p) = both
        /\ SplitStatements(comment \o input.s \o <<Semicolon, Blank>> \o comment \o input.p \o <<Semicolon>>) = both
        /\ SplitStatements(Literal(input.s) \o <<Semicolon>> \o Literal(input.p)) = <<Literal(input.s), Literal(input.p)>>

\* A statement with a comma between its placeholders, and with the parameters in
\* their places
Statement(text(_)) ==
  Join([k \in DOMAIN input.pieces |-> text(input.pieces[k])], <<Comma>>)

\* Every placeholder gets its own parameter's literal, wherever and however often
\* it stands; as long as no parameter has a $ and there are fewer than ten
\* (handler.rs:321-340).
ParamsInPlace ==
  (input.of = "statement" /\ MaxParams < 10 /\ \A k \in DOMAIN input.params : Find(input.params[k], <<Dollar>>) = 0) =>
    SubstituteParams(Statement(Placeholder), input.params)
      = Statement(LAMBDA k : ParamLiteral(input.params[k]))

\* Every placeholder gets its own parameter's literal
ParamsAlwaysInPlace ==
  input.of = "statement" =>
    SubstituteParams(Statement(Placeholder), input.params)
      = Statement(LAMBDA k : ParamLiteral(input.params[k]))
=============================================================================
