---------------------------- MODULE Expressions -----------------------------
(***************************************************************************)
(* Evaluation of expressions (sql/src/executor.rs: eval_expr,              *)
(* eval_binary_op, checked_numeric_op and the functions on numbers; casts  *)
(* of value.rs) on NULL, Booleans and the two widths of integers.  A       *)
(* failed evaluation is the value Error, and an arithmetic overflow that   *)
(* the code does not check is the wrapped number.                          *)
(***************************************************************************)
EXTENDS Relations

CONSTANTS
  Int4Bits,  \* 32 in the code
  Int8Bits   \* 64 in the code

ASSUME WidthAssumption == Int4Bits \in Nat \ {0} /\ Int8Bits \in Nat \ {0}

Error == <<"error", 0>>
Panic == <<"panic", 0>>  \* the thread of the statement panics
Bool(b) == <<"bool", IF b THEN 1 ELSE 0>>
Width(type) == IF type = "int4" THEN Int4Bits ELSE Int8Bits
InRange(type, n) == n \in -(2^(Width(type) - 1))..(2^(Width(type) - 1) - 1)
Wrap(type, n) ==
  LET m == 2^(Width(type) - 1) IN <<type, ((n + m) % (2 * m)) - m>>

TruncDiv(a, b) ==
  LET abs(n) == IF n < 0 THEN -n ELSE n
  IN  IF (a < 0) = (b < 0) THEN abs(a) \div abs(b) ELSE -(abs(a) \div abs(b))
TruncRem(a, b) == a - b * TruncDiv(a, b)

\* checked_numeric_op on integers: mixed widths are promoted
Promoted(l, r) == IF l[1] = "int4" /\ r[1] = "int4" THEN "int4" ELSE "int8"
\* Mutant: the result wraps.
WrappingOp(l, r, n) == Wrap(Promoted(l, r), n)

CheckedOp(l, r, n) ==
  IF {l[1], r[1]} \subseteq {"int4", "int8"} /\ InRange(Promoted(l, r), n)
  THEN <<Promoted(l, r), n>> ELSE Error

\* Mutant: a NULL operand makes the result NULL.
LogicStrict(op, l, r) ==
  IF IsNull(l) \/ IsNull(r) THEN NullValue
  ELSE IF Bool(op = "or") \in {l, r} THEN Bool(op = "or") ELSE l

Logic(op, l, r) ==
  LET decides == Bool(op = "or")
  IN  CASE IsNull(l) -> IF r = decides THEN r ELSE NullValue
        [] IsNull(r) -> IF l = decides THEN l ELSE NullValue
        [] l[1] = "bool" /\ r[1] = "bool" -> IF decides \in {l, r} THEN decides ELSE l
        [] OTHER -> Error

EvalBinaryOp(op, l, r) ==
  IF op \in {"and", "or"} THEN Logic(op, l, r)
  ELSE IF IsNull(l) \/ IsNull(r) THEN NullValue
  ELSE CASE op = "="  -> Bool(Equal(l, r))
         [] op = "<>" -> Bool(~Equal(l, r))
         [] op = "<"  -> Bool(Less(l, r))
         [] op = "<=" -> Bool(Less(l, r) \/ Equal(l, r))
         [] op = ">"  -> Bool(Less(r, l))
         [] op = ">=" -> Bool(Less(r, l) \/ Equal(l, r))
         [] op = "+"  -> CheckedOp(l, r, l[2] + r[2])
         [] op = "-"  -> CheckedOp(l, r, l[2] - r[2])
         [] op = "*"  -> CheckedOp(l, r, l[2] * r[2])
         [] op = "/"  -> IF r[2] = 0 THEN Error ELSE CheckedOp(l, r, TruncDiv(l[2], r[2]))
         [] op = "%"  -> CASE r[2] = 0 \/ ~({l[1], r[1]} \subseteq {"int4", "int8"}) -> Error
                           [] r[2] = -1 /\ ~InRange(Promoted(l, r), -l[2]) -> Panic
                           [] OTHER -> <<Promoted(l, r), TruncRem(l[2], r[2])>>

\* Unary operators; negating the least number overflows unchecked
Not(v) == CASE v[1] = "bool" -> Bool(v[2] = 0) [] IsNull(v) -> NullValue [] OTHER -> Error
Neg(v) == IF v[1] \in {"int4", "int8"} THEN Wrap(v[1], -v[2])
          ELSE IF IsNull(v) THEN NullValue ELSE Error

IsDistinctFrom(l, r) == Bool(IF IsNull(l) \/ IsNull(r) THEN IsNull(l) # IsNull(r) ELSE l # r)

\* IN over the rows of a subquery compares with partial_cmp
InSubquery(v, list, negated) ==
  IF IsNull(v) THEN NullValue
  ELSE Bool((\E k \in DOMAIN list : Equal(list[k], v)) # negated)

\* CASE with an operand, COALESCE and NULLIF
SimpleCase(v, whens, else) ==
  LET k == SelectInSeq(whens, LAMBDA w : Matches(v, w[1]))
  IN  IF k = 0 THEN else ELSE whens[k][2]
SearchedCase(whens, else) ==
  LET k == SelectInSeq(whens, LAMBDA w : w[1] = Bool(TRUE))
  IN  IF k = 0 THEN else ELSE whens[k][2]
Coalesce(args) ==
  LET k == SelectInSeq(args, LAMBDA v : ~IsNull(v))
  IN  IF k = 0 THEN NullValue ELSE args[k]
NullIf(v, w) == IF Matches(v, w) THEN NullValue ELSE v

\* The function mod() divides
ModFunction(l, r) == EvalBinaryOp("/", l, r)

\* cast_to between the widths: as i32 keeps the low bits
CastTo(v, type) ==
  CASE IsNull(v)        -> NullValue
    [] v[1] = type      -> v
    [] type = "int8" /\ v[1] = "int4" -> <<"int8", v[2]>>
    [] type = "int4" /\ v[1] = "int8" -> Wrap("int4", v[2])
    [] type = "int4" /\ v[1] = "bool" -> <<"int4", v[2]>>
    [] OTHER            -> Error

-----------------------------------------------------------------------------
\* Mutant: a series down is tested like a series up.
SeriesGoesUp(i, stop, step) == i <= stop

SeriesGoes(i, stop, step) == IF step > 0 THEN i <= stop ELSE i >= stop

\* exec_generate_series, at most rows rows: the addition is not checked
GenerateSeries(start, stop, step, rows) ==
  LET series[n \in 0..rows] ==
        IF n = 0 THEN [out |-> <<>>, i |-> start]
        ELSE LET p == series[n - 1]
             IN  IF SeriesGoes(p.i, stop, step)
                 THEN [out |-> Append(p.out, Int8(p.i)), i |-> Wrap("int8", p.i + step)[2]]
                 ELSE p
  IN  IF step = 0 THEN Error ELSE series[rows].out
=============================================================================
