------------------------------- MODULE Codec --------------------------------
(***************************************************************************)
(* Rows as bytes in a tuple (sql/src/codec.rs, value.rs: to_bytes and      *)
(* from_bytes) and values as keys of an index (encode_sort_key).  A value  *)
(* is [type, n] for numbers, [type, s] for text and byte strings, or       *)
(* NullCell.  Dates and timestamps are stored and sorted as int4 and int8  *)
(* are; byte strings, numerics, UUIDs, arrays and JSON as text is.  Floats *)
(* are left out.                                                           *)
(***************************************************************************)
EXTENDS Integers, Sequences, SequencesExt

CONSTANT NullBits  \* bits of the null bitmap: 32 in the code

ASSUME NullBitsAssumption == NullBits \in Nat

NullCell == [type |-> "null"]
Cell(type, n) == [type |-> type, n |-> n]
TextCell(s) == [type |-> "text", s |-> s]

Size(type) == CASE type = "bool" -> 1 [] type = "int4" -> 4 [] type = "int8" -> 8

\* to_le_bytes; the bytes above the fourth repeat the sign
LeBytes(n, size) ==
  [i \in 1..size |-> IF i <= 4 THEN (n \div 256^(i - 1)) % 256 ELSE IF n < 0 THEN 255 ELSE 0]
FromLe(bytes) ==
  LET top == Last(bytes)
  IN  FoldLeft(LAMBDA v, b : v * 256 + b, IF top > 127 THEN top - 256 ELSE top,
               Reverse(SubSeq(bytes, 1, Len(bytes) - 1)))

ToBytes(v) ==
  CASE v.type = "null" -> <<>>
    [] v.type = "text" -> LeBytes(Len(v.s), 4) \o v.s
    [] v.type = "bool" -> <<v.n>>
    [] OTHER           -> LeBytes(v.n, Size(v.type))

\* Mutant: the columns of the bitmap are counted from 1.
EncodeRowFromOne(row) ==
  [bitmap |-> {i \in 1..Len(row) : i < NullBits /\ row[i] = NullCell},
   data   |-> FlattenSeq([k \in DOMAIN row |-> ToBytes(row[k])])]

\* encode_row: columns are counted from 0, a NULL beyond the bitmap is not marked
EncodeRow(row) ==
  [bitmap |-> {i \in 0..Len(row) - 1 : i < NullBits /\ row[i + 1] = NullCell},
   data   |-> FlattenSeq([k \in DOMAIN row |-> ToBytes(row[k])])]

\* One column of decode_row: [value, length], or [fail |-> TRUE] for an error
DecodeColumn(type, data) ==
  IF type = "text"
  THEN IF Len(data) < 4 THEN [value |-> NullCell, length |-> 0, fail |-> FALSE]
       ELSE LET len == FromLe(SubSeq(data, 1, 4))
            IN  IF 4 + len > Len(data) \/ len < 0 THEN [value |-> NullCell, length |-> 0, fail |-> TRUE]
                ELSE [value |-> TextCell(SubSeq(data, 5, 4 + len)), length |-> 4 + len, fail |-> FALSE]
  ELSE IF Len(data) < Size(type) THEN [value |-> NullCell, length |-> 0, fail |-> FALSE]
       ELSE LET bytes == SubSeq(data, 1, Size(type))
            IN  [value  |-> Cell(type, IF type = "bool" THEN IF bytes[1] = 0 THEN 0 ELSE 1
                                                        ELSE FromLe(bytes)),
                 length |-> Size(type), fail |-> FALSE]

\* decode_row by the table's column types; a failed row is <<>>
DecodeRow(tuple, types) ==
  LET step(st, i) ==
        IF i - 1 < NullBits /\ i - 1 \in tuple.bitmap
        THEN [st EXCEPT !.row = Append(@, NullCell)]
        ELSE LET c == DecodeColumn(types[i], SubSeq(tuple.data, st.offset + 1, Len(tuple.data)))
             IN  [row |-> Append(st.row, c.value), offset |-> st.offset + c.length, fail |-> st.fail \/ c.fail]
      end == FoldLeft(step, [row |-> <<>>, offset |-> 0, fail |-> FALSE], [i \in DOMAIN types |-> i])
  IN  IF end.fail THEN <<>> ELSE end.row

-----------------------------------------------------------------------------
\* encode_sort_key: the type, then big-endian with the sign bit turned
Tag(type) == CASE type = "null" -> 0 [] type = "bool" -> 1 [] type = "int4" -> 2
               [] type = "int8" -> 3 [] type = "text" -> 5
\* Mutant: the sign bit is left as it is.
SignLeft(bytes) == bytes

SignTurned(bytes) == [bytes EXCEPT ![1] = (@ + 128) % 256]
EncodeSortKey(v) ==
  <<Tag(v.type)>> \o
  (CASE v.type = "null" -> <<>>
     [] v.type = "bool" -> <<v.n>>
     [] v.type = "text" -> v.s
     [] OTHER           -> SignTurned(Reverse(LeBytes(v.n, Size(v.type)))))

\* Vec<u8>'s order, which the tree uses
KeyLess(a, b) ==
  \E k \in 1..Len(b) :
    /\ SubSeq(a, 1, k - 1) = SubSeq(b, 1, k - 1)
    /\ Len(a) < k \/ a[k] < b[k]
=============================================================================
