--------------------------- MODULE CanonicalState ---------------------------
(***************************************************************************)
(* The state of a judgment, from a DuckDB value to canonical bytes:        *)
(* read_state of src/functions/mod.rs and judgment-core/serialize.rs.      *)
(* Bytes are sequences of tokens, a token being a string no longer than    *)
(* the structure needs; a VARCHAR holds any sequence of them, those of an  *)
(* encoded STRUCT included.  A column is [name, type, scale], its scale    *)
(* for DECIMAL only; a cell is Null or a value of its column's type.       *)
(***************************************************************************)
EXTENDS Integers, Sequences, SequencesExt

CONSTANTS
  Null,       \* SQL NULL
  NameOrder   \* the field names of the model, sorted as their bytes are

-----------------------------------------------------------------------------
(* Numbers as text.                                                        *)

DigitChars == <<"0", "1", "2", "3", "4", "5", "6", "7", "8", "9">>

\* The decimal digits of a natural number.
Digits[n \in Nat] ==
  IF n < 10 THEN <<DigitChars[n + 1]>>
  ELSE Digits[n \div 10] \o <<DigitChars[(n % 10) + 1]>>

Magnitude(i) == IF i < 0 THEN -i ELSE i

Sign(i) == IF i < 0 THEN <<"-">> ELSE << >>

IntText(i) == Sign(i) \o Digits[Magnitude(i)]

Zeros(n) == [k \in 1..n |-> "0"]

\* format_decimal: the exact text of raw / 10^scale.
FormatDecimal(raw, scale) ==
  LET digits == Digits[Magnitude(raw)]
      split == Len(digits) - scale
  IN  IF scale = 0 THEN IntText(raw)
      ELSE IF split <= 0
           THEN Sign(raw) \o <<"0", ".">> \o Zeros(-split) \o digits
           ELSE Sign(raw) \o SubSeq(digits, 1, split) \o <<".">>
                  \o SubSeq(digits, split + 1, Len(digits))

-----------------------------------------------------------------------------
(* Reading a cell.  A typed value is [t, v], v its text; a structure is    *)
(* [t, f], f mapping its field names to typed values.                      *)

\* Every signed width is read as an Int, every unsigned one as a UInt.
TypeTag ==
  [BOOLEAN |-> "bool", INTEGER |-> "int", UINTEGER |-> "uint",
   DOUBLE |-> "float", VARCHAR |-> "text", DECIMAL |-> "decimal",
   HUGEINT |-> "int128", UHUGEINT |-> "uint128", SQLNULL |-> "null"]

Supported(col) == col.type \in DOMAIN TypeTag

CellText(col, cell) ==
  CASE col.type = "DECIMAL" -> FormatDecimal(cell, col.scale)
    [] col.type \in {"INTEGER", "UINTEGER", "HUGEINT", "UHUGEINT"} ->
         IntText(cell)
    [] col.type \in {"BOOLEAN", "DOUBLE"} -> <<cell>>
    [] col.type = "VARCHAR" -> cell

\* read_value; a NULL field stays, as a null.
TypedCell(col, cell) ==
  IF cell = Null THEN [t |-> "null", v |-> << >>]
  ELSE [t |-> TypeTag[col.type], v |-> CellText(col, cell)]

\* read_struct puts the fields into a map, each over its namesake.
TypedStruct(cols, cells) ==
  LET last(name) == CHOOSE k \in DOMAIN cols :
                      /\ cols[k].name = name
                      /\ \A j \in DOMAIN cols : cols[j].name = name => j <= k
  IN  [t |-> "struct",
       f |-> [name \in {cols[k].name : k \in DOMAIN cols} |->
                TypedCell(cols[last(name)], cells[last(name)])]]

\* A DOUBLE cell is the shortest text that reads back as it.
Finite(col, cell) == col.type = "DOUBLE" => cell \notin {"NaN", "inf"}

-----------------------------------------------------------------------------
(* Canonical bytes.                                                        *)

\* A JSON string: quotes inside the text are escaped.
Quoted(text) ==
  LET escape(t) == IF t \in {"'", "\\"} THEN <<"\\", t>> ELSE <<t>>
  IN  <<"'">> \o FlattenSeq([k \in DOMAIN text |-> escape(text[k])])
        \o <<"'">>

\* write_value of a field.
Encode(value) ==
  LET payload == IF value.t \in {"text", "decimal"} THEN Quoted(value.v)
                 ELSE value.v
  IN  <<"{", value.t, ":">> \o payload \o <<"}">>

\* write_value of a structure: its fields in the order of their names.
EncodeFields(fields) ==
  LET names == SelectSeq(NameOrder, LAMBDA name : name \in DOMAIN fields)
      field(k) == (IF k > 1 THEN <<",">> ELSE << >>)
                    \o Quoted(<<names[k]>>) \o <<":">>
                    \o Encode(fields[names[k]])
  IN  <<"{", "struct", ":">> \o FlattenSeq([k \in DOMAIN names |-> field(k)])
        \o <<"}">>

\* encode_text: the bytes of a VARCHAR are its own.
EncodeText(text) ==
  [kind |-> "Text", canonical |-> text, value |-> [t |-> "text", v |-> text]]

EncodeStruct(value) ==
  [kind |-> "Struct", canonical |-> EncodeFields(value.f), value |-> value]

-----------------------------------------------------------------------------
(* read_state.  A layout is [type, cols].                                  *)

Readable(layout, state) ==
  \/ layout.type = "VARCHAR"
  \/ /\ layout.type = "STRUCT"
     /\ \A k \in DOMAIN layout.cols :
          /\ Supported(layout.cols[k])
          /\ Finite(layout.cols[k], state[k])

ReadState(layout, state) ==
  IF layout.type = "VARCHAR" THEN EncodeText(state)
  ELSE EncodeStruct(TypedStruct(layout.cols, state))

-----------------------------------------------------------------------------
(* What a typed value says of the DuckDB value it was read from.           *)

\* A decimal text as a pair: its digits as one number, and how many of them
\* follow the point, before which there is at least one.
DecimalValue(text) ==
  LET minus == text[1] = "-"
      body == IF minus THEN Tail(text) ELSE text
      digit(t) == CHOOSE d \in 0..9 : DigitChars[d + 1] = t
      append(n, t) == IF t = "." THEN n ELSE 10 * n + digit(t)
      number == FoldLeft(append, 0, body)
      points == {k \in DOMAIN body : body[k] = "."}
  IN  [raw |-> IF minus THEN -number ELSE number,
       scale |-> IF points = {} THEN 0
                 ELSE Len(body) - (CHOOSE k \in points : k > 1)]

SaysCell(value, col, cell) ==
  IF cell = Null THEN value.t = "null"
  ELSE /\ value.t = TypeTag[col.type]
       /\ CASE col.type = "DECIMAL" ->
                 DecimalValue(value.v) = [raw |-> cell, scale |-> col.scale]
            [] col.type \in {"INTEGER", "UINTEGER", "HUGEINT", "UHUGEINT"} ->
                 DecimalValue(value.v) = [raw |-> cell, scale |-> 0]
            [] col.type \in {"BOOLEAN", "DOUBLE"} -> value.v = <<cell>>
            [] OTHER -> value.v = cell

\* Every field of the row is there, with its type and its value.
SaysState(value, layout, state) ==
  IF layout.type = "VARCHAR" THEN value = [t |-> "text", v |-> state]
  ELSE /\ value.t = "struct"
       /\ \A k \in DOMAIN layout.cols :
            SaysCell(value.f[layout.cols[k].name], layout.cols[k], state[k])
=============================================================================
