------------------------------- MODULE Mapper -------------------------------
(***************************************************************************)
(* The generated conversions between a message and a row, for one column     *)
(* (emit_mapper.go: writeModelFromProto, writeProtoFromModel and what they     *)
(* call), and what a table takes (emit_sql.go: renderCreateTable).            *)
(*                                                                         *)
(* The Go value of a field is <<>> if it is nil, else <<x>>; a cell is <<>> if *)
(* it is NULL, else <<y>>.  A list or a map x is a function.  The zero value   *)
(* of a type is 0, except that of messages, {}.                               *)
(*                                                                         *)
(* Programs are generated for a release of the schema.  Release r knows the     *)
(* numbers 0..r of the enum, the variants 1..r of the oneof and the fields 1..r  *)
(* of the nested message, which is the set of its fields that are there.  The     *)
(* column itself came with release 1.                                         *)
(***************************************************************************)
EXTENDS Columns

CONSTANTS
    Word,       \* the number of values of an unsigned integer, an even number
    Micro,      \* the ticks of a message's clock in one of the table's
    Nearest(_), \* the tick of the table's clock PostgreSQL reads a time in a text as
    MaxDuration, \* the longest duration, an int64
    NilBytes    \* the value of a wrapper around bytes that are nil

ASSUME MapperAssumption ==
    /\ Word \in Nat \ {0} /\ Word % 2 = 0
    /\ Micro \in Nat \ {0}
    /\ MaxDuration \in Nat

---------------------------------------------------------------------------
(* Elements *)

\* int32(v) of a uint32 keeps the bits.
\* Mutant: the upper half is cut off.
SignedCapped(v) == IF v >= Word \div 2 THEN Word \div 2 - 1 ELSE v
Signed(v) == IF v >= Word \div 2 THEN v - Word ELSE v
\* Mutant: the way back is forgotten.
UnsignedAsStored(y) == y
Unsigned(y) == y % Word

\* The text of an enum number is its name, or its digits if it has none.
EnumText(r, n) == IF n \in 0..r THEN [name |-> n] ELSE [digits |-> n]
Names(r) == { [name |-> n] : n \in 0..r }
KnownText(r, y) == y \in Names(r)
EnumNumber(r, y) == IF KnownText(r, y) THEN y.name ELSE 0

JSONB(c) == c.kind \in JSONBKinds \cup {"Oneof"}
NestedType(c) == c.type = "message" /\ ~c.wrapped
EnumType(c) == c.type = "enum"

\* AsDuration goes as far as an int64 of nanoseconds does, and no further.
AsDuration(x) ==
    IF x > MaxDuration THEN MaxDuration ELSE IF x < -MaxDuration - 1 THEN -MaxDuration - 1 ELSE x

\* A time column has no place for the last digits.  The driver cuts those of a time off;
\* those of an array, which it sends as a text, PostgreSQL rounds.
TableTime(c, x) == IF c.kind = "RepeatedTimestamp" THEN Nearest(x) ELSE x - (x % Micro)

\* JSON holds integers, times and durations as they are.
EncodeElement(c, r, x) ==
    CASE EnumType(c)   -> EnumText(r, x)
      [] NestedType(c) -> x \cap (1..r)
      [] c.type = "uint" /\ ~JSONB(c) -> Signed(x)
      [] c.type = "timestamp" /\ ~JSONB(c) -> TableTime(c, x)
      [] c.type = "duration" /\ ~JSONB(c) -> AsDuration(x)
      [] OTHER -> x

\* What a name means nothing to is the zero value; what a field means nothing
\* to is discarded.
DecodeElement(c, r, y) ==
    CASE EnumType(c)   -> EnumNumber(r, y)
      [] NestedType(c) -> y \cap (1..r)
      [] c.type = "uint" /\ ~JSONB(c) -> Unsigned(y)
      [] OTHER -> y

Encode(c, r, x) ==
    CASE c.kind \in CollectionKinds -> [i \in DOMAIN x |-> EncodeElement(c, r, x[i])]
      [] c.kind = "Oneof" -> [variant |-> x.variant, json |-> << EncodeElement(c, r, x.value) >>]
      [] OTHER -> EncodeElement(c, r, x)

\* Names of a list that mean nothing are left out of it.
KnownTexts(c, r, y) ==
    IF c.kind = "RepeatedEnum" THEN Kept(y, Names(r)) ELSE y

Decode(c, r, y) ==
    CASE c.kind \in CollectionKinds ->
            LET known == KnownTexts(c, r, y)
            IN [i \in DOMAIN known |-> DecodeElement(c, r, known[i])]
      [] c.kind = "Oneof" -> [variant |-> y.variant, value |-> DecodeElement(c, r, y.json[1])]
      [] OTHER -> DecodeElement(c, r, y)

---------------------------------------------------------------------------
(* A message becomes a row *)

\* What the kind has for nothing: an empty list or object, or a zero.
Empty(c) ==
    CASE NestedType(c) /\ c.kind = "JSONBProto" -> {}
      [] c.kind \in CollectionKinds -> <<>>
      [] c.kind = "Oneof" -> [variant |-> 0, json |-> <<>>]
      [] OTHER -> 0

\* A required oneof must be set.
Convertible(c, v) == c.kind = "Oneof" /\ ~c.optional => v # <<>>

\* Nil, or bytes that are nil inside a wrapper, which the driver writes as NULL.
Absent(c, v) == v = <<>> \/ (WrappedBytes(c) /\ v = <<NilBytes>>)

\* Mutant: nil is written as NULL whatever the column is.
ModelFromProtoNil(c, r, v) ==
    IF Absent(c, v) THEN <<>> ELSE << Encode(c, r, v[1]) >>

\* Nil is NULL if the column can be NULL, else it is the empty value.
ModelFromProto(c, r, v) ==
    CASE c.nullable /\ Absent(c, v) -> <<>>
      [] ~c.nullable /\ v = <<>> -> << Empty(c) >>
      [] OTHER -> << Encode(c, r, v[1]) >>

\* The mapper leaves alone the times the repository stamps, and what the
\* database computes.
Stamped(c) == c.kind = "Timestamp" /\ ~c.nullable
Written(c) == ~Stamped(c) /\ ~c.generated

\* The columns an update sets, but for the key and the columns of the scope.
Mutable(c) == ~c.immutable /\ ~c.generated

---------------------------------------------------------------------------
(* A row becomes a message *)

\* Mutant: a variant without a name reads as none.
ReadableLenient(c, r, cell) == TRUE

\* Mutant: a oneof is required in any case.
ReadableIfSet(c, r, cell) == c.kind = "Oneof" => cell[1].variant \in 1..r

\* A oneof of a variant the program does not know, or that is missing though it
\* is required, is an error.
Readable(c, r, cell) ==
    c.kind = "Oneof" => cell[1].variant \in (IF c.optional THEN 0..r ELSE 1..r)

\* Mutant: nothing is told apart from the empty message in any column.
ProtoFromModelCollapsed(c, r, cell) ==
    IF \/ cell = <<>>
       \/ c.kind = "Oneof" /\ cell[1].variant \notin 1..r
       \/ c.kind = "JSONBProto" /\ cell = <<{}>>
       \/ c.kind = "EnumAsText" /\ c.nullable /\ ~KnownText(r, cell[1])
    THEN <<>> ELSE << Decode(c, r, cell[1]) >>

\* The value of a column that can be NULL tells nothing from the empty value;
\* an enum there has no value if its name means nothing.
ProtoFromModel(c, r, cell) ==
    IF \/ cell = <<>>
       \/ c.kind = "Oneof" /\ cell[1].variant \notin 1..r
       \/ c.kind = "JSONBProto" /\ ~c.nullable /\ cell = <<{}>>
       \/ c.kind = "EnumAsText" /\ c.nullable /\ ~KnownText(r, cell[1])
    THEN <<>> ELSE << Decode(c, r, cell[1]) >>

---------------------------------------------------------------------------
(* The table, as the migrations up to release t have made it *)

\* A check that is NULL is met.  A check of the author's own is taken to be met.
CheckAccepts(c, t, cell) ==
    cell # <<>> =>
        /\ c.check = "names" => KnownText(t, cell[1]) /\ (cell[1].name = 0 => c.zero)
        /\ c.check = "variants" => cell[1].variant \in (IF c.optional THEN 0..t ELSE 1..t)
        /\ c.check = "nonempty" => cell[1] # 0

TableAccepts(c, t, cell) == (cell = <<>> => c.nullable) /\ CheckAccepts(c, t, cell)

\* What PostgreSQL computes or fills in, taken to be something the check accepts
\* where the author wrote it.
Literal(c) ==
    IF c.kind = "EnumAsText" THEN [name |-> 1]
    ELSE IF c.check = "nonempty" THEN 1 ELSE Empty(c)

\* Whether a row can go without a value for the column, and what it has then.
HasDefault(c) == c.nullable \/ c.generated \/ c.default # "none"

DefaultCell(c) ==
    IF c.generated \/ c.default = "given" THEN << Literal(c) >>
    ELSE IF c.default = "zero"
         THEN << IF c.kind = "EnumAsText" THEN [name |-> 0] ELSE Empty(c) >>
         ELSE <<>>
===============================================================================
