------------------------------ MODULE Columns ------------------------------
(***************************************************************************)
(* What the generator makes of one annotated field (resolve.go:              *)
(* resolveColumn, resolveOneof and what they call): a column, or a refusal.  *)
(*                                                                         *)
(* A field is                                                               *)
(*   [shape    "one", "list", "map" or "oneof"                              *)
(*    type     the type of its elements, of the values of a map, or of the   *)
(*             variants of a oneof: a key of NativeKind                      *)
(*    wrapped  the element is a wrapper message of the type (StringValue...) *)
(*    key      the type of the keys of a map, "" elsewhere                    *)
(*    optional the proto3 keyword; of a oneof, the option of that name         *)
(*    options  the names of the options its annotation sets].                 *)
(* A column is the record Column makes of it.  Options whose value matters    *)
(* only to PostgreSQL (name, index paths) are present or not; "nonempty" is a  *)
(* check that refuses the empty string, "check" any other; "identifier" is      *)
(* the field behaviour IDENTIFIER or IMMUTABLE.                                *)
(***************************************************************************)
EXTENDS Integers, FiniteSets, Sequences

\* The kind of a bare field, by type.
NativeKind ==
    [string |-> "Scalar", bool |-> "Scalar", int |-> "Scalar", uint |-> "Scalar",
     float |-> "Scalar", bytes |-> "Scalar", enum |-> "EnumAsText",
     timestamp |-> "Timestamp", duration |-> "Duration", message |-> "JSONBProto"]

\* The kind of a repeated field; there is none for bytes.
RepeatedKind ==
    [string |-> "RepeatedText", bool |-> "RepeatedPrimitive", int |-> "RepeatedPrimitive",
     uint |-> "RepeatedPrimitive", float |-> "RepeatedPrimitive", enum |-> "RepeatedEnum",
     timestamp |-> "RepeatedTimestamp", duration |-> "RepeatedPrimitive",
     message |-> "JSONBProtoList"]

\* The kind of a map, by the type of its values; there is none for bare floats.
MapKind ==
    [string |-> "JSONBMapScalar", bool |-> "JSONBMapScalar", int |-> "JSONBMapScalar",
     uint |-> "JSONBMapScalar", bytes |-> "JSONBMapScalar", enum |-> "JSONBMapEnum",
     timestamp |-> "JSONBMapMessage", duration |-> "JSONBMapMessage",
     message |-> "JSONBMapMessage"]

\* The types there are wrapper messages of.
WrappedTypes == {"string", "bool", "int", "uint", "float", "bytes"}

\* The fields there are.  Of a oneof only the option of that name and its indexed
\* paths can be set.
FieldOK(f) ==
    /\ f.shape \in {"one", "list", "map", "oneof"}
    /\ f.type \in DOMAIN NativeKind
    /\ f.wrapped \in BOOLEAN
    /\ f.wrapped => f.type \in WrappedTypes
    /\ f.optional \in BOOLEAN
    /\ f.shape = "oneof" => ~f.wrapped /\ f.options \subseteq {"jsonb_indexed_paths"}
    /\ "nonempty" \in f.options => f.type = "string" /\ f.shape = "one"

IsMessage(f) == f.wrapped \/ f.type \in {"timestamp", "duration", "message"}

\* A wrapper in a list or a map is a message like any other.
ElementType(f) == IF f.wrapped THEN "message" ELSE f.type

HasKind(f) ==
    CASE f.shape = "list" -> ElementType(f) \in DOMAIN RepeatedKind
      [] f.shape = "map"  -> ElementType(f) \in DOMAIN MapKind
      [] OTHER            -> TRUE

Kind(f) ==
    CASE f.shape = "oneof" -> "Oneof"
      [] f.shape = "list"  -> RepeatedKind[ElementType(f)]
      [] f.shape = "map"   -> IF f.key = "string" /\ f.type = "string" /\ ~f.wrapped
                              THEN "JSONBStrMap" ELSE MapKind[ElementType(f)]
      [] OTHER             -> NativeKind[f.type]

JSONBKinds ==
    {"JSONBProto", "JSONBProtoList", "JSONBStrMap", "JSONBMapScalar", "JSONBMapEnum",
     "JSONBMapMessage"}

CollectionKinds ==
    {"RepeatedText", "RepeatedPrimitive", "RepeatedEnum", "RepeatedTimestamp",
     "JSONBProtoList", "JSONBStrMap", "JSONBMapScalar", "JSONBMapEnum", "JSONBMapMessage"}

\* A wrapper around bytes, which can be nil inside it.
WrappedBytes(c) == c.kind = "Scalar" /\ c.type = "bytes" /\ c.wrapped

\* What a loop makes of a list that appends the elements that are in S.
Kept(s, S) ==
    LET kept[n \in 0..Len(s)] ==
            IF n = 0 THEN <<>>
            ELSE IF s[n] \in S THEN Append(kept[n - 1], s[n]) ELSE kept[n - 1]
    IN kept[Len(s)]

---------------------------------------------------------------------------
(* Nullability and defaults *)

\* A collection can be NULL unless a default is given.
DefaultsToNullable(f) == Kind(f) \in CollectionKinds /\ "default_expr" \notin f.options

Wrapper(f) == f.shape = "one" /\ f.wrapped

Nullable(f) == "nullable" \in f.options \/ Wrapper(f) \/ DefaultsToNullable(f)

\* Without presence in the message there is nothing to write as NULL.
AcceptsNullable(f) ==
    Nullable(f) /\ Kind(f) \in {"Scalar", "EnumAsText", "Duration"} /\ ~Wrapper(f)
        => f.optional

\* The check the table has: that of the author, or the names of an enum.
Check(f) ==
    IF "check" \in f.options THEN "custom"
    ELSE IF "nonempty" \in f.options THEN "nonempty"
    ELSE CASE Kind(f) = "EnumAsText" -> "names"
           [] Kind(f) = "Oneof"      -> "variants"
           [] OTHER                  -> "none"

ZeroAllowed(f) == "allow_zero_enum" \in f.options

\* Mutant: every enum has a default.
InferredDefaultUnaligned(f) ==
    CASE Kind(f) = "Scalar" -> ~(f.type = "string" /\ "nonempty" \in f.options)
      [] Kind(f) = "EnumAsText" -> Check(f) = "names"
      [] Kind(f) \in {"Duration", "JSONBProto"} -> TRUE
      [] Kind(f) = "Oneof" -> f.optional
      [] OTHER -> FALSE

\* The generator gives a default it can prove the check accepts.
InferredDefault(f) ==
    CASE Kind(f) = "Scalar" -> ~(f.type = "string" /\ "nonempty" \in f.options)
      [] Kind(f) = "EnumAsText" -> Check(f) = "names" /\ ZeroAllowed(f)
      [] Kind(f) \in {"Duration", "JSONBProto"} -> TRUE
      [] Kind(f) = "Oneof" -> f.optional
      [] OTHER -> FALSE

Default(f) ==
    IF "generated_expr" \in f.options THEN "none"
    ELSE IF "default_expr" \in f.options THEN "given"
    ELSE IF ~Nullable(f) /\ InferredDefault(f) THEN "zero" ELSE "none"

\* A field behaviour says the same as the option.
Immutable(f) == f.options \cap {"immutable", "identifier"} # {}

Column(f) ==
    [kind |-> Kind(f), type |-> f.type, wrapped |-> f.wrapped, nullable |-> Nullable(f),
     optional |-> f.optional, check |-> Check(f), zero |-> ZeroAllowed(f),
     default |-> Default(f), immutable |-> Immutable(f),
     generated |-> "generated_expr" \in f.options, orderable |-> "orderable" \in f.options]

---------------------------------------------------------------------------
(* What is refused *)

\* A hint must fit the field.
AcceptsStorage(f) ==
    /\ "JSONB_STRMAP" \in f.options =>
          f.shape = "map" /\ f.key = "string" /\ f.type = "string" /\ ~f.wrapped
    /\ "ARRAY" \in f.options => f.shape = "list"
    /\ "TEXT_ENUM" \in f.options => f.type = "enum" /\ f.shape # "map"
    /\ "JSONB_PROTO" \in f.options => IsMessage(f) /\ f.shape # "map"

\* unique and foreign_key want a column PostgreSQL can index.
Indexable(f) ==
    \/ Kind(f) = "Scalar" /\ f.type # "bool"
    \/ Kind(f) \in {"Timestamp", "Duration", "EnumAsText"}

AcceptsIndexes(f) ==
    /\ f.options \cap {"jsonb_gin_index", "jsonb_indexed_paths"} # {} =>
          Kind(f) \in JSONBKinds \cup {"Oneof"}
    /\ f.options \cap {"unique", "foreign_key"} # {} => Indexable(f)

AcceptsGenerated(f) ==
    "generated_expr" \in f.options =>
        f.options \cap {"default_expr", "unique", "foreign_key"} = {}

\* A field that is not stored has no other option; foreign_key is not looked at.
OtherSkipOptions ==
    {"immutable", "orderable", "unique", "nullable", "allow_zero_enum", "jsonb_gin_index",
     "check", "nonempty", "default_expr", "JSONB_STRMAP", "ARRAY", "TEXT_ENUM", "JSONB_PROTO",
     "jsonb_indexed_paths", "generated_expr"}

Skipped(f) == "skip" \in f.options
AcceptsSkip(f) == f.options \cap (OtherSkipOptions \cup {"identifier"}) = {}

Resolves(f) ==
    IF Skipped(f) THEN AcceptsSkip(f)
    ELSE /\ HasKind(f)
         /\ AcceptsStorage(f)
         /\ AcceptsNullable(f)
         /\ AcceptsIndexes(f)
         /\ AcceptsGenerated(f)

---------------------------------------------------------------------------
(* The Go types of the generated code *)

\* Mutant: a nullable column has a cursor too.
OrderableIfScalar(c) ==
    \/ c.kind \in {"Timestamp", "Duration", "EnumAsText"}
    \/ c.kind = "Scalar" /\ c.type \in {"string", "int", "uint", "float"}

\* Lists page by columns that are never NULL and have a cursor.
OrderableColumn(c) ==
    /\ ~c.nullable
    /\ \/ c.kind \in {"Timestamp", "Duration", "EnumAsText"}
       \/ c.kind = "Scalar" /\ c.type \in {"string", "int", "uint", "float"}

\* The generator goes through: orderable columns are looked at when the schema
\* of the lists is written.
Accepted(f) ==
    Resolves(f) /\ (~Skipped(f) /\ "orderable" \in f.options => OrderableColumn(Column(f)))

\* The field of the row struct: the Go type, and whether it is a pointer.
JetGoType(c) ==
    [pointer |-> c.nullable,
     type |-> CASE c.kind \in JSONBKinds \cup {"EnumAsText"} -> "string"
                [] c.kind = "Timestamp" -> "time"
                [] c.kind = "Duration"  -> "int"
                [] c.kind = "Scalar"    -> IF c.type = "uint" THEN "int" ELSE c.type
                [] OTHER                -> "array"]

\* The Go type the codec of a column wants.
CodecAccepts(c) ==
    CASE c.kind = "Timestamp" -> "time"
      [] c.kind = "Duration"  -> "int"
      [] c.kind = "Scalar" /\ c.type \in {"int", "uint"} -> "int"
      [] c.kind = "Scalar" /\ c.type = "float" -> "float"
      [] OTHER -> "string"

\* protoc-gen-go makes the field of a message a pointer for the keyword, but for
\* bytes and messages; the mapper assigns a pointer exactly if the column is
\* nullable.
Compiles(f) ==
    f.shape = "one" /\ ~IsMessage(f) /\ f.type # "bytes" => f.optional = Nullable(f)
===============================================================================
