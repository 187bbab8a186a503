-------------------------------- MODULE Rows --------------------------------
(***************************************************************************)
(* A table and the programs that use it through the generated code, while the  *)
(* schema goes from release to release: each program inserts, updates and reads *)
(* rows with the mapper and the column list of its own release                 *)
(* (emit_mapper.go, emit_aliases.go), against the table the migrations have made *)
(* so far (emit_sql.go).  Columns do not depend on each other, so the table has   *)
(* one besides its key; every field of Fields is tried.                         *)
(*                                                                         *)
(* Release 1 has added the column; a program of release 0 does not have it.       *)
(***************************************************************************)
EXTENDS Mapper

CONSTANTS
    Fields,     \* the annotated fields the column may come from
    Keys,       \* primary keys
    Newest,     \* the newest release
    Elements,   \* the values of each type but messages
    MaxLength,  \* the longest list
    MapKeys,    \* the keys of maps
    Stamps,     \* the times a repository may stamp
    InsertList  \* the columns an INSERT names: "AllColumns" or "MutableColumns"

NoKey == ""     \* the default of the key column

ASSUME RowsAssumption ==
    /\ \A f \in Fields : FieldOK(f)
    /\ Newest \in Nat \ {0}
    /\ MaxLength \in Nat
    /\ NoKey \notin Keys
    /\ InsertList \in {"AllColumns", "MutableColumns"}

\* Every type has its zero, a text that is not empty and the numbers of an enum
\* that have names are values of it, a time the table has rounded is a time, and
\* the longest duration is a duration.  Of two ticks equally near either may be the nearest.
ASSUME ElementsAssumption ==
    /\ \A t \in DOMAIN NativeKind \ {"message"} : 0 \in Elements[t]
    /\ 1 \in Elements.string
    /\ 0..Newest \subseteq Elements.enum
    /\ Elements.uint \subseteq 0..(Word - 1)
    /\ Elements.timestamp \subseteq Int
    /\ \A x \in Elements.timestamp :
          /\ {x - (x % Micro), Nearest(x)} \subseteq Elements.timestamp
          /\ Nearest(x) % Micro = 0
          /\ 2 * (x - Nearest(x)) <= Micro /\ 2 * (Nearest(x) - x) <= Micro
    /\ Elements.duration \subseteq Int
    /\ \A x \in Elements.duration : AsDuration(x) \in Elements.duration
    /\ Stamps \subseteq Elements.timestamp

VARIABLES
    column,     \* the column of the table
    table,      \* the release up to which it is migrated
    rows,       \* for each key <<>> or << cell >>
    held        \* for each program <<>> or << [key, value, cell] >>: the message
                \* it read last and, for the properties, what that was read from

vars == <<column, table, rows, held>>

Programs == 0..Newest

\* The columns of the fields that are stored, by programs that compile.
Tables ==
    { Column(f) : f \in { g \in Fields : ~Skipped(g) /\ Accepted(g) /\ Compiles(g) } }

---------------------------------------------------------------------------
(* The Go values of the field in a program of release r *)

Values(c, r) == IF NestedType(c) THEN SUBSET (1..r) ELSE Elements[c.type]

MapKinds == {"JSONBStrMap", "JSONBMapScalar", "JSONBMapEnum", "JSONBMapMessage"}

Contents(c, r) ==
    CASE c.kind \in MapKinds -> UNION { [K -> Values(c, r)] : K \in SUBSET MapKeys }
      [] c.kind \in CollectionKinds \ MapKinds -> UNION { [1..n -> Values(c, r)] : n \in 0..MaxLength }
      [] c.kind = "Oneof" -> [variant : 1..r, value : Values(c, r)]
      [] WrappedBytes(c) -> Values(c, r) \cup {NilBytes}
      [] OTHER -> Values(c, r)

\* A number, a text or an enum without the keyword is never nil.
HasPresence(c) ==
    \/ c.optional \/ c.wrapped
    \/ c.kind \notin {"Scalar", "EnumAsText"}
    \/ c.type = "bytes"

\* A program of release 0 has messages without the field.
Messages(c, r) ==
    IF r = 0 THEN {<<>>}
    ELSE { << x >> : x \in Contents(c, r) } \cup (IF HasPresence(c) THEN {<<>>} ELSE {})

---------------------------------------------------------------------------
(* The programs *)

\* Rows that were there before the column have its default.
Init ==
    /\ column \in Tables
    /\ table = 1
    /\ rows \in [Keys \cup {NoKey} -> {<<>>, << DefaultCell(column) >>}]
    /\ \A k \in DOMAIN rows : rows[k] # <<>> => HasDefault(column) /\ k # NoKey
    /\ held = [p \in Programs |-> <<>>]

\* The time only matters to a column that is stamped.
Clock == IF Stamped(column) THEN Stamps ELSE {0}

\* The cell a program writes for a message, stamped at s.
CellOf(p, v, s) ==
    IF p = 0 \/ column.generated THEN DefaultCell(column)
    ELSE IF Stamped(column) THEN << EncodeElement(column, p, s) >>
    ELSE ModelFromProto(column, p, v)

\* go-jet leaves the key out of MutableColumns.
InsertKey(k) == IF InsertList = "MutableColumns" THEN NoKey ELSE k

\* A program inserts a row.  PostgreSQL takes no value for a computed column.
Create(p, k, v, s) ==
    LET cell == CellOf(p, v, s) IN
    /\ rows[InsertKey(k)] = <<>>
    /\ IF p = 0 THEN HasDefault(column)
                ELSE /\ Convertible(column, v)
                     /\ ~(column.generated /\ InsertList = "AllColumns")
    /\ TableAccepts(column, table, cell)
    /\ rows' = [rows EXCEPT ![InsertKey(k)] = << cell >>]
    /\ UNCHANGED <<column, table, held>>

\* UpdateAll sets every column but those of the key, the scope, and those that
\* are immutable or computed.
Update(p, k, v, s) ==
    LET cell == CellOf(p, v, s) IN
    /\ rows[k] # <<>>
    /\ p # 0 => Convertible(column, v)
    /\ IF p # 0 /\ Mutable(column)
       THEN /\ TableAccepts(column, table, cell)
            /\ rows' = [rows EXCEPT ![k] = << cell >>]
       ELSE UNCHANGED rows
    /\ UNCHANGED <<column, table, held>>

\* A program reads a row, or fails to.
Get(p, k) ==
    /\ p # 0
    /\ rows[k] # <<>>
    /\ held' = [held EXCEPT ![p] =
                  IF Readable(column, p, rows[k][1])
                  THEN << [key |-> k, value |-> ProtoFromModel(column, p, rows[k][1]),
                           cell |-> rows[k][1]] >>
                  ELSE <<>>]
    /\ UNCHANGED <<column, table, rows>>

\* A program writes back the message it has read, another field of it changed.
WriteBack(p) ==
    /\ held[p] # <<>>
    /\ \E s \in Clock : Update(p, held[p][1].key, held[p][1].value, s)

\* The table is migrated to the next release.
Migrate ==
    /\ table < Newest
    /\ table' = table + 1
    /\ UNCHANGED <<column, rows, held>>

Request(p) ==
    \/ \E k \in Keys, v \in Messages(column, p), s \in Clock :
          Create(p, k, v, s) \/ Update(p, k, v, s)
    \/ \E k \in Keys : Get(p, k)
    \/ WriteBack(p)

Next == Migrate \/ \E p \in Programs : Request(p)

Spec == Init /\ [][Next]_vars

---------------------------------------------------------------------------
(* Properties *)

\* Rows and what is held of them are of their types: in particular every message
\* a program reads is one that it could have been sent, which the mappers rely on
\* when it is written back.
TypeOK ==
    /\ table \in 1..Newest
    /\ DOMAIN rows = Keys \cup {NoKey}
    /\ \A k \in DOMAIN rows : rows[k] # <<>> => TableAccepts(column, table, rows[k][1])
    /\ \A p \in Programs : held[p] # <<>> =>
          held[p][1].key \in Keys /\ held[p][1].value \in Messages(column, p)

\* No row makes the mapper of a program fail that is as new as the table, whoever
\* wrote it: the errors of a oneof that is missing or of a variant without a name
\* (writeOneofProtoAssign) are for rows the checks of the table keep out
\* (renderCreateTable, oneofKindCheck).
EveryRowReads ==
    \A p \in table..Newest, k \in Keys :
        rows[k] # <<>> => Readable(column, p, rows[k][1])

\* What the mapper makes of a message it converts is refused by the table only
\* for what the author asked for (an enum that must not be zero, a check that
\* refuses the empty text) or for an enum number without a name: never because
\* nil became NULL in a NOT NULL column, or because the check and the mapper call
\* a variant or a number differently (writeNullableModelAssign,
\* writeModelAssignFromProto, inferFieldEncoding).
Named(p, v) ==
    v # <<>> =>
        /\ column.check = "names" => v[1] \in 0..p /\ (v[1] = 0 => column.zero)
        /\ column.check = "nonempty" => v[1] # 0

OnlyNamedRefusals ==
    ~Stamped(column) =>
        \A p \in 1..table : \A v \in Messages(column, p) :
            Convertible(column, v) /\ Named(p, v) =>
                TableAccepts(column, table, ModelFromProto(column, p, v))

\* A default the generator gives a column passes the check it gives it
\* (inferFieldEncoding, the default alignment), in every release.
DefaultsAreAccepted ==
    column.default = "zero" =>
        \A t \in 1..Newest : TableAccepts(column, t, DefaultCell(column))

\* A column a list may be ordered by is never NULL in a row, and its field in the
\* row struct has the type the codec of the cursor wants, so that the generated
\* Read and Encode fit (OrderableColumn, emit_schema.go).
CursorsFit ==
    column.orderable =>
        /\ \A k \in DOMAIN rows : rows[k] # <<>> => rows[k][1] # <<>>
        /\ JetGoType(column) = [pointer |-> FALSE, type |-> CodecAccepts(column)]

\* Program p holds what the row still is.
Fresh(p) == held[p] # <<>> /\ rows[held[p][1].key] = << held[p][1].cell >>

\* A program that reads a row and writes it back at once never replaces a choice
\* it does not know: the oneof fails to read (writeOneofProtoAssign), and an enum
\* that reads as zero is refused by the check (renderCreateTable) unless the
\* author allowed the zero, made the column nullable or replaced the check.
UnknownChoice(p, cell) ==
    \/ column.kind = "Oneof" /\ cell[1].variant \notin 0..p
    \/ column.check = "names" /\ ~column.nullable /\ ~column.zero /\ ~KnownText(p, cell[1])

UnknownChoicesAreKept ==
    [][\A p \in Programs :
          Fresh(p) /\ WriteBack(p) /\ UnknownChoice(p, rows[held[p][1].key][1])
              => UNCHANGED rows]_vars

\* A nested message keeps the fields a program does not know when the program
\* writes the message back ("protojson preserves unknown fields by default",
\* cmd/protoc-gen-go-jet/README.md:775): it does not, they are discarded when the
\* row is read (writeProtoAssignFromModel).
UnknownFieldsSurvive ==
    [][\A p \in Programs :
          Fresh(p) /\ WriteBack(p) /\ column.kind = "JSONBProto" /\ NestedType(column)
              => LET key == held[p][1].key IN
                 rows[key][1] # <<>> => rows[key][1][1] \subseteq rows'[key][1][1]]_vars

\* The rows are a store of messages: every program, of whatever release, writes
\* and reads the field of a message as its release knows it, whatever the column
\* (writeModelFromProto, writeProtoFromModel); what differs from the message sent
\* is named in MessageStore.
Store == INSTANCE MessageStore WITH
    store <- [k \in Keys |->
                 IF rows[k] = <<>> THEN <<>>
                 ELSE << ProtoFromModel(column, Newest, rows[k][1]) >>],
    held  <- [p \in Programs |->
                 IF held[p] = <<>> THEN <<>>
                 ELSE << [key |-> held[p][1].key, value |-> held[p][1].value] >>]

StoresMessages == Store!Spec

\* And call by call: an insert, an update or a read is that of the store with the
\* same program, key and message, so what is stored is what was sent; an update
\* that has nothing to set (mutableJetFields, emit_aliases.go) changes nothing.
CallsAreTheStores ==
    [][\A p \in Programs, k \in Keys :
          /\ Get(p, k) => Store!Answer(p, k)
          /\ \A v \in Messages(column, p), s \in Clock :
                /\ Create(p, k, v, s) => Store!Put(p, k, v)
                /\ Update(p, k, v, s) /\ ~Store!Fixed(p) => Store!Change(p, k, v)
                /\ Update(p, k, v, s) /\ Store!Fixed(p) => UNCHANGED rows]_vars
===============================================================================
