----------------------------- MODULE RowsProofs -----------------------------
(***************************************************************************)
(* Proofs about Rows for every set of fields, keys, programs and values: first   *)
(* what the table accepts (RowsInv), then what is made of a message on its way     *)
(* to a row and back (StoreInv) and the refinement of MessageStore.             *)
(***************************************************************************)
EXTENDS Rows, Foundations, TLAPS

---------------------------------------------------------------------------
(* Columns *)

\* A repeated field or a map is a collection.
LEMMA CollectionKind ==
    ASSUME NEW f, HasKind(f), f.shape \in {"list", "map"}
    PROVE  Kind(f) \in CollectionKinds
<1>1. CASE f.shape = "list"
  <2>1. ElementType(f) \in DOMAIN RepeatedKind
    BY <1>1 DEF HasKind
  <2>2. Kind(f) = RepeatedKind[ElementType(f)]
    BY <1>1 DEF Kind
  <2> QED
    BY <2>1, <2>2 DEF RepeatedKind, CollectionKinds
<1>2. CASE f.shape = "map"
  <2>1. ElementType(f) \in DOMAIN MapKind
    BY <1>2 DEF HasKind
  <2>2. Kind(f) = "JSONBStrMap" \/ Kind(f) = MapKind[ElementType(f)]
    BY <1>2 DEF Kind
  <2> QED
    BY <2>1, <2>2 DEF MapKind, CollectionKinds
<1> QED
  BY <1>1, <1>2

\* Only a bare field is a scalar, and a text is one.
LEMMA SingleKind ==
    ASSUME NEW f, FieldOK(f), f.shape = "one"
    PROVE  /\ Kind(f) \in {"Scalar", "EnumAsText", "Timestamp", "Duration", "JSONBProto"}
           /\ f.type = "string" => Kind(f) = "Scalar"
           /\ Kind(f) = "Scalar" =>
                 f.type \in {"string", "bool", "int", "uint", "float", "bytes"}
<1>1. Kind(f) = NativeKind[f.type] /\ f.type \in DOMAIN NativeKind
  BY DEF Kind, FieldOK
<1> QED
  BY <1>1 DEF NativeKind

\* How the check, the default and the kind of a column hang together
\* (inferFieldEncoding, resolveOneof).
LEMMA CheckAndDefault ==
    ASSUME NEW f, FieldOK(f), HasKind(f), NEW c, c = Column(f)
    PROVE  /\ c.kind = "Oneof" => /\ c.check = "variants"
                                  /\ ~c.nullable /\ ~c.generated
                                  /\ c.default # "given"
                                  /\ c.default = "zero" => c.optional
           /\ c.check = "variants" => c.kind = "Oneof"
           /\ c.check = "names" => c.kind = "EnumAsText"
           /\ c.check = "names" /\ c.default = "zero" => c.zero
           /\ c.check = "nonempty" => c.kind = "Scalar" /\ c.default # "zero"
           /\ c.default \in {"none", "given", "zero"}
<1>1. /\ c.kind = Kind(f) /\ c.nullable = Nullable(f) /\ c.check = Check(f)
      /\ c.default = Default(f) /\ c.optional = f.optional /\ c.zero = ZeroAllowed(f)
      /\ c.generated = ("generated_expr" \in f.options)
  BY DEF Column
<1>2. ASSUME f.shape = "oneof"
      PROVE  /\ Kind(f) = "Oneof" /\ Check(f) = "variants" /\ ~Nullable(f)
             /\ "generated_expr" \notin f.options /\ Default(f) \in {"none", "zero"}
             /\ Default(f) = "zero" => f.optional
  BY <1>2 DEF FieldOK, Kind, Check, Nullable, Wrapper, DefaultsToNullable, CollectionKinds,
              Default, InferredDefault
<1>3. ASSUME f.shape # "oneof"
      PROVE  Kind(f) # "Oneof"
  BY <1>3, CollectionKind, SingleKind DEF FieldOK, CollectionKinds
<1>4. Check(f) = "variants" => Kind(f) = "Oneof"
  BY DEF Check
<1>5. Check(f) = "names" => Kind(f) = "EnumAsText"
  BY DEF Check
<1>6. Check(f) = "names" /\ Default(f) = "zero" => ZeroAllowed(f)
  BY <1>5 DEF Default, InferredDefault
<1>7. Check(f) = "nonempty" => Kind(f) = "Scalar" /\ Default(f) # "zero"
  <2> SUFFICES ASSUME Check(f) = "nonempty"
               PROVE  Kind(f) = "Scalar" /\ Default(f) # "zero"
    OBVIOUS
  <2>1. "nonempty" \in f.options
    BY DEF Check
  <2>2. f.type = "string" /\ f.shape = "one"
    BY <2>1 DEF FieldOK
  <2>3. Kind(f) = "Scalar"
    BY <2>2, SingleKind
  <2> QED
    BY <2>1, <2>2, <2>3 DEF Default, InferredDefault
<1>8. Default(f) \in {"none", "given", "zero"}
  BY DEF Default
<1> QED
  BY <1>1, <1>2, <1>3, <1>4, <1>5, <1>6, <1>7, <1>8

\* The columns of Rows are such columns, and can be ordered by if they say so.
LEMMA TableColumns ==
    ASSUME NEW c \in Tables
    PROVE  /\ \E f : FieldOK(f) /\ HasKind(f) /\ c = Column(f)
           /\ c.orderable => OrderableColumn(c)
<1>1. PICK f \in Fields : ~Skipped(f) /\ Accepted(f) /\ c = Column(f)
  BY DEF Tables
<1>2. FieldOK(f)
  BY RowsAssumption
<1>3. HasKind(f)
  BY <1>1 DEF Accepted, Resolves
<1>4. c.orderable = ("orderable" \in f.options)
  BY <1>1 DEF Column
<1>5. c.orderable => OrderableColumn(c)
  BY <1>1, <1>4 DEF Accepted
<1> QED
  BY <1>1, <1>2, <1>3, <1>5

---------------------------------------------------------------------------
(* Cells *)

\* A default, whoever wrote it, is taken by the table in every release
\* (inferFieldEncoding, the default alignment; renderCreateTable).
LEMMA DefaultAccepted ==
    ASSUME NEW c \in Tables, NEW t \in Nat \ {0}, HasDefault(c)
    PROVE  TableAccepts(c, t, DefaultCell(c))
<1>1. PICK f : FieldOK(f) /\ HasKind(f) /\ c = Column(f)
  BY TableColumns
<1>2. /\ c.kind = "Oneof" => /\ ~c.generated /\ c.default # "given"
                             /\ c.default = "zero" => c.optional
      /\ c.check = "variants" => c.kind = "Oneof"
      /\ c.check = "names" => c.kind = "EnumAsText"
      /\ c.check = "names" /\ c.default = "zero" => c.zero
      /\ c.check = "nonempty" => c.kind = "Scalar" /\ c.default # "zero"
      /\ c.default \in {"none", "given", "zero"}
  BY <1>1, CheckAndDefault
<1>3. CASE c.generated \/ c.default = "given"
  <2>1. DefaultCell(c) = << Literal(c) >>
    BY <1>3 DEF DefaultCell
  <2>2. c.check = "names" => KnownText(t, [name |-> 1]) /\ Literal(c) = [name |-> 1]
    BY <1>2 DEF Literal, KnownText, Names
  <2>3. c.check # "variants"
    BY <1>2, <1>3
  <2>4. c.check = "nonempty" => Literal(c) = 1
    BY <1>2 DEF Literal
  <2>5. CheckAccepts(c, t, << Literal(c) >>)
    BY <2>2, <2>3, <2>4 DEF CheckAccepts
  <2> QED
    BY <2>1, <2>5 DEF TableAccepts
<1>4. CASE ~c.generated /\ c.default = "zero"
  <2> DEFINE y == IF c.kind = "EnumAsText" THEN [name |-> 0] ELSE Empty(c)
  <2>1. DefaultCell(c) = << y >>
    BY <1>4 DEF DefaultCell
  <2>2. c.check = "names" => KnownText(t, y) /\ y.name = 0 /\ c.zero
    BY <1>2, <1>4 DEF KnownText, Names
  <2>3. c.check = "variants" => y.variant = 0 /\ c.optional
    BY <1>2, <1>4 DEF Empty, CollectionKinds
  <2>4. c.check # "nonempty"
    BY <1>2, <1>4
  <2> HIDE DEF y
  <2>5. CheckAccepts(c, t, << y >>)
    BY <2>2, <2>3, <2>4 DEF CheckAccepts
  <2> QED
    BY <2>1, <2>5 DEF TableAccepts
<1>5. CASE ~c.generated /\ c.default = "none"
  BY <1>5 DEF DefaultCell, HasDefault, TableAccepts, CheckAccepts
<1> QED
  BY <1>2, <1>3, <1>4, <1>5

\* A migration adds names: what the table took it still takes.
LEMMA AcceptedLater ==
    ASSUME NEW c, NEW t \in Nat, NEW u \in Nat, t <= u, NEW cell, TableAccepts(c, t, cell)
    PROVE  TableAccepts(c, u, cell)
<1>1. CASE cell = <<>>
  BY <1>1 DEF TableAccepts, CheckAccepts
<1>2. CASE cell # <<>>
  <2>1. CheckAccepts(c, t, cell)
    BY DEF TableAccepts
  <2>2. 0..t \subseteq 0..u /\ 1..t \subseteq 1..u
    OBVIOUS
  <2>3. KnownText(t, cell[1]) => KnownText(u, cell[1])
    BY <2>2 DEF KnownText, Names
  <2>4. CheckAccepts(c, u, cell)
    BY <1>2, <2>1, <2>2, <2>3 DEF CheckAccepts
  <2> QED
    BY <1>2, <2>4 DEF TableAccepts
<1> QED
  BY <1>1, <1>2

\* A program as new as the table reads what the table takes.
LEMMA AcceptedReadable ==
    ASSUME NEW c \in Tables, NEW t \in Nat, NEW p \in Nat, t <= p, NEW cell,
           TableAccepts(c, t, cell)
    PROVE  Readable(c, p, cell)
<1>1. TableAccepts(c, p, cell)
  BY AcceptedLater
<1>2. PICK f : FieldOK(f) /\ HasKind(f) /\ c = Column(f)
  BY TableColumns
<1>3. c.kind = "Oneof" => c.check = "variants" /\ ~c.nullable
  BY <1>2, CheckAndDefault
<1>4. c.kind = "Oneof" => cell # <<>> /\ CheckAccepts(c, p, cell)
  BY <1>1, <1>3 DEF TableAccepts
<1> QED
  BY <1>3, <1>4 DEF Readable, CheckAccepts

---------------------------------------------------------------------------
(* The invariant: every row is one the table takes, and what a program holds it *)
(* has read.                                                                  *)

RowsAccepted ==
    \A k \in Keys \cup {NoKey} :
        rows[k] # <<>> => TableAccepts(column, table, rows[k][1])

HeldRead ==
    \A p \in Programs :
        held[p] # <<>> =>
            /\ held[p][1].key \in Keys
            /\ Readable(column, p, held[p][1].cell)
            /\ held[p][1].value = ProtoFromModel(column, p, held[p][1].cell)

RowsInv ==
    /\ column \in Tables
    /\ table \in 1..Newest
    /\ rows = [k \in Keys \cup {NoKey} |-> rows[k]]
    /\ held = [p \in Programs |-> held[p]]
    /\ RowsAccepted
    /\ HeldRead

LEMMA InitInv == Init => RowsInv
<1> SUFFICES ASSUME Init PROVE RowsInv
  OBVIOUS
<1>1. column \in Tables /\ table = 1 /\ table \in 1..Newest
  BY RowsAssumption DEF Init
<1>2. /\ rows \in [Keys \cup {NoKey} -> {<<>>, << DefaultCell(column) >>}]
      /\ \A k \in Keys \cup {NoKey} : rows[k] # <<>> => HasDefault(column)
  BY DEF Init
<1>3. RowsAccepted
  <2> SUFFICES ASSUME NEW k \in Keys \cup {NoKey}, rows[k] # <<>>
               PROVE  TableAccepts(column, table, rows[k][1])
    BY DEF RowsAccepted
  <2>1. rows[k] = << DefaultCell(column) >> /\ HasDefault(column)
    BY <1>2
  <2>2. TableAccepts(column, table, DefaultCell(column))
    BY <1>1, <2>1, DefaultAccepted
  <2> QED
    BY <2>1, <2>2
<1>4. held = [p \in Programs |-> <<>>]
  BY DEF Init
<1>5. held = [p \in Programs |-> held[p]] /\ HeldRead
  BY <1>4 DEF HeldRead
<1> QED
  BY <1>1, <1>2, <1>3, <1>5 DEF RowsInv

\* A write is of a cell the table takes.
LEMMA WriteInv ==
    ASSUME RowsInv, UNCHANGED <<column, table, held>>,
           NEW k \in Keys \cup {NoKey}, NEW cell, TableAccepts(column, table, cell),
           rows' = [rows EXCEPT ![k] = << cell >>]
    PROVE  RowsInv'
<1>1. rows' = [l \in Keys \cup {NoKey} |-> rows'[l]]
  BY DEF RowsInv
<1>2. \A l \in Keys \cup {NoKey} : rows'[l] = IF l = k THEN << cell >> ELSE rows[l]
  BY DEF RowsInv
<1>3. RowsAccepted'
  <2> SUFFICES ASSUME NEW l \in Keys \cup {NoKey}, rows'[l] # <<>>
               PROVE  TableAccepts(column, table, rows'[l][1])
    BY DEF RowsAccepted
  <2>1. CASE l = k
    BY <1>2, <2>1
  <2>2. CASE l # k
    BY <1>2, <2>2 DEF RowsInv, RowsAccepted
  <2> QED
    BY <2>1, <2>2
<1>4. HeldRead'
  BY DEF RowsInv, HeldRead
<1> QED
  BY <1>1, <1>3, <1>4 DEF RowsInv

LEMMA UnchangedInv ==
    ASSUME RowsInv, UNCHANGED vars
    PROVE  RowsInv'
BY DEF RowsInv, RowsAccepted, HeldRead, vars

LEMMA UpdateInv ==
    ASSUME RowsInv, NEW p \in Programs, NEW k \in Keys, NEW v, NEW s, Update(p, k, v, s)
    PROVE  RowsInv'
<1>1. UNCHANGED <<column, table, held>>
  BY DEF Update
<1>2. CASE p # 0 /\ Mutable(column)
  <2>1. /\ TableAccepts(column, table, CellOf(p, v, s))
        /\ rows' = [rows EXCEPT ![k] = << CellOf(p, v, s) >>]
    BY <1>2 DEF Update
  <2> QED
    BY <1>1, <2>1, WriteInv
<1>3. CASE ~(p # 0 /\ Mutable(column))
  BY <1>1, <1>3, UnchangedInv DEF Update, vars
<1> QED
  BY <1>2, <1>3

LEMMA CreateInv ==
    ASSUME RowsInv, NEW p \in Programs, NEW k \in Keys, NEW v, NEW s, Create(p, k, v, s)
    PROVE  RowsInv'
<1>1. InsertKey(k) \in Keys \cup {NoKey}
  BY DEF InsertKey
<1>2. /\ UNCHANGED <<column, table, held>>
      /\ TableAccepts(column, table, CellOf(p, v, s))
      /\ rows' = [rows EXCEPT ![InsertKey(k)] = << CellOf(p, v, s) >>]
  BY DEF Create
<1> QED
  BY <1>1, <1>2, WriteInv

LEMMA GetInv ==
    ASSUME RowsInv, NEW p \in Programs, NEW k \in Keys, Get(p, k)
    PROVE  RowsInv'
<1> DEFINE cell == rows[k][1]
           read == [key |-> k, value |-> ProtoFromModel(column, p, cell), cell |-> cell]
<1>1. UNCHANGED <<column, table, rows>>
  BY DEF Get
<1>2. held' = [held EXCEPT ![p] = IF Readable(column, p, cell) THEN << read >> ELSE <<>>]
  BY DEF Get
<1>3. held' = [q \in Programs |-> held'[q]]
  BY <1>2 DEF RowsInv
<1>4. \A q \in Programs :
         held'[q] = IF q = p THEN (IF Readable(column, p, cell) THEN << read >> ELSE <<>>)
                    ELSE held[q]
  BY <1>2 DEF RowsInv
<1>5. /\ read.key = k /\ read.cell = cell
      /\ read.value = ProtoFromModel(column, p, cell)
  OBVIOUS
<1> HIDE DEF read, cell
<1>6. HeldRead'
  <2> SUFFICES ASSUME NEW q \in Programs, held'[q] # <<>>
               PROVE  /\ held'[q][1].key \in Keys
                      /\ Readable(column, q, held'[q][1].cell)
                      /\ held'[q][1].value = ProtoFromModel(column, q, held'[q][1].cell)
    BY <1>1 DEF HeldRead
  <2>1. CASE q = p
    <3>1. Readable(column, p, cell) /\ held'[q] = << read >>
      BY <1>4, <2>1
    <3>2. held'[q][1] = read
      BY <3>1
    <3> QED
      BY <1>5, <2>1, <3>1, <3>2
  <2>2. CASE q # p
    BY <1>4, <2>2 DEF RowsInv, HeldRead
  <2> QED
    BY <2>1, <2>2
<1>7. RowsAccepted'
  BY <1>1 DEF RowsInv, RowsAccepted
<1> QED
  BY <1>1, <1>3, <1>6, <1>7 DEF RowsInv

LEMMA MigrateInv ==
    ASSUME RowsInv, Migrate
    PROVE  RowsInv'
<1>1. /\ UNCHANGED <<column, rows, held>> /\ table' = table + 1 /\ table < Newest
      /\ table \in 1..Newest
  BY DEF Migrate, RowsInv
<1>2. table' \in 1..Newest /\ table \in Nat /\ table' \in Nat /\ table <= table'
  BY <1>1, RowsAssumption
<1>3. RowsAccepted'
  <2> SUFFICES ASSUME NEW k \in Keys \cup {NoKey}, rows[k] # <<>>
               PROVE  TableAccepts(column, table', rows[k][1])
    BY <1>1 DEF RowsAccepted
  <2>1. TableAccepts(column, table, rows[k][1])
    BY DEF RowsInv, RowsAccepted
  <2> QED
    BY <1>2, <2>1, AcceptedLater
<1>4. HeldRead'
  BY <1>1 DEF RowsInv, HeldRead
<1> QED
  BY <1>1, <1>2, <1>3, <1>4 DEF RowsInv

LEMMA NextInv == RowsInv /\ [Next]_vars => RowsInv'
<1> SUFFICES ASSUME RowsInv, [Next]_vars PROVE RowsInv'
  OBVIOUS
<1>1. CASE Migrate
  BY <1>1, MigrateInv
<1>2. ASSUME NEW p \in Programs, Request(p)
      PROVE  RowsInv'
  <2>1. CASE \E k \in Keys, v \in Messages(column, p), s \in Clock :
                Create(p, k, v, s) \/ Update(p, k, v, s)
    BY <2>1, CreateInv, UpdateInv
  <2>2. CASE \E k \in Keys : Get(p, k)
    BY <2>2, GetInv
  <2>3. CASE WriteBack(p)
    <3>1. held[p][1].key \in Keys
      BY <2>3 DEF WriteBack, RowsInv, HeldRead
    <3> QED
      BY <2>3, <3>1, UpdateInv DEF WriteBack
  <2> QED
    BY <1>2, <2>1, <2>2, <2>3 DEF Request
<1>3. CASE UNCHANGED vars
  BY <1>3, UnchangedInv
<1> QED
  BY <1>1, <1>2, <1>3 DEF Next

LEMMA InvHolds == Spec => []RowsInv
BY InitInv, NextInv, PTL DEF Spec

---------------------------------------------------------------------------
(* What follows from it *)

\* No row makes the mapper of a program fail that is as new as the table, whatever
\* other releases wrote (writeOneofProtoAssign against oneofKindCheck).
THEOREM RowsRead == Spec => []EveryRowReads
<1>1. RowsInv => EveryRowReads
  <2> SUFFICES ASSUME RowsInv, NEW p \in table..Newest, NEW k \in Keys, rows[k] # <<>>
               PROVE  Readable(column, p, rows[k][1])
    BY DEF EveryRowReads
  <2>1. column \in Tables /\ table \in Nat /\ p \in Nat /\ table <= p
    BY RowsAssumption DEF RowsInv
  <2>2. TableAccepts(column, table, rows[k][1])
    BY DEF RowsInv, RowsAccepted
  <2> QED
    BY <2>1, <2>2, AcceptedReadable
<1> QED
  BY <1>1, InvHolds, PTL

\* The default the generator gives a column passes the check it gives it
\* (inferFieldEncoding, the default alignment).
THEOREM DefaultsFit == Spec => []DefaultsAreAccepted
<1>1. RowsInv => DefaultsAreAccepted
  <2> SUFFICES ASSUME RowsInv, column.default = "zero", NEW t \in 1..Newest
               PROVE  TableAccepts(column, t, DefaultCell(column))
    BY DEF DefaultsAreAccepted
  <2>1. column \in Tables /\ t \in Nat \ {0} /\ HasDefault(column)
    BY RowsAssumption DEF RowsInv, HasDefault
  <2> QED
    BY <2>1, DefaultAccepted
<1> QED
  BY <1>1, InvHolds, PTL

\* The cursor of a list is made of values that are there, of the Go type its codec
\* wants (validateOrderable, codecNameForColumn).
THEOREM CursorsAreTyped == Spec => []CursorsFit
<1>1. RowsInv => CursorsFit
  <2> SUFFICES ASSUME RowsInv, column.orderable
               PROVE  CursorsFit
    BY DEF CursorsFit
  <2>1. OrderableColumn(column)
    BY TableColumns DEF RowsInv
  <2>2. ~column.nullable
    BY <2>1 DEF OrderableColumn
  <2>3. ASSUME NEW k \in DOMAIN rows, rows[k] # <<>>
        PROVE  rows[k][1] # <<>>
    <3>1. k \in Keys \cup {NoKey}
      BY <2>3 DEF RowsInv
    <3>2. TableAccepts(column, table, rows[k][1])
      BY <2>3, <3>1 DEF RowsInv, RowsAccepted
    <3> QED
      BY <2>2, <3>2 DEF TableAccepts
  <2>4. column.nullable = FALSE
    <3>1. PICK f : FieldOK(f) /\ HasKind(f) /\ column = Column(f)
      BY TableColumns DEF RowsInv
    <3>2. column.nullable = Nullable(f)
      BY <3>1 DEF Column
    <3>3. Nullable(f) \in BOOLEAN
      BY DEF Nullable
    <3> QED
      BY <2>2, <3>2, <3>3
  <2>5. JetGoType(column).type = CodecAccepts(column)
    BY <2>1 DEF OrderableColumn, JetGoType, CodecAccepts, JSONBKinds
  <2>6. JetGoType(column) = [pointer |-> FALSE, type |-> JetGoType(column).type]
    <3>1. PICK t : JetGoType(column) = [pointer |-> column.nullable, type |-> t]
      BY DEF JetGoType
    <3>2. JetGoType(column) = [pointer |-> FALSE, type |-> t]
      BY <2>4, <3>1
    <3> QED
      BY <3>2
  <2> QED
    BY <2>3, <2>5, <2>6 DEF CursorsFit
<1> QED
  BY <1>1, InvHolds, PTL

\* A check on names stands on an enum.
LEMMA NamesAreOfEnums ==
    ASSUME NEW c \in Tables, c.check = "names"
    PROVE  c.kind = "EnumAsText" /\ c.type = "enum"
<1>1. PICK f : FieldOK(f) /\ HasKind(f) /\ c = Column(f)
  BY TableColumns
<1>2. c.kind = "EnumAsText"
  BY <1>1, CheckAndDefault
<1>3. Kind(f) = "EnumAsText" /\ c.type = f.type
  BY <1>1, <1>2 DEF Column
<1>4. f.shape = "one"
  <2>1. f.shape \notin {"list", "map"}
    BY <1>1, <1>3, CollectionKind DEF CollectionKinds
  <2>2. f.shape # "oneof"
    BY <1>3 DEF Kind
  <2> QED
    BY <1>1, <2>1, <2>2 DEF FieldOK
<1>5. NativeKind[f.type] = "EnumAsText" /\ f.type \in DOMAIN NativeKind
  BY <1>1, <1>3, <1>4 DEF Kind, FieldOK
<1>6. f.type = "enum"
  BY <1>5 DEF NativeKind
<1> QED
  BY <1>2, <1>3, <1>6

\* A name a program does not know reads as the zero of the enum, and the zero is
\* written with its name.
LEMMA UnknownNameReadsZero ==
    ASSUME NEW c \in Tables, c.check = "names", ~c.nullable, NEW p \in Nat, NEW cell,
           cell # <<>>, ~KnownText(p, cell[1])
    PROVE  /\ ProtoFromModel(c, p, cell) = << 0 >>
           /\ ModelFromProto(c, p, << 0 >>) = << [name |-> 0] >>
<1>1. c.kind = "EnumAsText" /\ c.type = "enum"
  BY NamesAreOfEnums
<1>2. c.kind \notin CollectionKinds
  BY <1>1 DEF CollectionKinds
<1>3. DecodeElement(c, p, cell[1]) = 0
  BY <1>1 DEF DecodeElement, EnumType, NestedType, EnumNumber
<1>4. Decode(c, p, cell[1]) = 0
  BY <1>1, <1>2, <1>3 DEF Decode
<1>5. EncodeElement(c, p, 0) = [name |-> 0]
  BY <1>1 DEF EncodeElement, EnumType, NestedType, EnumText
<1>6. Encode(c, p, 0) = [name |-> 0]
  BY <1>1, <1>2, <1>5 DEF Encode
<1>7. ProtoFromModel(c, p, cell) = << 0 >>
  BY <1>1, <1>4 DEF ProtoFromModel
<1>8. << 0 >> # <<>> /\ << 0 >>[1] = 0
  OBVIOUS
<1>9. ModelFromProto(c, p, << 0 >>) = << [name |-> 0] >>
  BY <1>6, <1>8 DEF ModelFromProto
<1> QED
  BY <1>7, <1>9

\* What an older program reads and writes back at once keeps the choice of a newer
\* one (writeOneofProtoAssign, and the check of renderCreateTable on the enum).
THEOREM ChoicesAreKept == Spec => UnknownChoicesAreKept
<1> DEFINE Keeps(p) ==
       Fresh(p) /\ WriteBack(p) /\ UnknownChoice(p, rows[held[p][1].key][1]) => UNCHANGED rows
<1>1. ASSUME RowsInv, NEW p \in Programs, Fresh(p), WriteBack(p),
             UnknownChoice(p, rows[held[p][1].key][1])
      PROVE  UNCHANGED rows
  <2> DEFINE key == held[p][1].key
             cell == held[p][1].cell
  <2>1. /\ rows[key] = << cell >> /\ key \in Keys /\ p \in Nat
        /\ Readable(column, p, cell)
        /\ held[p][1].value = ProtoFromModel(column, p, cell)
    <3>1. p \in Nat
      BY RowsAssumption DEF Programs
    <3>2. held[p] # <<>> /\ rows[held[p][1].key] = << held[p][1].cell >>
      BY <1>1 DEF Fresh
    <3> QED
      BY <1>1, <3>1, <3>2 DEF RowsInv, HeldRead
  <2>2. column \in Tables /\ rows[key] # <<>> /\ rows[key][1] = cell
    <3> HIDE DEF key, cell
    <3>1. << cell >> # <<>> /\ << cell >>[1] = cell
      OBVIOUS
    <3> QED
      BY <1>1, <2>1, <3>1 DEF RowsInv
  <2>3. TableAccepts(column, table, cell)
    BY <1>1, <2>1, <2>2 DEF RowsInv, RowsAccepted
  <2>4. UnknownChoice(p, cell)
    BY <1>1, <2>2
  <2>5. PICK s \in Clock : Update(p, key, ProtoFromModel(column, p, cell), s)
    BY <1>1, <2>1 DEF WriteBack
  <2> HIDE DEF key, cell
  <2>6. ~(column.kind = "Oneof" /\ cell[1].variant \notin 0..p)
    <3>1. 1..p \subseteq 0..p
      BY <2>1
    <3> QED
      BY <2>1, <3>1 DEF Readable
  <2>7. /\ column.check = "names" /\ ~column.nullable /\ ~column.zero
        /\ ~KnownText(p, cell[1])
    BY <2>4, <2>6 DEF UnknownChoice
  <2>8. cell # <<>>
    BY <2>3, <2>7 DEF TableAccepts
  <2>9. /\ ProtoFromModel(column, p, cell) = << 0 >>
        /\ ModelFromProto(column, p, << 0 >>) = << [name |-> 0] >>
    BY <2>1, <2>2, <2>7, <2>8, UnknownNameReadsZero
  <2>10. CASE p # 0 /\ Mutable(column)
    <3>1. column.kind = "EnumAsText"
      BY <2>2, <2>7, NamesAreOfEnums
    <3>2. CellOf(p, << 0 >>, s) = << [name |-> 0] >>
      BY <2>9, <2>10, <3>1 DEF CellOf, Mutable, Stamped
    <3>3. TableAccepts(column, table, << [name |-> 0] >>)
      BY <2>5, <2>9, <2>10, <3>2 DEF Update
    <3>4. FALSE
      BY <2>7, <3>3 DEF TableAccepts, CheckAccepts
    <3> QED
      BY <3>4
  <2>11. CASE ~(p # 0 /\ Mutable(column))
    BY <2>5, <2>11 DEF Update
  <2> QED
    BY <2>10, <2>11
<1>2. RowsInv /\ [Next]_vars => [\A p \in Programs : Keeps(p)]_vars
  BY <1>1
<1> QED
  BY <1>2, InvHolds, PTL DEF Spec, UnknownChoicesAreKept
---------------------------------------------------------------------------
(* The way in *)

\* An enum with names or a text that must not be empty is nil only if its column can
\* be NULL: the keyword and the option go together in programs that compile.
LEMMA NilIsNullable ==
    ASSUME NEW c \in Tables, c.check \in {"names", "nonempty"}, NEW p \in Nat \ {0},
           <<>> \in Messages(c, p)
    PROVE  c.nullable
<1>1. PICK f \in Fields : ~Skipped(f) /\ Accepted(f) /\ Compiles(f) /\ c = Column(f)
  BY DEF Tables
<1>2. FieldOK(f) /\ HasKind(f)
  BY <1>1, RowsAssumption DEF Accepted, Resolves
<1>3. /\ c.kind = Kind(f) /\ c.nullable = Nullable(f) /\ c.type = f.type
      /\ c.optional = f.optional /\ c.wrapped = f.wrapped /\ c.check = Check(f)
  BY <1>1 DEF Column
<1>4. Kind(f) \in {"Scalar", "EnumAsText"}
  BY <1>1, <1>2, <1>3, CheckAndDefault
<1>5. f.shape = "one"
  <2>1. f.shape \notin {"list", "map"}
    BY <1>2, <1>4, CollectionKind DEF CollectionKinds
  <2>2. f.shape # "oneof"
    BY <1>4 DEF Kind
  <2> QED
    BY <1>2, <2>1, <2>2 DEF FieldOK
<1>6. f.type \in {"enum", "string"}
  <2>1. CASE c.check = "names"
    BY <2>1, <1>3, NamesAreOfEnums
  <2>2. CASE c.check = "nonempty"
    <3>1. "nonempty" \in f.options
      BY <1>3, <2>2 DEF Check
    <3> QED
      BY <1>2, <3>1 DEF FieldOK
  <2> QED
    BY <2>1, <2>2
<1>7. HasPresence(c)
  <2>1. \A x : << x >> # <<>>
    OBVIOUS
  <2> QED
    BY <2>1 DEF Messages
<1>8. f.optional \/ f.wrapped
  BY <1>3, <1>4, <1>6, <1>7 DEF HasPresence
<1>9. CASE f.wrapped
  BY <1>3, <1>5, <1>9 DEF Nullable, Wrapper
<1>10. CASE ~f.wrapped
  <2>1. ~IsMessage(f)
    BY <1>6, <1>10 DEF IsMessage
  <2>2. f.optional = Nullable(f)
    BY <1>1, <1>5, <1>6, <2>1 DEF Compiles
  <2> QED
    BY <1>3, <1>8, <1>10, <2>2
<1> QED
  BY <1>9, <1>10

\* What a check asks of a value it asks of its text: an enum number with a name is
\* written with it, a text as it is, a oneof with its variant.
LEMMA EncodedAccepted ==
    ASSUME NEW c \in Tables, NEW p \in Nat \ {0}, NEW t \in Nat, p <= t, NEW x,
           c.check = "names" => x \in 0..p /\ (x = 0 => c.zero),
           c.check = "nonempty" => x # 0,
           c.kind = "Oneof" => x.variant \in 1..p
    PROVE  CheckAccepts(c, t, << Encode(c, p, x) >>)
<1> DEFINE y == Encode(c, p, x)
<1>1. PICK f : FieldOK(f) /\ HasKind(f) /\ c = Column(f)
  BY TableColumns
<1>2. c.check = "names" => KnownText(t, y) /\ (y.name = 0 => c.zero)
  <2> SUFFICES ASSUME c.check = "names"
               PROVE  KnownText(t, y) /\ (y.name = 0 => c.zero)
    OBVIOUS
  <2>1. c.kind = "EnumAsText" /\ c.type = "enum"
    BY NamesAreOfEnums
  <2>2. EncodeElement(c, p, x) = [name |-> x]
    BY <2>1 DEF EncodeElement, EnumType, NestedType, EnumText
  <2>3. y = [name |-> x]
    BY <2>1, <2>2 DEF Encode, CollectionKinds
  <2>4. x \in 0..t
    OBVIOUS
  <2> QED
    BY <2>3, <2>4 DEF KnownText, Names
<1>3. c.check = "nonempty" => y # 0
  <2> SUFFICES ASSUME c.check = "nonempty"
               PROVE  y # 0
    OBVIOUS
  <2>1. c.kind = "Scalar"
    BY <1>1, CheckAndDefault
  <2>2. c.type = "string"
    <3>1. Check(f) = "nonempty" /\ c.type = f.type
      BY <1>1 DEF Column
    <3>2. "nonempty" \in f.options
      BY <3>1 DEF Check
    <3> QED
      BY <1>1, <3>1, <3>2 DEF FieldOK
  <2>3. EncodeElement(c, p, x) = x
    BY <2>2 DEF EncodeElement, EnumType, NestedType
  <2>4. y = x
    BY <2>1, <2>3 DEF Encode, CollectionKinds
  <2> QED
    BY <2>4
<1>4. c.check = "variants" => y.variant \in 1..t
  <2> SUFFICES ASSUME c.check = "variants"
               PROVE  y.variant \in 1..t
    OBVIOUS
  <2>1. c.kind = "Oneof"
    BY <1>1, CheckAndDefault
  <2>2. y = [variant |-> x.variant, json |-> << EncodeElement(c, p, x.value) >>]
    BY <2>1 DEF Encode, CollectionKinds
  <2>3. x.variant \in 1..t
    BY <2>1
  <2> QED
    BY <2>2, <2>3
<1>5. 1..t \subseteq 0..t
  OBVIOUS
<1> HIDE DEF y
<1>6. << y >> # <<>> /\ << y >>[1] = y
  OBVIOUS
<1>7. CheckAccepts(c, t, << y >>)
  BY <1>2, <1>3, <1>4, <1>5, <1>6 DEF CheckAccepts
<1> QED
  BY <1>7 DEF y

\* A message the mapper converts is refused by the table only for what its author
\* ruled out, or for an enum number without a name (writeModelAssignFromProto,
\* writeNullableModelAssign against renderCreateTable).
THEOREM RefusalsAreNamed == Spec => []OnlyNamedRefusals
<1>1. RowsInv => OnlyNamedRefusals
  <2> SUFFICES ASSUME RowsInv, NEW p \in 1..table, NEW v \in Messages(column, p),
                      Convertible(column, v), Named(p, v)
               PROVE  TableAccepts(column, table, ModelFromProto(column, p, v))
    BY DEF OnlyNamedRefusals
  <2>1. column \in Tables /\ table \in Nat /\ p \in Nat \ {0} /\ p <= table
    BY RowsAssumption DEF RowsInv
  <2>2. PICK f : FieldOK(f) /\ HasKind(f) /\ column = Column(f)
    BY <2>1, TableColumns
  <2>3. /\ column.kind = "Oneof" => column.check = "variants" /\ ~column.nullable
        /\ column.check = "variants" => column.kind = "Oneof"
    BY <2>2, CheckAndDefault
  <2>4. CASE column.nullable /\ Absent(column, v)
    BY <2>4 DEF ModelFromProto, TableAccepts, CheckAccepts
  <2>5. CASE ~column.nullable /\ v = <<>>
    <3>1. ModelFromProto(column, p, v) = << Empty(column) >>
      BY <2>5 DEF ModelFromProto
    <3>2. column.check \notin {"names", "nonempty"}
      BY <2>1, <2>5, NilIsNullable
    <3>3. column.check = "variants" =>
             column.optional /\ Empty(column) = [variant |-> 0, json |-> <<>>]
      BY <2>3, <2>5 DEF Convertible, Empty, CollectionKinds
    <3> DEFINE y == Empty(column)
    <3>4. column.check = "variants" =>
             y.variant \in (IF column.optional THEN 0..table ELSE 1..table)
      BY <2>1, <3>3
    <3> HIDE DEF y
    <3>5. << y >>[1] = y
      OBVIOUS
    <3>6. CheckAccepts(column, table, << y >>)
      BY <3>2, <3>4, <3>5 DEF CheckAccepts
    <3> QED
      BY <3>1, <3>6 DEF TableAccepts, y
  <2>6. CASE v # <<>> /\ ~(column.nullable /\ Absent(column, v))
    <3>1. ModelFromProto(column, p, v) = << Encode(column, p, v[1]) >>
      BY <2>6 DEF ModelFromProto
    <3>2. PICK x \in Contents(column, p) : v = << x >>
      BY <2>1, <2>6 DEF Messages
    <3>3. v[1] = x
      BY <3>2
    <3>4. /\ column.check = "names" => x \in 0..p /\ (x = 0 => column.zero)
          /\ column.check = "nonempty" => x # 0
      BY <2>6, <3>3 DEF Named
    <3>5. column.kind = "Oneof" => x.variant \in 1..p
      BY <3>2 DEF Contents, WrappedBytes, MapKinds, CollectionKinds
    <3>6. CheckAccepts(column, table, << Encode(column, p, x) >>)
      BY <2>1, <3>4, <3>5, EncodedAccepted
    <3> QED
      BY <3>1, <3>3, <3>6 DEF TableAccepts
  <2> QED
    BY <2>4, <2>5, <2>6 DEF Absent
<1> QED
  BY <1>1, InvHolds, PTL

---------------------------------------------------------------------------
(* Lists *)

\* g[n] is what a loop that keeps the elements of S has after n elements of s.
Loop(g, s, S, m) ==
    g = [n \in 0..m |-> IF n = 0 THEN <<>>
                        ELSE IF s[n] \in S THEN Append(g[n - 1], s[n]) ELSE g[n - 1]]

LEMMA LoopExists ==
    ASSUME NEW s, NEW S, NEW m \in Nat
    PROVE  \E g : Loop(g, s, S, m)
<1> DEFINE T == { k \in Nat : ~\E g : Loop(g, s, S, k) }
<1> SUFFICES ASSUME T # {} PROVE FALSE
  OBVIOUS
<1>1. PICK k \in T : \A y \in T : k <= y
  BY NatLeast
<1>2. k # 0
  <2>1. Loop([n \in 0..0 |-> <<>>], s, S, 0)
    BY DEF Loop
  <2> QED
    BY <2>1
<1>3. k - 1 \in Nat /\ k - 1 \notin T
  BY <1>1, <1>2
<1>4. PICK g : Loop(g, s, S, k - 1)
  BY <1>3
<1> DEFINE last == IF s[k] \in S THEN Append(g[k - 1], s[k]) ELSE g[k - 1]
           h == [n \in 0..k |-> IF n = k THEN last ELSE g[n]]
<1>5. Loop(h, s, S, k)
  <2>1. \A n \in 0..(k - 1) :
           g[n] = IF n = 0 THEN <<>>
                  ELSE IF s[n] \in S THEN Append(g[n - 1], s[n]) ELSE g[n - 1]
    BY <1>4 DEF Loop
  <2>2. \A n \in 0..k :
           h[n] = IF n = 0 THEN <<>>
                  ELSE IF s[n] \in S THEN Append(h[n - 1], s[n]) ELSE h[n - 1]
    BY <2>1, <1>2, <1>3
  <2> QED
    BY <2>2 DEF Loop
<1> QED
  BY <1>5

\* The loop, step by step.
LEMMA KeptSteps ==
    ASSUME NEW s, NEW S, Len(s) \in Nat
    PROVE  \E g : /\ g[0] = <<>>
                  /\ \A n \in 1..Len(s) :
                        g[n] = IF s[n] \in S THEN Append(g[n - 1], s[n]) ELSE g[n - 1]
                  /\ Kept(s, S) = g[Len(s)]
<1> DEFINE f == CHOOSE g : Loop(g, s, S, Len(s))
<1>1. Loop(f, s, S, Len(s))
  BY LoopExists
<1>2. Kept(s, S) = f[Len(s)]
  BY DEF Kept, Loop
<1> HIDE DEF f
<1>3. \A n \in 0..Len(s) :
         f[n] = IF n = 0 THEN <<>>
                ELSE IF s[n] \in S THEN Append(f[n - 1], s[n]) ELSE f[n - 1]
  BY <1>1 DEF Loop
<1>4. f[0] = <<>> /\ \A n \in 1..Len(s) :
         f[n] = IF s[n] \in S THEN Append(f[n - 1], s[n]) ELSE f[n - 1]
  BY <1>3
<1> QED
  BY <1>2, <1>4

\* Nothing is kept of nothing.
LEMMA KeptEmpty ==
    ASSUME NEW S
    PROVE  Kept(<<>>, S) = <<>>
<1>1. Len(<<>>) = 0
  OBVIOUS
<1> QED
  BY <1>1, KeptSteps

\* One element more is kept or not.
LEMMA KeptAppend ==
    ASSUME NEW E, NEW s \in Seq(E), NEW e \in E, NEW S
    PROVE  Kept(Append(s, e), S) = IF e \in S THEN Append(Kept(s, S), e) ELSE Kept(s, S)
<1> DEFINE t == Append(s, e)
           m == Len(s)
<1>1. /\ m \in Nat /\ Len(t) = m + 1 /\ t[m + 1] = e
      /\ \A n \in 1..m : t[n] = s[n]
  OBVIOUS
<1> HIDE DEF t, m
<1>2. PICK g : /\ g[0] = <<>>
               /\ \A n \in 1..m :
                     g[n] = IF s[n] \in S THEN Append(g[n - 1], s[n]) ELSE g[n - 1]
               /\ Kept(s, S) = g[m]
  BY <1>1, KeptSteps DEF m
<1>3. Len(t) \in Nat
  BY <1>1
<1>4. PICK h : /\ h[0] = <<>>
               /\ \A n \in 1..Len(t) :
                     h[n] = IF t[n] \in S THEN Append(h[n - 1], t[n]) ELSE h[n - 1]
               /\ Kept(t, S) = h[Len(t)]
  BY <1>3, KeptSteps
<1>5. \A n \in 0..m : g[n] = h[n]
  <2> DEFINE D == { n \in 0..m : g[n] # h[n] }
  <2> SUFFICES ASSUME D # {} PROVE FALSE
    OBVIOUS
  <2>1. D \subseteq Nat
    BY <1>1
  <2>2. PICK n \in D : \A y \in D : n <= y
    BY <2>1, NatLeast
  <2>3. n \in 1..m /\ n - 1 \in 0..m /\ n - 1 \notin D
    BY <1>1, <1>2, <1>4, <2>2
  <2>4. g[n - 1] = h[n - 1]
    BY <2>3
  <2>5. n \in 1..Len(t) /\ t[n] = s[n]
    BY <1>1, <2>3
  <2>6. g[n] = IF s[n] \in S THEN Append(g[n - 1], s[n]) ELSE g[n - 1]
    BY <1>2, <2>3
  <2>7. h[n] = IF t[n] \in S THEN Append(h[n - 1], t[n]) ELSE h[n - 1]
    BY <1>4, <2>5
  <2>8. g[n] = h[n]
    BY <2>4, <2>5, <2>6, <2>7
  <2> QED
    BY <2>8
<1>6. h[m + 1] = IF t[m + 1] \in S THEN Append(h[m], t[m + 1]) ELSE h[m]
  <2>1. m + 1 \in 1..Len(t) /\ (m + 1) - 1 = m
    BY <1>1
  <2> QED
    BY <1>4, <2>1
<1>7. m \in 0..m
  BY <1>1
<1> QED
  BY <1>1, <1>2, <1>4, <1>5, <1>6, <1>7 DEF t

\* A sequence that is not empty has a last element.
LEMMA SeqSplits ==
    ASSUME NEW E, NEW s \in Seq(E), NEW m \in Nat, Len(s) = m + 1
    PROVE  \E r \in Seq(E), e \in E : Len(r) = m /\ s = Append(r, e)
<1> DEFINE r == [n \in 1..m |-> s[n]]
<1>1. s = [n \in 1..(m + 1) |-> s[n]] /\ \A n \in 1..(m + 1) : s[n] \in E
  BY LenProperties, ElementOfSeq
<1>2. r \in Seq(E) /\ Len(r) = m
  <2>1. r \in [1..m -> E]
    BY <1>1
  <2> QED
    BY <2>1, SeqDef
<1>3. \A n \in 1..m : r[n] = s[n]
  OBVIOUS
<1> HIDE DEF r
<1>4. s[m + 1] \in E
  BY <1>1
<1>5. s = Append(r, s[m + 1])
  <2>1. Append(r, s[m + 1]) \in Seq(E) /\ Len(Append(r, s[m + 1])) = m + 1
    BY <1>2, <1>4, AppendProperties
  <2>2. \A n \in 1..(m + 1) : Append(r, s[m + 1])[n] = s[n]
    BY <1>2, <1>3, <1>4
  <2> QED
    BY <2>1, <2>2, SeqEqual
<1> QED
  BY <1>2, <1>4, <1>5

\* A loop over a list, by induction over its length: P is the set of the lists that
\* have what is to be shown.
LEMMA ListInduction ==
    ASSUME NEW E, NEW P, <<>> \in P,
           \A r \in Seq(E), e \in E : r \in P => Append(r, e) \in P
    PROVE  Seq(E) \subseteq P
<1> DEFINE T == { m \in Nat : \E s \in Seq(E) : Len(s) = m /\ s \notin P }
<1>1. ASSUME T # {} PROVE FALSE
  <2>1. PICK m \in T : \A y \in T : m <= y
    BY <1>1, NatLeast
  <2>2. PICK s \in Seq(E) : Len(s) = m /\ s \notin P
    OBVIOUS
  <2>3. m # 0
    <3>1. Len(s) = 0 => s = <<>>
      OBVIOUS
    <3> QED
      BY <2>2, <3>1
  <2>4. m - 1 \in Nat /\ m - 1 \notin T /\ Len(s) = (m - 1) + 1
    BY <2>1, <2>2, <2>3
  <2>5. PICK r \in Seq(E), e \in E : Len(r) = m - 1 /\ s = Append(r, e)
    BY <2>4, SeqSplits
  <2>6. r \in P
    BY <2>4, <2>5
  <2> QED
    BY <2>2, <2>5, <2>6
<1>2. \A s \in Seq(E) : Len(s) \in Nat
  OBVIOUS
<1> QED
  BY <1>1, <1>2

\* What is kept is among what there was.
LEMMA KeptSome ==
    ASSUME NEW E, NEW s \in Seq(E), NEW S
    PROVE  Kept(s, S) \in Seq(E \cap S) /\ Len(Kept(s, S)) <= Len(s)
<1> DEFINE P == { r \in Seq(E) : Kept(r, S) \in Seq(E \cap S) /\ Len(Kept(r, S)) <= Len(r) }
<1>1. <<>> \in P
  <2>1. <<>> \in Seq(E) /\ <<>> \in Seq(E \cap S) /\ Len(<<>>) <= Len(<<>>)
    BY EmptySeq
  <2> QED
    BY <2>1, KeptEmpty
<1>2. ASSUME NEW r \in Seq(E), NEW e \in E, r \in P
      PROVE  Append(r, e) \in P
  <2> DEFINE k == Kept(r, S)
             l == Kept(Append(r, e), S)
  <2>1. l = IF e \in S THEN Append(k, e) ELSE k
    BY KeptAppend
  <2>2. k \in Seq(E \cap S) /\ Len(k) <= Len(r) /\ Len(k) \in Nat
    BY <1>2
  <2>3. Append(r, e) \in Seq(E) /\ Len(Append(r, e)) = Len(r) + 1 /\ Len(r) \in Nat
    OBVIOUS
  <2> HIDE DEF k
  <2>4. e \in S => Append(k, e) \in Seq(E \cap S) /\ Len(Append(k, e)) = Len(k) + 1
    BY <2>2, AppendProperties
  <2>5. l \in Seq(E \cap S) /\ Len(l) <= Len(Append(r, e))
    BY <2>1, <2>2, <2>3, <2>4
  <2> QED
    BY <2>3, <2>5
<1> HIDE DEF P
<1>3. s \in P
  BY <1>1, <1>2, ListInduction
<1> QED
  BY <1>3 DEF P

\* A narrower choice from a wider one.
LEMMA KeptTwice ==
    ASSUME NEW E, NEW s \in Seq(E), NEW S, NEW T, T \subseteq S
    PROVE  Kept(Kept(s, S), T) = Kept(s, T)
<1> DEFINE P == { r \in Seq(E) : Kept(Kept(r, S), T) = Kept(r, T) }
<1>1. <<>> \in P
  <2>1. <<>> \in Seq(E)
    BY EmptySeq
  <2> QED
    BY <2>1, KeptEmpty
<1>2. ASSUME NEW r \in Seq(E), NEW e \in E, r \in P
      PROVE  Append(r, e) \in P
  <2> DEFINE k == Kept(r, S)
  <2>1. k \in Seq(E)
    <3>1. k \in Seq(E \cap S)
      BY KeptSome
    <3>2. E \cap S \subseteq E
      OBVIOUS
    <3> QED
      BY <3>1, <3>2, SeqMonotonic
  <2>2. Kept(Append(r, e), S) = IF e \in S THEN Append(k, e) ELSE k
    BY KeptAppend
  <2>3. Kept(Append(r, e), T) = IF e \in T THEN Append(Kept(r, T), e) ELSE Kept(r, T)
    BY KeptAppend
  <2>4. Kept(k, T) = Kept(r, T)
    BY <1>2
  <2> HIDE DEF k
  <2>5. Kept(Append(k, e), T) = IF e \in T THEN Append(Kept(k, T), e) ELSE Kept(k, T)
    BY <2>1, KeptAppend
  <2>6. Kept(Kept(Append(r, e), S), T) = Kept(Append(r, e), T)
    BY <2>2, <2>3, <2>4, <2>5
  <2> QED
    BY <2>6
<1> HIDE DEF P
<1>3. s \in P
  BY <1>1, <1>2, ListInduction
<1> QED
  BY <1>3 DEF P

\* Each element of a list on its own.
Each(f, s) == [i \in DOMAIN s |-> f[s[i]]]

LEMMA EachIsSeq ==
    ASSUME NEW E, NEW F, NEW f, \A x \in E : f[x] \in F, NEW s \in Seq(E)
    PROVE  Each(f, s) \in Seq(F) /\ Len(Each(f, s)) = Len(s)
<1>1. Len(s) \in Nat /\ DOMAIN s = 1..Len(s) /\ \A i \in 1..Len(s) : s[i] \in E
  BY LenProperties, ElementOfSeq
<1>2. Each(f, s) \in [1..Len(s) -> F]
  BY <1>1 DEF Each
<1> QED
  BY <1>1, <1>2, SeqDef

LEMMA EachAppend ==
    ASSUME NEW E, NEW f, NEW s \in Seq(E), NEW e \in E
    PROVE  Each(f, Append(s, e)) = Append(Each(f, s), f[e])
<1> DEFINE F == { f[x] : x \in E }
           a == Each(f, s)
           b == Each(f, Append(s, e))
<1>1. Len(s) \in Nat /\ DOMAIN s = 1..Len(s) /\ \A i \in 1..Len(s) : s[i] \in E
  BY LenProperties, ElementOfSeq
<1>2. Append(s, e) \in Seq(E) /\ Len(Append(s, e)) = Len(s) + 1
  BY AppendProperties
<1>3. /\ DOMAIN Append(s, e) = 1..(Len(s) + 1)
      /\ \A i \in 1..(Len(s) + 1) : Append(s, e)[i] = IF i = Len(s) + 1 THEN e ELSE s[i]
  <2>1. Append(s, e) \in [1..(Len(s) + 1) -> E]
    BY <1>2, LenProperties
  <2>2. \A i \in 1..Len(s) : Append(s, e)[i] = s[i]
    OBVIOUS
  <2>3. Append(s, e)[Len(s) + 1] = e
    OBVIOUS
  <2> QED
    BY <1>1, <2>1, <2>2, <2>3
<1>4. a \in [1..Len(s) -> F] /\ \A i \in 1..Len(s) : a[i] = f[s[i]]
  BY <1>1 DEF Each
<1>5. a \in Seq(F) /\ Len(a) = Len(s)
  BY <1>1, <1>4, SeqDef
<1>6. b \in [1..(Len(s) + 1) -> F]
      /\ \A i \in 1..(Len(s) + 1) : b[i] = IF i = Len(s) + 1 THEN f[e] ELSE f[s[i]]
  BY <1>1, <1>3 DEF Each
<1>7. b \in Seq(F) /\ Len(b) = Len(s) + 1
  <2>1. Len(s) + 1 \in Nat
    BY <1>1
  <2> QED
    BY <1>6, <2>1, SeqDef
<1> DEFINE d == f[e]
<1>8. d \in F
  OBVIOUS
<1> HIDE DEF a, b, d, F
<1>9. Append(a, d) \in Seq(F) /\ Len(Append(a, d)) = Len(s) + 1
  BY <1>5, <1>8, AppendProperties
<1>10. \A i \in 1..(Len(s) + 1) : Append(a, d)[i] = IF i = Len(s) + 1 THEN d ELSE a[i]
  <2>1. \A i \in 1..Len(s) : Append(a, d)[i] = a[i]
    BY <1>5, <1>8
  <2>2. Append(a, d)[Len(s) + 1] = d
    BY <1>5, <1>8
  <2>3. \A i \in 1..(Len(s) + 1) : i # Len(s) + 1 => i \in 1..Len(s)
    BY <1>1
  <2>4. \A i \in 1..Len(s) : i # Len(s) + 1
    BY <1>1

  <2> QED
    BY <2>1, <2>2, <2>3, <2>4
<1>11. b = Append(a, d)
  <2>1. \A i \in 1..(Len(s) + 1) : b[i] = Append(a, d)[i]
    BY <1>1, <1>4, <1>6, <1>10 DEF d
  <2> QED
    BY <1>7, <1>9, <2>1, SeqEqual
<1> QED
  BY <1>11 DEF a, b, d

\* What is kept of the images is the images of what is kept.
LEMMA KeptEach ==
    ASSUME NEW E, NEW s \in Seq(E), NEW f, NEW S, NEW T,
           \A x \in E : f[x] \in T <=> x \in S
    PROVE  Kept(Each(f, s), T) = Each(f, Kept(s, S))
<1> DEFINE P == { r \in Seq(E) : Kept(Each(f, r), T) = Each(f, Kept(r, S)) }
<1>1. <<>> \in P
  <2>1. <<>> \in Seq(E)
    BY EmptySeq
  <2>2. Each(f, <<>>) = <<>>
    BY DEF Each
  <2> QED
    BY <2>1, <2>2, KeptEmpty
<1>2. ASSUME NEW r \in Seq(E), NEW e \in E, r \in P
      PROVE  Append(r, e) \in P
  <2> DEFINE k == Kept(r, S)
             d == f[e]
             F == { f[x] : x \in E }
             b == Each(f, r)
  <2>1. k \in Seq(E)
    <3>1. k \in Seq(E \cap S)
      BY KeptSome
    <3>2. E \cap S \subseteq E
      OBVIOUS
    <3> QED
      BY <3>1, <3>2, SeqMonotonic
  <2>2. Kept(Append(r, e), S) = IF e \in S THEN Append(k, e) ELSE k
    BY KeptAppend
  <2>3. b \in Seq(F) /\ d \in F
    <3>1. \A x \in E : f[x] \in F
      OBVIOUS
    <3> HIDE DEF F, P
    <3> QED
      BY <3>1, EachIsSeq
  <2>4. Each(f, Append(r, e)) = Append(b, d)
    BY EachAppend
  <2>5. Kept(b, T) = Each(f, k)
    BY <1>2
  <2>6. d \in T <=> e \in S
    OBVIOUS
  <2>7. Each(f, Append(k, e)) = Append(Each(f, k), d)
    <3> HIDE DEF k, P, b, F
    <3> QED
      BY <2>1, EachAppend
  <2> HIDE DEF k, d, F, b
  <2>8. Kept(Append(b, d), T) = IF d \in T THEN Append(Kept(b, T), d) ELSE Kept(b, T)
    BY <2>3, KeptAppend
  <2>9. Kept(Each(f, Append(r, e)), T) = Each(f, Kept(Append(r, e), S))
    BY <2>2, <2>4, <2>5, <2>6, <2>7, <2>8
  <2> QED
    BY <2>9
<1> HIDE DEF P
<1>3. s \in P
  BY <1>1, <1>2, ListInduction
<1> QED
  BY <1>3 DEF P

---------------------------------------------------------------------------
(* What the columns of a table are *)

\* How the kind, the type and the rest of a column hang together (inferFieldEncoding,
\* inferMapEncoding, resolveOneof).
Shaped(c) ==
    /\ c.type \in DOMAIN NativeKind
    /\ c.kind \in CollectionKinds \cup
                  {"Scalar", "EnumAsText", "Timestamp", "Duration", "JSONBProto", "Oneof"}
    /\ c.wrapped \in BOOLEAN
    /\ c.wrapped => c.type \in WrappedTypes
    /\ c.kind = "Scalar" => c.type \in WrappedTypes
    /\ c.kind \in {"EnumAsText", "RepeatedEnum"} => c.type = "enum"
    /\ c.kind \in {"Timestamp", "RepeatedTimestamp"} => c.type = "timestamp"
    /\ c.kind = "Duration" => c.type = "duration"
    /\ c.kind = "JSONBProto" => c.type = "message"
    /\ c.type = "message" => JSONB(c)
    /\ c.type = "timestamp" => c.kind \in {"Timestamp", "RepeatedTimestamp"} \/ JSONB(c)
    /\ c.type = "duration" => c.kind \in {"Duration", "RepeatedPrimitive"} \/ JSONB(c)

LEMMA ColumnsAreShaped ==
    ASSUME NEW c \in Tables
    PROVE  Shaped(c)
<1>1. PICK f : FieldOK(f) /\ HasKind(f) /\ c = Column(f)
  BY TableColumns
<1>2. c.kind = Kind(f) /\ c.type = f.type /\ c.wrapped = f.wrapped
  BY <1>1 DEF Column
<1>3. /\ c.type \in DOMAIN NativeKind /\ c.wrapped \in BOOLEAN
      /\ c.wrapped => c.type \in WrappedTypes
  BY <1>1, <1>2 DEF FieldOK
<1>4. CASE f.shape = "one"
  <2>1. c.kind = NativeKind[c.type]
    BY <1>2, <1>4 DEF Kind
  <2> QED
    BY <1>3, <2>1 DEF Shaped, NativeKind, WrappedTypes, JSONB, JSONBKinds
<1>5. CASE f.shape = "list"
  <2>1. ElementType(f) \in DOMAIN RepeatedKind /\ c.kind = RepeatedKind[ElementType(f)]
    BY <1>1, <1>2, <1>5 DEF Kind, HasKind
  <2>2. ElementType(f) = IF c.wrapped THEN "message" ELSE c.type
    BY <1>2 DEF ElementType
  <2> QED
    BY <1>3, <2>1, <2>2 DEF Shaped, RepeatedKind, WrappedTypes, JSONB, JSONBKinds, CollectionKinds
<1>6. CASE f.shape = "map"
  <2>1. ElementType(f) \in DOMAIN MapKind
    BY <1>1, <1>6 DEF HasKind
  <2>2. ElementType(f) = IF c.wrapped THEN "message" ELSE c.type
    BY <1>2 DEF ElementType
  <2>3. c.kind = MapKind[ElementType(f)] \/ (c.kind = "JSONBStrMap" /\ c.type = "string")
    BY <1>2, <1>6 DEF Kind
  <2> QED
    BY <1>3, <2>1, <2>2, <2>3
    DEF Shaped, MapKind, WrappedTypes, JSONB, JSONBKinds, CollectionKinds
<1>7. CASE f.shape = "oneof"
  <2>1. c.kind = "Oneof" /\ ~c.wrapped
    BY <1>1, <1>2, <1>7 DEF Kind, FieldOK
  <2> QED
    BY <1>3, <2>1 DEF Shaped, JSONB
<1> QED
  BY <1>1, <1>4, <1>5, <1>6, <1>7 DEF FieldOK

\* A field that can be nil has a column that can be NULL, but for the kinds that have
\* an empty value of their own (validateNullable; protoc-gen-go makes it a pointer).
LEMMA NilEnumIsNullable ==
    ASSUME NEW c \in Tables, c.kind = "EnumAsText", HasPresence(c)
    PROVE  c.nullable
<1>1. PICK f \in Fields : ~Skipped(f) /\ Accepted(f) /\ Compiles(f) /\ c = Column(f)
  BY DEF Tables
<1>2. FieldOK(f) /\ HasKind(f)
  BY <1>1, RowsAssumption DEF Accepted, Resolves
<1>3. /\ c.kind = Kind(f) /\ c.nullable = Nullable(f) /\ c.type = f.type
      /\ c.optional = f.optional /\ c.wrapped = f.wrapped
  BY <1>1 DEF Column
<1>4. f.shape = "one"
  <2>1. f.shape \notin {"list", "map"}
    BY <1>2, <1>3, CollectionKind DEF CollectionKinds
  <2>2. f.shape # "oneof"
    BY <1>3 DEF Kind
  <2> QED
    BY <1>2, <2>1, <2>2 DEF FieldOK
<1>5. c.type = "enum" /\ ~c.wrapped
  <2>1. Shaped(c)
    BY ColumnsAreShaped
  <2> QED
    BY <2>1 DEF Shaped, WrappedTypes
<1>6. f.optional /\ ~IsMessage(f)
  BY <1>3, <1>5 DEF HasPresence, IsMessage
<1> QED
  BY <1>1, <1>3, <1>4, <1>5, <1>6 DEF Compiles

\* A wrapper can be NULL.
LEMMA WrapperIsNullable ==
    ASSUME NEW c \in Tables, WrappedBytes(c)
    PROVE  c.nullable
<1>1. PICK f : FieldOK(f) /\ HasKind(f) /\ c = Column(f)
  BY TableColumns
<1>2. c.kind = Kind(f) /\ c.nullable = Nullable(f) /\ c.wrapped = f.wrapped
  BY <1>1 DEF Column
<1>3. f.shape \notin {"list", "map", "oneof"}
  BY <1>1, <1>2, CollectionKind DEF CollectionKinds, WrappedBytes, Kind
<1>4. f.shape = "one" /\ f.wrapped
  BY <1>1, <1>2, <1>3 DEF FieldOK, WrappedBytes
<1> QED
  BY <1>2, <1>4 DEF Nullable, Wrapper

---------------------------------------------------------------------------
(* Elements *)

\* int32(uint32(v)) is v (writeModelAssignFromProto and back).
LEMMA SameBits ==
    ASSUME NEW v \in 0..(Word - 1)
    PROVE  Unsigned(Signed(v)) = v /\ Unsigned(v) = v
<1>1. Word \in Nat \ {0} /\ v \in Nat /\ v < Word
  BY MapperAssumption
<1>2. \A a \in Int : a = Word * (a \div Word) + (a % Word) /\ a % Word \in 0..(Word - 1)
                     /\ a \div Word \in Int
  BY <1>1
<1>3. \A a \in Int, b \in Int : a = Word * b + v => a % Word = v
  <2> SUFFICES ASSUME NEW a \in Int, NEW b \in Int, a = Word * b + v
               PROVE  a % Word = v
    OBVIOUS
  <2> DEFINE d == a \div Word
             m == a % Word
  <2>1. a = Word * d + m /\ m \in 0..(Word - 1) /\ d \in Int
    BY <1>2
  <2> HIDE DEF d, m
  <2>2. Word * (b - d) = m - v
    BY <1>1, <2>1
  <2>3. m - v < Word /\ -Word < m - v /\ m - v \in Int
    BY <1>1, <2>1
  <2>4. b - d = 0
    <3>1. b - d >= 1 => Word * (b - d) >= Word
      BY <1>1, <2>1
    <3>2. b - d <= -1 => Word * (b - d) <= -Word
      BY <1>1, <2>1
    <3>3. b - d \in Int
      BY <2>1
    <3> QED
      BY <1>1, <2>2, <2>3, <3>1, <3>2, <3>3
  <2> QED
    BY <1>1, <2>1, <2>2, <2>4 DEF m
<1>4. v % Word = v
  BY <1>1, <1>3
<1>5. (v - Word) % Word = v
  <2>1. v - Word = Word * (-1) + v /\ v - Word \in Int
    BY <1>1
  <2> QED
    BY <1>3, <2>1
<1> QED
  BY <1>4, <1>5 DEF Unsigned, Signed

\* An element as a column holds it: a column of times has fewer digits, one of
\* durations has its bounds.
Tick(x) ==
    CASE column.type = "timestamp" /\ ~JSONB(column) -> TableTime(column, x)
      [] column.type = "duration" /\ ~JSONB(column)  -> AsDuration(x)
      [] OTHER -> x

LEMMA SameBounds ==
    \A x : Store!Bounded(x) = AsDuration(x)
BY DEF Store!Bounded, AsDuration

\* What a program writes the newest one reads, as the store knows it.
LEMMA ElementStored ==
    ASSUME column \in Tables, NEW q \in 1..Newest, NEW x \in Values(column, q)
    PROVE  DecodeElement(column, Newest, EncodeElement(column, q, x))
              = Tick(Store!KnownElement(q, x))
<1> DEFINE e == EncodeElement(column, q, x)
           d == DecodeElement(column, Newest, e)
<1>0. Newest \in Nat /\ q \in Nat \ {0} /\ q <= Newest /\ 0..q \subseteq 0..Newest
  BY RowsAssumption
<1>1. CASE EnumType(column)
  <2>1. column.type = "enum"
    BY <1>1 DEF EnumType
  <2>2. e = EnumText(q, x)
    BY <2>1 DEF EncodeElement, EnumType, NestedType
  <2>3. d = EnumNumber(Newest, e)
    BY <2>1 DEF DecodeElement, EnumType, NestedType
  <2>4. Store!KnownElement(q, x) = IF x \in 0..q THEN x ELSE 0
    BY <2>1 DEF Store!KnownElement
  <2>5. CASE x \in 0..q
    <3>1. e = [name |-> x] /\ x \in 0..Newest
      BY <1>0, <2>2, <2>5 DEF EnumText
    <3>2. e \in Names(Newest) /\ e.name = x
      BY <3>1 DEF Names
    <3> QED
      BY <2>1, <2>3, <2>4, <2>5, <3>2 DEF EnumNumber, KnownText, Tick
  <2>6. CASE x \notin 0..q
    <3>1. e = [digits |-> x]
      BY <2>2, <2>6 DEF EnumText
    <3>2. e \notin Names(Newest)
      <4>1. \A n : [digits |-> x] # [name |-> n]
        <5>1. \A n : DOMAIN [digits |-> x] # DOMAIN [name |-> n]
          OBVIOUS
        <5> QED
          BY <5>1
      <4> QED
        BY <3>1, <4>1 DEF Names
    <3> QED
      BY <2>1, <2>3, <2>4, <2>6, <3>2 DEF EnumNumber, KnownText, Tick
  <2> QED
    BY <2>5, <2>6
<1>2. CASE NestedType(column)
  <2>1. column.type = "message" /\ ~column.wrapped
    BY <1>2 DEF NestedType
  <2>2. e = x \cap (1..q) /\ d = e \cap (1..Newest)
    BY <1>2, <2>1 DEF EncodeElement, DecodeElement, EnumType
  <2>3. Store!KnownElement(q, x) = x \cap (1..q)
    BY <2>1 DEF Store!KnownElement
  <2>4. 1..q \subseteq 1..Newest
    BY <1>0
  <2>5. d = x \cap (1..q)
    BY <2>2, <2>4
  <2> QED
    BY <2>1, <2>3, <2>5 DEF Tick
<1>3. CASE ~EnumType(column) /\ ~NestedType(column)
  <2>1. Store!KnownElement(q, x) = x
    BY <1>3 DEF Store!KnownElement, EnumType, NestedType
  <2>2. CASE column.type = "uint" /\ ~JSONB(column)
    <3>1. x \in 0..(Word - 1)
      BY <1>3, <2>2, ElementsAssumption DEF Values
    <3>2. e = Signed(x) /\ d = Unsigned(e)
      BY <1>3, <2>2 DEF EncodeElement, DecodeElement
    <3> QED
      BY <2>1, <2>2, <3>1, <3>2, SameBits DEF Tick
  <2>3. CASE ~(column.type = "uint" /\ ~JSONB(column))
    BY <1>3, <2>1, <2>3 DEF EncodeElement, DecodeElement, Tick
  <2> QED
    BY <2>2, <2>3
<1> QED
  BY <1>1, <1>2, <1>3

\* What a program reads is what it knows of what the newest one reads.
LEMMA ElementNarrowed ==
    ASSUME NEW p \in 1..Newest, NEW y
    PROVE  DecodeElement(column, p, y)
              = Store!KnownElement(p, DecodeElement(column, Newest, y))
<1>0. Newest \in Nat /\ p \in Nat \ {0} /\ p <= Newest /\ 0..p \subseteq 0..Newest
      /\ 1..p \subseteq 1..Newest /\ 0 \in 0..p
  BY RowsAssumption
<1>1. CASE EnumType(column)
  <2>1. column.type = "enum"
    BY <1>1 DEF EnumType
  <2>2. \A r : DecodeElement(column, r, y) = EnumNumber(r, y)
    BY <2>1 DEF DecodeElement, EnumType, NestedType
  <2>3. \A x : Store!KnownElement(p, x) = IF x \in 0..p THEN x ELSE 0
    BY <2>1 DEF Store!KnownElement
  <2>4. Names(p) \subseteq Names(Newest)
    BY <1>0 DEF Names
  <2>5. CASE y \in Names(p)
    <3>1. y.name \in 0..p
      BY <2>5 DEF Names
    <3> QED
      BY <2>2, <2>3, <2>4, <2>5, <3>1 DEF EnumNumber, KnownText
  <2>6. CASE y \notin Names(p)
    <3>1. y \in Names(Newest) => y.name \notin 0..p
      BY <2>6 DEF Names
    <3> QED
      BY <1>0, <2>2, <2>3, <2>6, <3>1 DEF EnumNumber, KnownText
  <2> QED
    BY <2>5, <2>6
<1>2. CASE NestedType(column)
  <2>1. column.type = "message" /\ ~column.wrapped
    BY <1>2 DEF NestedType
  <2>2. \A r : DecodeElement(column, r, y) = y \cap (1..r)
    BY <1>2, <2>1 DEF DecodeElement, EnumType
  <2>3. \A x : Store!KnownElement(p, x) = x \cap (1..p)
    BY <2>1 DEF Store!KnownElement
  <2> QED
    BY <1>0, <2>2, <2>3
<1>3. CASE ~EnumType(column) /\ ~NestedType(column)
  <2>1. \A x : Store!KnownElement(p, x) = x
    BY <1>3 DEF Store!KnownElement, EnumType, NestedType
  <2>2. DecodeElement(column, p, y) = DecodeElement(column, Newest, y)
    BY <1>3 DEF DecodeElement
  <2> QED
    BY <2>1, <2>2
<1> QED
  BY <1>1, <1>2, <1>3

---------------------------------------------------------------------------
(* Values *)

\* What the newest program reads in a cell.
Read(cell) == ProtoFromModel(column, Newest, cell)

\* A list or a map, but for a list of names, element by element.
LEMMA StoredCollection ==
    ASSUME column \in Tables, NEW q \in 1..Newest, NEW x \in Contents(column, q),
           column.kind \in CollectionKinds \ {"RepeatedEnum"}
    PROVE  Read(<< Encode(column, q, x) >>) = Store!Stored(q, << x >>)
<1> DEFINE y == Encode(column, q, x)
           z == [i \in DOMAIN x |-> Store!KnownElement(q, x[i])]
           w == [i \in DOMAIN x |-> Tick(Store!KnownElement(q, x[i]))]
<1>1. \A i \in DOMAIN x : x[i] \in Values(column, q)
  <2>1. CASE column.kind \in MapKinds
    <3>1. Contents(column, q) = UNION { [K -> Values(column, q)] : K \in SUBSET MapKeys }
      BY <2>1 DEF Contents, MapKinds, CollectionKinds, WrappedBytes
    <3>2. PICK K \in SUBSET MapKeys : x \in [K -> Values(column, q)]
      BY <3>1
    <3> QED
      BY <3>2
  <2>2. CASE column.kind \notin MapKinds
    <3>1. Contents(column, q) = UNION { [1..n -> Values(column, q)] : n \in 0..MaxLength }
      BY <2>2 DEF Contents, MapKinds, CollectionKinds, WrappedBytes
    <3>2. PICK n \in 0..MaxLength : x \in [1..n -> Values(column, q)]
      BY <3>1
    <3> QED
      BY <3>2
  <2> QED
    BY <2>1, <2>2
<1>2. y = [i \in DOMAIN x |-> EncodeElement(column, q, x[i])]
  BY DEF Encode, CollectionKinds
<1>3. KnownTexts(column, Newest, y) = y
  BY DEF KnownTexts
<1>4. Decode(column, Newest, y) = [i \in DOMAIN y |-> DecodeElement(column, Newest, y[i])]
  BY <1>3 DEF Decode, CollectionKinds
<1>5. Decode(column, Newest, y) = w
  BY <1>1, <1>2, <1>4, ElementStored
<1> HIDE DEF y
<1>6. << y >> # <<>> /\ << y >>[1] = y
  OBVIOUS
<1>7. Read(<< y >>) = << w >>
  BY <1>5, <1>6 DEF Read, ProtoFromModel, CollectionKinds
<1>8. << x >> # <<>> /\ << x >>[1] = x
  OBVIOUS
<1>9. Store!Known(q, << x >>) = << z >>
  BY <1>8 DEF Store!Known, Store!CollectionKinds, CollectionKinds
<1>10. Store!Rounded(<< z >>) = << w >>
  <2>1. << z >> # <<>> /\ << z >>[1] = z /\ DOMAIN z = DOMAIN x
    OBVIOUS
  <2>2. CASE column.kind = "RepeatedTimestamp"
    <3>1. column.type = "timestamp" /\ ~JSONB(column)
      BY <2>2, ColumnsAreShaped DEF Shaped, JSONB, JSONBKinds
    <3>2. \A a : Tick(a) = Nearest(a)
      BY <2>2, <3>1 DEF Tick, TableTime
    <3>3. w = [i \in DOMAIN z |-> Nearest(z[i])]
      BY <2>1, <3>2
    <3> HIDE DEF w
    <3>4. Store!Rounded(<< z >>) = << [i \in DOMAIN z |-> Nearest(z[i])] >>
      BY <2>1, <2>2 DEF Store!Rounded
    <3> QED
      BY <3>3, <3>4
  <2>3. CASE column.kind = "RepeatedPrimitive" /\ column.type = "duration"
    <3>1. ~JSONB(column)
      BY <2>3 DEF JSONB, JSONBKinds
    <3>2. \A a : Tick(a) = Store!Bounded(a)
      BY <2>3, <3>1, SameBounds DEF Tick
    <3>3. w = [i \in DOMAIN z |-> Store!Bounded(z[i])]
      BY <2>1, <3>2
    <3> HIDE DEF w
    <3>4. Store!Rounded(<< z >>) = << [i \in DOMAIN z |-> Store!Bounded(z[i])] >>
      BY <2>1, <2>3 DEF Store!Rounded
    <3> QED
      BY <3>3, <3>4
  <2>4. CASE /\ column.kind # "RepeatedTimestamp"
             /\ ~(column.kind = "RepeatedPrimitive" /\ column.type = "duration")
    <3>1. /\ column.type = "timestamp" => JSONB(column)
          /\ column.type = "duration" => JSONB(column)
      BY <2>4, ColumnsAreShaped DEF Shaped, CollectionKinds
    <3>2. w = z
      BY <3>1 DEF Tick
    <3>3. Store!Rounded(<< z >>) = << z >>
      BY <2>4 DEF Store!Rounded, CollectionKinds
    <3> QED
      BY <3>2, <3>3
  <2> QED
    BY <2>2, <2>3, <2>4
<1> HIDE DEF z, w
<1>11. Store!Collapsed(<< w >>) = << w >>
  <2>1. << w >> # <<>>
    OBVIOUS
  <2>2. ~Store!WrappedBytes(column) /\ column.kind # "JSONBProto"
    BY DEF Store!WrappedBytes, CollectionKinds
  <2> QED
    BY <2>1, <2>2 DEF Store!Collapsed
<1>12. Store!Stored(q, << x >>) = << w >>
  BY <1>9, <1>10, <1>11 DEF Store!Stored
<1> QED
  BY <1>7, <1>12 DEF y

\* A variant of a oneof.
LEMMA StoredVariant ==
    ASSUME column \in Tables, NEW q \in 1..Newest, NEW x \in Contents(column, q),
           column.kind = "Oneof"
    PROVE  Read(<< Encode(column, q, x) >>) = Store!Stored(q, << x >>)
<1> DEFINE e == EncodeElement(column, q, x.value)
           y == [variant |-> x.variant, json |-> << e >>]
           d == Store!KnownElement(q, x.value)
           w == [variant |-> x.variant, value |-> d]
<1>0. column.kind \notin CollectionKinds /\ JSONB(column)
  BY DEF CollectionKinds, JSONB
<1>1. x \in [variant : 1..q, value : Values(column, q)]
  BY DEF Contents, CollectionKinds, MapKinds, WrappedBytes
<1>2. x.variant \in 1..Newest /\ x.value \in Values(column, q)
  BY <1>1, RowsAssumption
<1>3. Encode(column, q, x) = y
  BY <1>0 DEF Encode
<1>4. DecodeElement(column, Newest, e) = d
  BY <1>0, <1>2, ElementStored DEF Tick
<1>5. y.variant = x.variant /\ y.json[1] = e
  OBVIOUS
<1>6. Decode(column, Newest, y) = w
  BY <1>0, <1>4, <1>5 DEF Decode
<1>7. << y >> # <<>> /\ << y >>[1] = y
  OBVIOUS
<1>8. [x EXCEPT !.value = d] = w
  BY <1>1
<1> HIDE DEF e, y, d
<1>9. Read(<< y >>) = << w >>
  BY <1>2, <1>5, <1>6, <1>7 DEF Read, ProtoFromModel
<1>10. << x >> # <<>> /\ << x >>[1] = x
  OBVIOUS
<1>11. Store!Known(q, << x >>) = << w >>
  <2>1. column.kind \notin Store!CollectionKinds
    BY DEF Store!CollectionKinds
  <2>2. Store!Known(q, << x >>) = << [x EXCEPT !.value = Store!KnownElement(q, @)] >>
    BY <1>10, <2>1 DEF Store!Known, Store!CollectionKinds
  <2> QED
    BY <1>8, <2>2 DEF d
<1> HIDE DEF w
<1>12. Store!Rounded(<< w >>) = << w >>
  BY DEF Store!Rounded
<1>13. << w >> # <<>>
  OBVIOUS
<1>14. Store!Collapsed(<< w >>) = << w >>
  BY <1>13 DEF Store!Collapsed, Store!WrappedBytes
<1>15. Store!Stored(q, << x >>) = << w >>
  BY <1>11, <1>12, <1>14 DEF Store!Stored
<1> QED
  BY <1>3, <1>9, <1>15

\* The store keeps of a list of names what the mapper does.
LEMMA SameLoop ==
    ASSUME NEW s, NEW S
    PROVE  Store!Kept(s, S) = Kept(s, S)
BY DEF Store!Kept, Kept

\* The names of a list that a program knows mean the numbers they were written for.
LEMMA StoredNames ==
    ASSUME column \in Tables, NEW q \in 1..Newest, NEW x \in Contents(column, q),
           column.kind = "RepeatedEnum"
    PROVE  Read(<< Encode(column, q, x) >>) = Store!Stored(q, << x >>)
<1> DEFINE E == Elements.enum
           f == [a \in E |-> EnumText(q, a)]
           k == Kept(x, 0..q)
           y == Encode(column, q, x)
<1>0. /\ column.type = "enum" /\ ~NestedType(column) /\ EnumType(column)
      /\ Newest \in Nat /\ q \in Nat \ {0} /\ 0..q \subseteq 0..Newest
  BY ColumnsAreShaped, RowsAssumption DEF Shaped, NestedType, EnumType
<1>1. x \in Seq(E) /\ DOMAIN x = 1..Len(x) /\ Len(x) \in Nat
  <2>1. Contents(column, q) = UNION { [1..n -> Values(column, q)] : n \in 0..MaxLength }
    BY DEF Contents, MapKinds, CollectionKinds, WrappedBytes
  <2>2. PICK n \in 0..MaxLength : x \in [1..n -> Values(column, q)]
    BY <2>1
  <2>3. Values(column, q) = E
    BY <1>0 DEF Values
  <2>4. n \in Nat
    BY RowsAssumption
  <2>5. x \in [1..n -> E]
    BY <2>2, <2>3
  <2> HIDE DEF E
  <2>6. x \in Seq(E) /\ Len(x) = n
    BY <2>4, <2>5, SeqDef
  <2> QED
    BY <2>4, <2>5, <2>6
<1>2. \A a : a \in 0..q => EnumText(q, a) = [name |-> a] /\ EnumText(q, a) \in Names(Newest)
  <2> SUFFICES ASSUME NEW a \in 0..q
               PROVE  EnumText(q, a) = [name |-> a] /\ EnumText(q, a) \in Names(Newest)
    OBVIOUS
  <2>1. a \in 0..Newest
    BY <1>0
  <2> QED
    BY <2>1 DEF EnumText, Names
<1>3. \A a : a \notin 0..q => EnumText(q, a) \notin Names(Newest)
  <2> SUFFICES ASSUME NEW a, a \notin 0..q
               PROVE  EnumText(q, a) \notin Names(Newest)
    OBVIOUS
  <2>1. EnumText(q, a) = [digits |-> a]
    BY DEF EnumText
  <2>2. \A n : DOMAIN [digits |-> a] # DOMAIN [name |-> n]
    OBVIOUS
  <2>3. \A n : [digits |-> a] # [name |-> n]
    BY <2>2
  <2> QED
    BY <2>1, <2>3 DEF Names
<1>4. y = Each(f, x)
  <2>1. y = [i \in DOMAIN x |-> EncodeElement(column, q, x[i])]
    BY DEF Encode, CollectionKinds
  <2>2. \A a : EncodeElement(column, q, a) = EnumText(q, a)
    BY <1>0 DEF EncodeElement
  <2>3. \A i \in DOMAIN x : x[i] \in E
    BY <1>1, ElementOfSeq
  <2>4. \A i \in DOMAIN x : EncodeElement(column, q, x[i]) = f[x[i]]
    BY <2>2, <2>3
  <2> HIDE DEF f, y
  <2> QED
    BY <2>1, <2>4 DEF Each
<1>5. k \in Seq(E \cap (0..q))
  BY <1>1, KeptSome
<1>6. KnownTexts(column, Newest, y) = Each(f, k)
  <2>1. \A a \in E : f[a] \in Names(Newest) <=> a \in 0..q
    BY <1>2, <1>3
  <2> DEFINE S == 0..q
             T == Names(Newest)
  <2>2. \A a \in E : f[a] \in T <=> a \in S
    BY <2>1
  <2>3. KnownTexts(column, Newest, y) = Kept(y, T)
    BY DEF KnownTexts
  <2> HIDE DEF f, E, y, S, T
  <2>4. Kept(Each(f, x), T) = Each(f, Kept(x, S))
    BY <1>1, <2>2, KeptEach
  <2> QED
    BY <1>4, <2>3, <2>4 DEF S
<1>7. /\ DOMAIN k = 1..Len(k) /\ \A i \in DOMAIN k : k[i] \in E /\ k[i] \in 0..q
      /\ k = [i \in DOMAIN k |-> k[i]]
  <2> DEFINE F == E \cap (0..q)
  <2>1. k \in Seq(F)
    BY <1>5
  <2> HIDE DEF k, F
  <2>2. k \in [1..Len(k) -> F]
    BY <2>1, LenProperties
  <2> QED
    BY <2>2 DEF F
<1> HIDE DEF y, k
<1>8. Decode(column, Newest, y) = k
  <2> DEFINE known == Each(f, k)
  <2>1. DOMAIN known = DOMAIN k /\ \A i \in DOMAIN k : known[i] = EnumText(q, k[i])
    BY <1>7 DEF Each
  <2>2. \A i \in DOMAIN k : known[i] = [name |-> k[i]] /\ known[i] \in Names(Newest)
    BY <1>2, <1>7, <2>1
  <2>3. \A t : DecodeElement(column, Newest, t) = EnumNumber(Newest, t)
    BY <1>0 DEF DecodeElement
  <2>4. \A i \in DOMAIN k : DecodeElement(column, Newest, known[i]) = k[i]
    BY <2>2, <2>3 DEF EnumNumber, KnownText
  <2>5. Decode(column, Newest, y)
           = [i \in DOMAIN known |-> DecodeElement(column, Newest, known[i])]
    BY <1>6 DEF Decode, CollectionKinds
  <2> HIDE DEF known
  <2>6. Decode(column, Newest, y) = [i \in DOMAIN k |-> k[i]]
    BY <2>1, <2>4, <2>5
  <2> QED
    BY <1>7, <2>6
<1>9. << y >> # <<>> /\ << y >>[1] = y /\ << x >> # <<>> /\ << x >>[1] = x /\ << k >> # <<>>
  OBVIOUS
<1>10. Read(<< y >>) = << k >>
  BY <1>8, <1>9 DEF Read, ProtoFromModel
<1>11. Store!Known(q, << x >>) = << k >>
  BY <1>9, SameLoop DEF Store!Known, Store!CollectionKinds, k
<1>12. Store!Rounded(<< k >>) = << k >> /\ Store!Collapsed(<< k >>) = << k >>
  BY <1>9 DEF Store!Rounded, Store!Collapsed, Store!WrappedBytes
<1>13. Store!Stored(q, << x >>) = << k >>
  BY <1>11, <1>12 DEF Store!Stored
<1> QED
  BY <1>10, <1>13 DEF y

SingleKinds == {"Scalar", "EnumAsText", "Timestamp", "Duration", "JSONBProto"}

\* A value that is neither a collection nor a oneof.
LEMMA StoredValue ==
    ASSUME column \in Tables, NEW q \in 1..Newest, NEW x \in Contents(column, q),
           column.kind \in SingleKinds, ~(WrappedBytes(column) /\ x = NilBytes)
    PROVE  Read(<< Encode(column, q, x) >>) = Store!Stored(q, << x >>)
<1> DEFINE e == EncodeElement(column, q, x)
           d == DecodeElement(column, Newest, e)
           a == Store!KnownElement(q, x)
<1>0. /\ column.kind \notin CollectionKinds /\ column.kind \notin MapKinds
      /\ column.kind \notin Store!CollectionKinds /\ column.kind # "Oneof"
      /\ Shaped(column)
  BY ColumnsAreShaped DEF SingleKinds, CollectionKinds, MapKinds, Store!CollectionKinds
<1>1. x \in Values(column, q)
  BY <1>0 DEF Contents
<1>2. Encode(column, q, x) = e
  BY <1>0 DEF Encode
<1>3. Decode(column, Newest, e) = d
  BY <1>0 DEF Decode
<1>4. d = Tick(a)
  BY <1>1, ElementStored
<1>5. \A z : << z >> # <<>> /\ << z >>[1] = z
  OBVIOUS
<1>6. Store!Known(q, << x >>) =
         IF column.kind = "EnumAsText" /\ column.nullable /\ x \notin 0..q
         THEN <<>> ELSE << a >>
  <2>1. column.kind \notin {"RepeatedEnum"}
    BY DEF SingleKinds
  <2> QED
    BY <1>0, <1>5, <2>1 DEF Store!Known
<1>7. CASE column.kind = "JSONBProto"
  <2>1. column.type = "message" /\ ~column.wrapped /\ ~Store!WrappedBytes(column)
    BY <1>0, <1>7 DEF Shaped, WrappedTypes, Store!WrappedBytes
  <2>2. a = x \cap (1..q) /\ e = x \cap (1..q)
    BY <2>1 DEF Store!KnownElement, EncodeElement, EnumType, NestedType
  <2>3. d = a
    BY <1>4, <2>1 DEF Tick
  <2> HIDE DEF a, d, e
  <2>4. << e >> = <<{}>> <=> e = {}
    OBVIOUS
  <2>5. Read(<< e >>) = IF ~column.nullable /\ e = {} THEN <<>> ELSE << d >>
    BY <1>3, <1>5, <1>7, <2>4 DEF Read, ProtoFromModel
  <2>6. Store!Rounded(<< a >>) = << a >>
    BY <1>7 DEF Store!Rounded
  <2>7. Store!Collapsed(<< a >>) = IF ~column.nullable /\ a = {} THEN <<>> ELSE << a >>
    BY <1>5, <1>7, <2>1 DEF Store!Collapsed
  <2>8. Store!Stored(q, << x >>) = IF ~column.nullable /\ a = {} THEN <<>> ELSE << a >>
    BY <1>6, <1>7, <2>6, <2>7 DEF Store!Stored
  <2> QED
    BY <1>2, <2>2, <2>3, <2>5, <2>8 DEF a, e
<1>8. CASE column.kind = "EnumAsText"
  <2>1. column.type = "enum" /\ EnumType(column) /\ ~Store!WrappedBytes(column)
    BY <1>0, <1>8 DEF Shaped, EnumType, Store!WrappedBytes
  <2>2. e = EnumText(q, x)
    BY <2>1 DEF EncodeElement, EnumType, NestedType
  <2>3. x \in 0..q => KnownText(Newest, e)
    <3>1. x \in 0..q => x \in 0..Newest
      BY RowsAssumption
    <3> QED
      BY <2>2, <3>1 DEF KnownText, Names, EnumText
  <2>4. x \notin 0..q => ~KnownText(Newest, e)
    <3>1. \A n : DOMAIN [digits |-> x] # DOMAIN [name |-> n]
      OBVIOUS
    <3>2. \A n : [digits |-> x] # [name |-> n]
      BY <3>1
    <3> QED
      BY <2>2, <3>2 DEF KnownText, Names, EnumText
  <2>5. d = a
    BY <1>4, <2>1 DEF Tick
  <2> HIDE DEF a, d, e
  <2>6. Read(<< e >>) = IF column.nullable /\ x \notin 0..q THEN <<>> ELSE << d >>
    BY <1>3, <1>5, <1>8, <2>3, <2>4 DEF Read, ProtoFromModel
  <2>7. /\ Store!Rounded(<< a >>) = << a >> /\ Store!Collapsed(<< a >>) = << a >>
        /\ Store!Rounded(<<>>) = <<>>
        /\ column.nullable => Store!Collapsed(<<>>) = <<>>
    BY <1>5, <1>8, <2>1 DEF Store!Rounded, Store!Collapsed
  <2> QED
    BY <1>2, <1>6, <1>8, <2>5, <2>6, <2>7 DEF Store!Stored
<1>9. CASE column.kind \in {"Scalar", "Timestamp", "Duration"}
  <2>1. Read(<< e >>) = << d >>
    BY <1>3, <1>5, <1>9 DEF Read, ProtoFromModel
  <2>2. Store!Known(q, << x >>) = << a >>
    BY <1>6, <1>9
  <2>3. Store!Rounded(<< a >>) = << Tick(a) >>
    <3>1. CASE column.kind = "Timestamp"
      <4>1. column.type = "timestamp" /\ ~JSONB(column)
        BY <1>0, <3>1 DEF Shaped, JSONB, JSONBKinds
      <4> HIDE DEF a
      <4> QED
        BY <1>5, <3>1, <4>1 DEF Store!Rounded, Tick, TableTime
    <3>2. CASE column.kind = "Duration"
      <4>1. column.type = "duration" /\ ~JSONB(column)
        BY <1>0, <3>2 DEF Shaped, JSONB, JSONBKinds
      <4> HIDE DEF a
      <4> QED
        BY <1>5, <3>2, <4>1, SameBounds DEF Store!Rounded, Tick
    <3>3. CASE column.kind = "Scalar"
      <4>1. column.type \notin {"timestamp", "duration"}
        BY <1>0, <3>3 DEF Shaped, WrappedTypes
      <4> QED
        BY <3>3, <4>1 DEF Store!Rounded, Tick
    <3> QED
      BY <1>9, <3>1, <3>2, <3>3
  <2>4. Store!Collapsed(<< Tick(a) >>) = << Tick(a) >>
    <3>1. Store!WrappedBytes(column) => Tick(a) = x /\ WrappedBytes(column)
      BY DEF Store!WrappedBytes, WrappedBytes, Tick, Store!KnownElement
    <3>2. Store!WrappedBytes(column) => << Tick(a) >> # <<NilBytes>>
      <4>1. WrappedBytes(column) => x # NilBytes
        OBVIOUS
      <4> HIDE DEF a
      <4> QED
        BY <1>5, <3>1, <4>1
    <3> QED
      BY <1>5, <1>9, <3>2 DEF Store!Collapsed
  <2>5. Store!Stored(q, << x >>) = << Tick(a) >>
    BY <2>2, <2>3, <2>4 DEF Store!Stored
  <2> QED
    BY <1>2, <1>4, <2>1, <2>5
<1> QED
  BY <1>7, <1>8, <1>9 DEF SingleKinds

\* A zero reads as one.
LEMMA ZeroReads ==
    ASSUME column \in Tables, column.kind \in {"Scalar", "Timestamp", "Duration"}
    PROVE  Read(<< 0 >>) = << 0 >>
<1>1. column.type # "enum" /\ column.type # "message"
  BY ColumnsAreShaped DEF Shaped, WrappedTypes
<1>2. Unsigned(0) = 0
  <2>1. 0 \in 0..(Word - 1)
    BY MapperAssumption
  <2> QED
    BY <2>1, SameBits
<1>3. DecodeElement(column, Newest, 0) = 0
  BY <1>1, <1>2 DEF DecodeElement, EnumType, NestedType
<1>4. Decode(column, Newest, 0) = 0
  BY <1>3 DEF Decode, CollectionKinds
<1>5. << 0 >> # <<>> /\ << 0 >>[1] = 0
  OBVIOUS
<1> QED
  BY <1>4, <1>5 DEF Read, ProtoFromModel

\* Nothing is NULL where the column can be NULL, else what the kind has for nothing.
LEMMA StoredNothing ==
    ASSUME column \in Tables, NEW q,
           column.nullable \/ column.kind \notin {"EnumAsText", "Timestamp"}
    PROVE  Store!Stored(q, <<>>) =
               Read(IF column.nullable THEN <<>> ELSE << Empty(column) >>)
<1>1. Shaped(column)
  BY ColumnsAreShaped
<1>2. Store!Known(q, <<>>) = <<>> /\ Store!Rounded(<<>>) = <<>>
  BY DEF Store!Known, Store!Rounded
<1>3. Store!Stored(q, <<>>) = Store!Collapsed(<<>>)
  BY <1>2 DEF Store!Stored
<1>4. \A z : << z >> # <<>> /\ << z >>[1] = z
  OBVIOUS
<1>5. CASE column.nullable
  <2>1. Store!Collapsed(<<>>) = <<>>
    BY <1>4, <1>5 DEF Store!Collapsed
  <2> QED
    BY <1>3, <1>5, <2>1 DEF Read, ProtoFromModel
<1>6. CASE ~column.nullable /\ column.kind = "JSONBProto"
  <2>1. NestedType(column)
    BY <1>1, <1>6 DEF Shaped, NestedType, WrappedTypes
  <2>2. Empty(column) = {}
    BY <1>6, <2>1 DEF Empty, CollectionKinds
  <2>3. Store!Collapsed(<<>>) = <<>>
    BY <1>4, <1>6 DEF Store!Collapsed
  <2> QED
    BY <1>3, <1>6, <2>2, <2>3 DEF Read, ProtoFromModel
<1>7. CASE ~column.nullable /\ column.kind = "Oneof"
  <2>1. Empty(column) = [variant |-> 0, json |-> <<>>]
    BY <1>7 DEF Empty, CollectionKinds
  <2>2. << Empty(column) >>[1].variant = 0 /\ 0 \notin 1..Newest
    BY <2>1, RowsAssumption
  <2>3. Store!Collapsed(<<>>) = <<>>
    BY <1>4, <1>7 DEF Store!Collapsed
  <2> QED
    BY <1>3, <1>7, <2>2, <2>3 DEF Read, ProtoFromModel
<1>8. CASE ~column.nullable /\ column.kind \in CollectionKinds
  <2>1. Empty(column) = <<>>
    BY <1>8 DEF Empty, CollectionKinds
  <2>2. KnownTexts(column, Newest, <<>>) = <<>>
    BY KeptEmpty DEF KnownTexts
  <2>3. \A y : KnownTexts(column, Newest, y) = y =>
              Decode(column, Newest, y)
                 = [i \in DOMAIN y |-> DecodeElement(column, Newest, y[i])]
    BY <1>8 DEF Decode, CollectionKinds
  <2>4. Decode(column, Newest, <<>>) = <<>>
    BY <2>2, <2>3
  <2>5. Read(<< <<>> >>) = << <<>> >>
    BY <1>4, <1>8, <2>4 DEF Read, ProtoFromModel, CollectionKinds
  <2>6. column.kind \in Store!CollectionKinds
    BY <1>8 DEF CollectionKinds, Store!CollectionKinds
  <2>7. Store!Collapsed(<<>>) = << <<>> >>
    BY <1>4, <1>8, <2>6 DEF Store!Collapsed, CollectionKinds
  <2> QED
    BY <1>3, <1>8, <2>1, <2>5, <2>7
<1>9. CASE ~column.nullable /\ column.kind \in {"Scalar", "Duration"}
  <2>1. Empty(column) = 0
    BY <1>9 DEF Empty, CollectionKinds
  <2>2. Read(<< 0 >>) = << 0 >>
    BY <1>9, ZeroReads
  <2>3. Store!Collapsed(<<>>) = << 0 >>
    BY <1>4, <1>9 DEF Store!Collapsed, Store!CollectionKinds
  <2> QED
    BY <1>3, <1>9, <2>1, <2>2, <2>3
<1> QED
  BY <1>1, <1>5, <1>6, <1>7, <1>8, <1>9 DEF Shaped

\* What a program writes the newest one reads as the store has it.
LEMMA MessageStored ==
    ASSUME column \in Tables, ~Stamped(column),
           NEW q \in 1..Newest, NEW v \in Messages(column, q)
    PROVE  Read(ModelFromProto(column, q, v)) = Store!Stored(q, v)
<1>0. Shaped(column) /\ q # 0
  BY ColumnsAreShaped, RowsAssumption
<1>1. \A z : << z >> # <<>> /\ << z >>[1] = z
  OBVIOUS
<1>2. v # <<>> => \E x \in Contents(column, q) : v = << x >>
  BY <1>0 DEF Messages
<1>3. v = <<>> => HasPresence(column)
  BY <1>0, <1>1 DEF Messages
<1>4. CASE v = <<>>
  <2>1. column.nullable \/ column.kind \notin {"EnumAsText", "Timestamp"}
    BY <1>3, <1>4, NilEnumIsNullable DEF Stamped
  <2>2. ModelFromProto(column, q, v)
           = IF column.nullable THEN <<>> ELSE << Empty(column) >>
    BY <1>4 DEF ModelFromProto, Absent
  <2> QED
    BY <1>4, <2>1, <2>2, StoredNothing
<1>5. CASE WrappedBytes(column) /\ v = <<NilBytes>>
  <2>1. column.nullable
    BY <1>5, WrapperIsNullable
  <2>2. ModelFromProto(column, q, v) = <<>>
    BY <1>1, <1>5, <2>1 DEF ModelFromProto, Absent
  <2>3. /\ column.kind = "Scalar" /\ column.type = "bytes" /\ Store!WrappedBytes(column)
    BY <1>5 DEF WrappedBytes, Store!WrappedBytes
  <2>4. Store!Known(q, v) = v
    BY <1>1, <1>5, <2>3 DEF Store!Known, Store!CollectionKinds, Store!KnownElement
  <2>5. Store!Rounded(v) = v
    BY <2>3 DEF Store!Rounded
  <2>6. Store!Collapsed(v) = <<>>
    BY <1>1, <1>5, <2>3 DEF Store!Collapsed
  <2>7. Read(<<>>) = <<>>
    BY DEF Read, ProtoFromModel
  <2> QED
    BY <2>2, <2>4, <2>5, <2>6, <2>7 DEF Store!Stored
<1>6. CASE v # <<>> /\ ~(WrappedBytes(column) /\ v = <<NilBytes>>)
  <2>1. PICK x \in Contents(column, q) : v = << x >>
    BY <1>2, <1>6
  <2>2. ModelFromProto(column, q, v) = << Encode(column, q, x) >>
    BY <1>1, <1>6, <2>1 DEF ModelFromProto, Absent
  <2>3. ~(WrappedBytes(column) /\ x = NilBytes)
    BY <1>6, <2>1
  <2>4. CASE column.kind = "RepeatedEnum"
    BY <2>1, <2>2, <2>4, StoredNames
  <2>5. CASE column.kind \in CollectionKinds \ {"RepeatedEnum"}
    BY <2>1, <2>2, <2>5, StoredCollection
  <2>6. CASE column.kind = "Oneof"
    BY <2>1, <2>2, <2>6, StoredVariant
  <2>7. CASE column.kind \in SingleKinds
    BY <2>1, <2>2, <2>3, <2>7, StoredValue
  <2> QED
    BY <1>0, <2>4, <2>5, <2>6, <2>7 DEF Shaped, SingleKinds
<1> QED
  BY <1>4, <1>5, <1>6

\* A default the generator has inferred is that of a column that cannot be NULL.
LEMMA InferredIsNotNull ==
    ASSUME NEW c \in Tables, c.default = "zero"
    PROVE  ~c.nullable /\ c.kind # "Timestamp"
<1>1. PICK f : FieldOK(f) /\ HasKind(f) /\ c = Column(f)
  BY TableColumns
<1>2. c.kind = Kind(f) /\ c.nullable = Nullable(f) /\ c.default = Default(f)
  BY <1>1 DEF Column
<1>3. ~Nullable(f) /\ InferredDefault(f)
  BY <1>2 DEF Default
<1> QED
  BY <1>2, <1>3 DEF InferredDefault

LEMMA NameReads ==
    ASSUME column \in Tables, column.kind = "EnumAsText", NEW n \in 0..Newest
    PROVE  Read(<< [name |-> n] >>) = << n >>
<1>1. column.type = "enum" /\ column.kind \notin CollectionKinds
  BY ColumnsAreShaped DEF Shaped, CollectionKinds
<1> DEFINE y == [name |-> n]
<1>2. y \in Names(Newest) /\ y.name = n
  BY DEF Names
<1> HIDE DEF y
<1>3. Decode(column, Newest, y) = n
  <2>1. DecodeElement(column, Newest, y) = n
    BY <1>1, <1>2 DEF DecodeElement, EnumType, NestedType, EnumNumber, KnownText
  <2> QED
    BY <1>1, <2>1 DEF Decode
<1>4. << y >> # <<>> /\ << y >>[1] = y
  OBVIOUS
<1>5. Read(<< y >>) = << n >>
  BY <1>2, <1>3, <1>4 DEF Read, ProtoFromModel, KnownText
<1> QED
  BY <1>5 DEF y

\* A row that goes without a value reads as one without a message.
LEMMA DefaultStored ==
    ASSUME column \in Tables, HasDefault(column), ~Store!Owned(0)
    PROVE  Read(DefaultCell(column)) = Store!Stored(0, <<>>)
<1>1. /\ ~column.generated /\ column.default # "given"
      /\ column.nullable \/ column.kind # "Timestamp"
  BY DEF Store!Owned
<1>2. column.default \in {"none", "zero"}
  <2>1. PICK f : FieldOK(f) /\ HasKind(f) /\ column = Column(f)
    BY TableColumns
  <2> QED
    BY <1>1, <2>1, CheckAndDefault
<1>3. CASE column.default = "none"
  <2>1. column.nullable /\ DefaultCell(column) = <<>>
    BY <1>1, <1>3 DEF HasDefault, DefaultCell
  <2> QED
    BY <2>1, StoredNothing
<1>4. CASE column.default = "zero" /\ column.kind # "EnumAsText"
  <2>1. ~column.nullable /\ DefaultCell(column) = << Empty(column) >>
    BY <1>1, <1>4, InferredIsNotNull DEF DefaultCell
  <2> QED
    BY <1>1, <1>4, <2>1, StoredNothing
<1>5. CASE column.default = "zero" /\ column.kind = "EnumAsText"
  <2>1. ~column.nullable /\ DefaultCell(column) = << [name |-> 0] >>
    BY <1>1, <1>5, InferredIsNotNull DEF DefaultCell
  <2>2. Read(DefaultCell(column)) = << 0 >>
    BY <1>5, <2>1, NameReads, RowsAssumption
  <2>3. \A z : << z >> # <<>>
    OBVIOUS
  <2>4. Store!Collapsed(<<>>) = << 0 >>
    BY <1>5, <2>1, <2>3 DEF Store!Collapsed, Store!CollectionKinds
  <2>5. Store!Known(0, <<>>) = <<>> /\ Store!Rounded(<<>>) = <<>>
    BY DEF Store!Known, Store!Rounded
  <2> QED
    BY <2>2, <2>4, <2>5 DEF Store!Stored
<1> QED
  BY <1>2, <1>3, <1>4, <1>5

---------------------------------------------------------------------------
(* An older program reads what it knows of what the newest one reads. *)

\* A cell: NULL, or a value that is a list of texts in a column of enums.
IsCell(cell) ==
    cell # <<>> => /\ cell = << cell[1] >>
                   /\ column.kind = "RepeatedEnum" => IsSeq(cell[1])

\* The variant of a oneof is one the newest program has, or none.
HasVariant(cell) ==
    column.kind = "Oneof" =>
        /\ cell # <<>>
        /\ cell[1].variant \in (IF column.optional THEN 0..Newest ELSE 1..Newest)

LEMMA NarrowedCollection ==
    ASSUME NEW p \in 1..Newest, NEW cell, cell # <<>>,
           column.kind \in CollectionKinds \ {"RepeatedEnum"}
    PROVE  ProtoFromModel(column, p, cell) = Store!Known(p, Read(cell))
<1> DEFINE y == cell[1]
           w == [i \in DOMAIN y |-> DecodeElement(column, Newest, y[i])]
           z == [i \in DOMAIN y |-> DecodeElement(column, p, y[i])]
<1>1. \A r : KnownTexts(column, r, y) = y
  BY DEF KnownTexts
<1>2. Decode(column, Newest, y) = w /\ Decode(column, p, y) = z
  BY <1>1 DEF Decode, CollectionKinds
<1> HIDE DEF y
<1>3. Read(cell) = << w >> /\ ProtoFromModel(column, p, cell) = << z >>
  BY <1>2 DEF Read, ProtoFromModel, CollectionKinds, y
<1>4. z = [i \in DOMAIN w |-> Store!KnownElement(p, w[i])]
  BY ElementNarrowed
<1>5. << w >> # <<>> /\ << w >>[1] = w
  OBVIOUS
<1> HIDE DEF w, z
<1>6. Store!Known(p, << w >>) = << z >>
  BY <1>4, <1>5 DEF Store!Known, Store!CollectionKinds, CollectionKinds
<1> QED
  BY <1>3, <1>6

LEMMA NarrowedNames ==
    ASSUME column \in Tables, NEW p \in 1..Newest, NEW cell, cell # <<>>, IsCell(cell),
           column.kind = "RepeatedEnum"
    PROVE  ProtoFromModel(column, p, cell) = Store!Known(p, Read(cell))
<1> DEFINE y == cell[1]
           E == Range(y)
           S == Names(Newest)
           T == Names(p)
           k == Kept(y, S)
           l == Kept(y, T)
           f == [t \in S |-> t.name]
<1>0. /\ column.type = "enum" /\ Newest \in Nat /\ p \in Nat /\ p <= Newest
      /\ 0..p \subseteq 0..Newest
  BY ColumnsAreShaped, RowsAssumption DEF Shaped
<1>1. y \in Seq(E)
  BY DEF IsCell, IsSeq
<1>2. T \subseteq S
  BY <1>0 DEF Names
<1>3. \A t \in S : f[t] \in 0..p <=> t \in T
  BY <1>0 DEF Names
<1>4. k \in Seq(S) /\ l \in Seq(T)
  <2>1. k \in Seq(E \cap S) /\ l \in Seq(E \cap T)
    BY <1>1, KeptSome
  <2>2. E \cap S \subseteq S /\ E \cap T \subseteq T
    OBVIOUS
  <2> HIDE DEF k, l, E, S, T
  <2> QED
    BY <2>1, <2>2, SeqMonotonic
<1>5. KnownTexts(column, Newest, y) = k /\ KnownTexts(column, p, y) = l
  BY DEF KnownTexts
<1>6. /\ \A t \in S : DecodeElement(column, Newest, t) = f[t]
      /\ \A t \in T : DecodeElement(column, p, t) = f[t]
  <2>1. \A r, t : DecodeElement(column, r, t) = IF t \in Names(r) THEN t.name ELSE 0
    BY <1>0 DEF DecodeElement, EnumType, NestedType, EnumNumber, KnownText
  <2> QED
    BY <1>2, <2>1
<1>7. Decode(column, Newest, y) = Each(f, k) /\ Decode(column, p, y) = Each(f, l)
  <2>1. /\ Decode(column, Newest, y)
              = [i \in DOMAIN k |-> DecodeElement(column, Newest, k[i])]
        /\ Decode(column, p, y) = [i \in DOMAIN l |-> DecodeElement(column, p, l[i])]
    <3> HIDE DEF y, k, l
    <3> QED
      BY <1>5 DEF Decode, CollectionKinds
  <2>2. (\A i \in DOMAIN k : k[i] \in S) /\ (\A i \in DOMAIN l : l[i] \in T)
    <3> HIDE DEF k, l, S, T
    <3>1. k \in [1..Len(k) -> S] /\ l \in [1..Len(l) -> T]
      BY <1>4, LenProperties
    <3> QED
      BY <3>1
  <2> HIDE DEF y, k, l, f, S, T
  <2> QED
    BY <1>6, <2>1, <2>2 DEF Each
<1> HIDE DEF y, k, l, f, E, S
<1>8. Read(cell) = << Each(f, k) >> /\ ProtoFromModel(column, p, cell) = << Each(f, l) >>
  BY <1>7 DEF Read, ProtoFromModel, y
<1> DEFINE a == Each(f, k)
<1>9. << a >> # <<>> /\ << a >>[1] = a
  OBVIOUS
<1>10. Store!Known(p, << a >>) = << Kept(a, 0..p) >>
  <2> HIDE DEF a
  <2> QED
    BY <1>9, SameLoop DEF Store!Known, Store!CollectionKinds
<1>11. Kept(a, 0..p) = Each(f, l)
  <2> DEFINE Q == 0..p
  <2>1. \A t \in S : f[t] \in Q <=> t \in T
    BY <1>3
  <2> HIDE DEF Q, T
  <2>2. Kept(Each(f, k), Q) = Each(f, Kept(k, T))
    BY <1>4, <2>1, KeptEach
  <2>3. Kept(k, T) = l
    BY <1>1, <1>2, KeptTwice DEF k, l
  <2> QED
    BY <2>2, <2>3 DEF Q
<1> QED
  BY <1>8, <1>10, <1>11

LEMMA NarrowedVariant ==
    ASSUME NEW p \in 1..Newest, NEW cell, HasVariant(cell), Readable(column, p, cell),
           column.kind = "Oneof"
    PROVE  ProtoFromModel(column, p, cell) = Store!Known(p, Read(cell))
<1> DEFINE y == cell[1]
           d == DecodeElement(column, Newest, y.json[1])
           w == [variant |-> y.variant, value |-> d]
           z == [variant |-> y.variant, value |-> DecodeElement(column, p, y.json[1])]
<1>0. /\ cell # <<>> /\ column.kind \notin CollectionKinds
      /\ Newest \in Nat /\ p \in Nat \ {0} /\ p <= Newest
      /\ y.variant \in 0..p
  BY RowsAssumption DEF HasVariant, Readable, CollectionKinds
<1>1. Decode(column, Newest, y) = w /\ Decode(column, p, y) = z
  BY <1>0 DEF Decode
<1> HIDE DEF y
<1>2. CASE y.variant = 0
  <2>1. Read(cell) = <<>> /\ ProtoFromModel(column, p, cell) = <<>>
    BY <1>2 DEF Read, ProtoFromModel, y
  <2> QED
    BY <2>1 DEF Store!Known
<1>3. CASE y.variant # 0
  <2>1. y.variant \in 1..p /\ y.variant \in 1..Newest
    BY <1>0, <1>3
  <2>2. Read(cell) = << w >> /\ ProtoFromModel(column, p, cell) = << z >>
    BY <1>0, <1>1, <2>1 DEF Read, ProtoFromModel, y
  <2>3. << w >> # <<>> /\ << w >>[1] = w
    OBVIOUS
  <2>4. Store!Known(p, << w >>) = << [w EXCEPT !.value = Store!KnownElement(p, @)] >>
    BY <2>3 DEF Store!Known, Store!CollectionKinds
  <2>5. [w EXCEPT !.value = Store!KnownElement(p, @)]
           = [variant |-> y.variant, value |-> Store!KnownElement(p, d)]
    OBVIOUS
  <2>6. [variant |-> y.variant, value |-> Store!KnownElement(p, d)] = z
    BY ElementNarrowed
  <2> QED
    BY <2>2, <2>4, <2>5, <2>6
<1> QED
  BY <1>2, <1>3

LEMMA NarrowedValue ==
    ASSUME column \in Tables, NEW p \in 1..Newest, NEW cell, cell # <<>>, IsCell(cell),
           column.kind \in SingleKinds
    PROVE  ProtoFromModel(column, p, cell) = Store!Known(p, Read(cell))
<1> DEFINE y == cell[1]
           d == DecodeElement(column, Newest, y)
           e == DecodeElement(column, p, y)
<1>0. /\ column.kind \notin CollectionKinds /\ column.kind \notin Store!CollectionKinds
      /\ column.kind \notin {"Oneof", "RepeatedEnum"} /\ Shaped(column)
      /\ Newest \in Nat /\ p \in Nat /\ p <= Newest /\ 0..p \subseteq 0..Newest
  BY ColumnsAreShaped, RowsAssumption
  DEF SingleKinds, CollectionKinds, Store!CollectionKinds
<1>1. Decode(column, Newest, y) = d /\ Decode(column, p, y) = e
  BY <1>0 DEF Decode
<1>2. e = Store!KnownElement(p, d)
  BY ElementNarrowed
<1>3. cell = << y >> /\ \A z : << z >> # <<>> /\ << z >>[1] = z
  BY DEF IsCell
<1>4. \A z : Store!Known(p, << z >>) =
         IF column.kind = "EnumAsText" /\ column.nullable /\ z \notin 0..p
         THEN <<>> ELSE << Store!KnownElement(p, z) >>
  BY <1>0, <1>3 DEF Store!Known
<1>5. Store!Known(p, <<>>) = <<>>
  BY DEF Store!Known
<1> HIDE DEF y
<1>6. CASE column.kind = "EnumAsText"
  <2>1. column.type = "enum"
    BY <1>0, <1>6 DEF Shaped
  <2>2. /\ d = IF y \in Names(Newest) THEN y.name ELSE 0
        /\ Names(p) \subseteq Names(Newest)
        /\ y \in Names(Newest) => (y.name \in 0..p <=> y \in Names(p))
    BY <1>0, <2>1 DEF DecodeElement, EnumType, NestedType, EnumNumber, KnownText, Names
  <2> HIDE DEF d, e
  <2>3. /\ Read(cell) = IF column.nullable /\ y \notin Names(Newest) THEN <<>> ELSE << d >>
        /\ ProtoFromModel(column, p, cell) =
              IF column.nullable /\ y \notin Names(p) THEN <<>> ELSE << e >>
    BY <1>1, <1>6 DEF Read, ProtoFromModel, KnownText, y
  <2> QED
    BY <1>2, <1>4, <1>5, <1>6, <2>2, <2>3
<1>7. CASE column.kind = "JSONBProto"
  <2> HIDE DEF d, e
  <2>1. cell = <<{}>> <=> y = {}
    BY <1>3
  <2>2. /\ Read(cell) = IF ~column.nullable /\ y = {} THEN <<>> ELSE << d >>
        /\ ProtoFromModel(column, p, cell) =
              IF ~column.nullable /\ y = {} THEN <<>> ELSE << e >>
    BY <1>1, <1>7, <2>1 DEF Read, ProtoFromModel, y
  <2> QED
    BY <1>2, <1>4, <1>5, <1>7, <2>2
<1>8. CASE column.kind \in {"Scalar", "Timestamp", "Duration"}
  <2> HIDE DEF d, e
  <2>1. Read(cell) = << d >> /\ ProtoFromModel(column, p, cell) = << e >>
    BY <1>1, <1>8 DEF Read, ProtoFromModel, y
  <2> QED
    BY <1>2, <1>4, <1>8, <2>1
<1> QED
  BY <1>6, <1>7, <1>8 DEF SingleKinds

\* Whatever the column.
LEMMA Narrowed ==
    ASSUME column \in Tables, NEW p \in 1..Newest, NEW cell, IsCell(cell), HasVariant(cell),
           Readable(column, p, cell)
    PROVE  ProtoFromModel(column, p, cell) = Store!Known(p, Read(cell))
<1>1. CASE cell = <<>>
  <2>1. ProtoFromModel(column, p, cell) = <<>> /\ Read(cell) = <<>>
    BY <1>1 DEF ProtoFromModel, Read
  <2> QED
    BY <2>1 DEF Store!Known
<1>2. CASE cell # <<>>
  <2>1. Shaped(column)
    BY ColumnsAreShaped
  <2> QED
    BY <1>2, <2>1, NarrowedCollection, NarrowedNames, NarrowedVariant, NarrowedValue
    DEF Shaped, SingleKinds
<1> QED
  BY <1>1, <1>2

\* A program fails to read the variants it does not have, and no others.
LEMMA ReadableIsAnswerable ==
    ASSUME NEW p \in 1..Newest, NEW cell, HasVariant(cell)
    PROVE  Readable(column, p, cell) <=> Store!Answerable(p, Read(cell))
<1>1. CASE column.kind # "Oneof"
  BY <1>1 DEF Readable, Store!Answerable
<1>2. CASE column.kind = "Oneof"
  <2> DEFINE y == cell[1]
  <2>0. /\ cell # <<>> /\ column.kind \notin CollectionKinds
        /\ Newest \in Nat /\ p \in Nat \ {0} /\ p <= Newest
        /\ y.variant \in (IF column.optional THEN 0..Newest ELSE 1..Newest)
        /\ y.variant \in Int
    BY <1>2, RowsAssumption DEF HasVariant, CollectionKinds
  <2> HIDE DEF y
  <2>1. Readable(column, p, cell)
           <=> y.variant \in (IF column.optional THEN 0..p ELSE 1..p)
    BY <1>2 DEF Readable, y
  <2>2. CASE y.variant = 0
    <3>1. Read(cell) = <<>>
      BY <1>2, <2>2 DEF Read, ProtoFromModel, y
    <3>2. column.optional
      BY <2>0, <2>2
    <3> QED
      BY <2>0, <2>1, <2>2, <3>1, <3>2 DEF Store!Answerable
  <2>3. CASE y.variant # 0
    <3> DEFINE d == DecodeElement(column, Newest, y.json[1])
               w == [variant |-> y.variant, value |-> d]
    <3>1. y.variant \in 1..Newest
      BY <2>0, <2>3
    <3>2. Decode(column, Newest, y) = w
      BY <1>2, <2>0 DEF Decode
    <3>3. w.variant = y.variant
      OBVIOUS
    <3> HIDE DEF w
    <3>4. Read(cell) = << w >>
      BY <1>2, <2>0, <3>1, <3>2 DEF Read, ProtoFromModel, y
    <3>5. << w >> # <<>> /\ << w >>[1] = w
      OBVIOUS
    <3>6. Store!Answerable(p, << w >>) <=> y.variant \in 1..p
      BY <1>2, <3>3, <3>5 DEF Store!Answerable
    <3>7. Readable(column, p, cell) <=> y.variant \in 1..p
      BY <2>0, <2>1, <3>1
    <3> QED
      BY <3>4, <3>6, <3>7
  <2> QED
    BY <2>2, <2>3
<1> QED
  BY <1>1, <1>2

---------------------------------------------------------------------------
(* What is read is a message. *)

\* A column that can be NULL is that of a field that can be nil (validateNullable).
LEMMA NullableHasPresence ==
    ASSUME NEW c \in Tables, c.nullable
    PROVE  HasPresence(c)
<1>1. PICK f \in Fields : Accepted(f) /\ ~Skipped(f) /\ c = Column(f)
  BY DEF Tables
<1>2. /\ c.kind = Kind(f) /\ c.nullable = Nullable(f) /\ c.optional = f.optional
      /\ c.wrapped = f.wrapped
  BY <1>1 DEF Column
<1>3. AcceptsNullable(f)
  BY <1>1 DEF Accepted, Resolves
<1> QED
  BY <1>2, <1>3 DEF AcceptsNullable, HasPresence, Wrapper

\* The contents of each kind.
LEMMA ContentsOfCollections ==
    ASSUME NEW r, column.kind \in CollectionKinds, NEW x
    PROVE  x \in Contents(column, r) <=>
              IF column.kind \in MapKinds
              THEN \E K \in SUBSET MapKeys : x \in [K -> Values(column, r)]
              ELSE \E n \in 0..MaxLength : x \in [1..n -> Values(column, r)]
<1>1. CASE column.kind \in MapKinds
  <2>1. Contents(column, r) = UNION { [K -> Values(column, r)] : K \in SUBSET MapKeys }
    BY <1>1 DEF Contents, MapKinds, CollectionKinds, WrappedBytes
  <2> QED
    BY <1>1, <2>1
<1>2. CASE column.kind \notin MapKinds
  <2>1. Contents(column, r) = UNION { [1..n -> Values(column, r)] : n \in 0..MaxLength }
    BY <1>2 DEF Contents, MapKinds, CollectionKinds, WrappedBytes
  <2> QED
    BY <1>2, <2>1
<1> QED
  BY <1>1, <1>2

LEMMA ContentsOfSingles ==
    ASSUME NEW r, column.kind \in SingleKinds
    PROVE  Contents(column, r) =
              IF WrappedBytes(column) THEN Values(column, r) \cup {NilBytes}
              ELSE Values(column, r)
BY DEF Contents, SingleKinds, MapKinds, CollectionKinds

LEMMA ContentsOfOneofs ==
    ASSUME NEW r, column.kind = "Oneof"
    PROVE  Contents(column, r) = [variant : 1..r, value : Values(column, r)]
BY DEF Contents, MapKinds, CollectionKinds, WrappedBytes

\* A list or a map of other elements.
LEMMA OtherElements ==
    ASSUME NEW r, NEW s, column.kind \in CollectionKinds,
           NEW x \in Contents(column, r), NEW z, z = [i \in DOMAIN x |-> z[i]],
           \A i \in DOMAIN x : x[i] \in Values(column, r) => z[i] \in Values(column, s)
    PROVE  z \in Contents(column, s)
<1>1. CASE column.kind \in MapKinds
  <2>1. PICK K \in SUBSET MapKeys : x \in [K -> Values(column, r)]
    BY <1>1, ContentsOfCollections
  <2>2. z \in [K -> Values(column, s)]
    BY <2>1
  <2> QED
    BY <1>1, <2>2, ContentsOfCollections
<1>2. CASE column.kind \notin MapKinds
  <2>1. PICK n \in 0..MaxLength : x \in [1..n -> Values(column, r)]
    BY <1>2, ContentsOfCollections
  <2>2. z \in [1..n -> Values(column, s)]
    BY <2>1
  <2> QED
    BY <1>2, <2>2, ContentsOfCollections
<1> QED
  BY <1>1, <1>2

\* The values of a release are values of the next.
LEMMA LaterValues ==
    ASSUME NEW q \in 1..Newest
    PROVE  Values(column, q) \subseteq Values(column, Newest)
<1>1. 1..q \subseteq 1..Newest
  BY RowsAssumption
<1> QED
  BY <1>1 DEF Values

LEMMA LaterMessages ==
    ASSUME column \in Tables, NEW q \in 1..Newest
    PROVE  Messages(column, q) \subseteq Messages(column, Newest)
<1>1. q # 0 /\ Newest # 0 /\ 1..q \subseteq 1..Newest
  BY RowsAssumption
<1>2. Contents(column, q) \subseteq Contents(column, Newest)
  <2> SUFFICES ASSUME NEW x \in Contents(column, q)
               PROVE  x \in Contents(column, Newest)
    OBVIOUS
  <2>1. CASE column.kind \in CollectionKinds
    <3>1. x = [i \in DOMAIN x |-> x[i]]
      <4>1. (\E K : x \in [K -> Values(column, q)])
        BY <2>1, ContentsOfCollections
      <4> QED
        BY <4>1
    <3>2. \A i \in DOMAIN x : x[i] \in Values(column, q) => x[i] \in Values(column, Newest)
      BY LaterValues
    <3> QED
      BY <2>1, <3>1, <3>2, OtherElements
  <2>2. CASE column.kind = "Oneof"
    <3>1. x \in [variant : 1..q, value : Values(column, q)]
      BY <2>2, ContentsOfOneofs
    <3>2. Values(column, q) \subseteq Values(column, Newest)
      BY LaterValues
    <3>3. x \in [variant : 1..Newest, value : Values(column, Newest)]
      BY <1>1, <3>1, <3>2
    <3> QED
      BY <2>2, <3>3, ContentsOfOneofs
  <2>3. CASE column.kind \in SingleKinds
    BY <2>3, LaterValues, ContentsOfSingles
  <2>4. Shaped(column)
    BY ColumnsAreShaped
  <2> QED
    BY <2>1, <2>2, <2>3, <2>4 DEF Shaped, SingleKinds
<1> QED
  BY <1>1, <1>2 DEF Messages

\* What a program knows of an element is an element it knows.
LEMMA KnownElementIsValue ==
    ASSUME column \in Tables, NEW r \in 1..Newest, NEW p \in 1..Newest,
           NEW x \in Values(column, r)
    PROVE  Store!KnownElement(p, x) \in Values(column, p)
<1>1. CASE NestedType(column)
  BY <1>1 DEF Store!KnownElement, NestedType, Values
<1>2. CASE ~NestedType(column)
  <2>1. Values(column, r) = Elements[column.type] /\ Values(column, p) = Elements[column.type]
    BY <1>2 DEF Values
  <2>2. column.type = "enum" => 0 \in Elements[column.type]
    BY ElementsAssumption DEF NativeKind
  <2> QED
    BY <1>2, <2>1, <2>2 DEF Store!KnownElement, NestedType
<1> QED
  BY <1>1, <1>2

LEMMA KnownIsMessage ==
    ASSUME column \in Tables, NEW r \in 1..Newest, NEW p \in 1..Newest,
           NEW m \in Messages(column, r), Store!Answerable(p, m)
    PROVE  Store!Known(p, m) \in Messages(column, p)
<1>0. /\ r # 0 /\ p # 0 /\ Shaped(column)
      /\ \A z : << z >> # <<>> /\ << z >>[1] = z
      /\ Newest \in Nat /\ p \in Nat
  BY RowsAssumption, ColumnsAreShaped
<1>1. /\ m # <<>> => \E x \in Contents(column, r) : m = << x >>
      /\ m = <<>> => HasPresence(column)
  BY <1>0 DEF Messages
<1>2. HasPresence(column) => <<>> \in Messages(column, p)
  BY <1>0 DEF Messages
<1>3. \A x \in Contents(column, p) : << x >> \in Messages(column, p)
  BY <1>0 DEF Messages
<1>4. CASE m = <<>>
  BY <1>1, <1>2, <1>4 DEF Store!Known
<1>5. CASE m # <<>>
  <2>1. PICK x \in Contents(column, r) : m = << x >>
    BY <1>1, <1>5
  <2>2. CASE column.kind \in CollectionKinds \ {"RepeatedEnum"}
    <3> DEFINE z == [i \in DOMAIN x |-> Store!KnownElement(p, x[i])]
    <3>1. Store!Known(p, m) = << z >>
      BY <1>0, <2>1, <2>2 DEF Store!Known, Store!CollectionKinds, CollectionKinds
    <3>2. \A i \in DOMAIN x : x[i] \in Values(column, r) => z[i] \in Values(column, p)
      BY KnownElementIsValue
    <3>3. z = [i \in DOMAIN x |-> z[i]]
      OBVIOUS
    <3> HIDE DEF z
    <3>4. z \in Contents(column, p)
      BY <2>2, <3>2, <3>3, OtherElements
    <3> QED
      BY <1>3, <3>1, <3>4
  <2>3. CASE column.kind = "RepeatedEnum"
    <3> DEFINE E == Values(column, p)
               k == Kept(x, 0..p)
    <3>1. column.type = "enum" /\ Values(column, r) = E
      BY <1>0, <2>3 DEF Shaped, Values, NestedType
    <3>2. PICK n \in 0..MaxLength : x \in [1..n -> Values(column, r)]
      BY <2>3, ContentsOfCollections DEF CollectionKinds, MapKinds
    <3>3. n \in Nat /\ n <= MaxLength /\ MaxLength \in Nat
      BY RowsAssumption
    <3> HIDE DEF E
    <3>4. x \in Seq(E) /\ Len(x) = n
      BY <3>1, <3>2, <3>3, SeqDef
    <3>5. k \in Seq(E \cap (0..p)) /\ Len(k) <= n
      BY <3>4, KeptSome
    <3> DEFINE F == E \cap (0..p)
    <3>6. k \in Seq(F)
      BY <3>5
    <3> HIDE DEF k, F
    <3>7. k \in [1..Len(k) -> F] /\ Len(k) \in Nat
      BY <3>6, LenProperties
    <3>8. k \in [1..Len(k) -> E] /\ Len(k) \in 0..MaxLength
      BY <3>3, <3>5, <3>7 DEF F
    <3>9. k \in Contents(column, p)
      BY <2>3, <3>8, ContentsOfCollections DEF CollectionKinds, MapKinds, E
    <3>10. Store!Known(p, m) = << k >>
      BY <1>0, <2>1, <2>3, SameLoop DEF Store!Known, Store!CollectionKinds, k
    <3> QED
      BY <1>3, <3>9, <3>10
  <2>4. CASE column.kind = "Oneof"
    <3> DEFINE z == [x EXCEPT !.value = Store!KnownElement(p, @)]
    <3>1. Store!Known(p, m) = << z >>
      BY <1>0, <2>1, <2>4 DEF Store!Known, Store!CollectionKinds
    <3>2. x \in [variant : 1..r, value : Values(column, r)]
      BY <2>4, ContentsOfOneofs
    <3>3. x.variant \in 1..p
      BY <1>0, <2>1, <2>4 DEF Store!Answerable
    <3>4. Store!KnownElement(p, x.value) \in Values(column, p)
      BY <3>2, KnownElementIsValue
    <3>5. z \in [variant : 1..p, value : Values(column, p)]
      BY <3>2, <3>3, <3>4
    <3> HIDE DEF z
    <3>6. z \in Contents(column, p)
      BY <2>4, <3>5, ContentsOfOneofs
    <3> QED
      BY <1>3, <3>1, <3>6
  <2>5. CASE column.kind \in SingleKinds
    <3>1. Store!Known(p, m) =
             IF column.kind = "EnumAsText" /\ column.nullable /\ x \notin 0..p
             THEN <<>> ELSE << Store!KnownElement(p, x) >>
      BY <1>0, <2>1, <2>5 DEF Store!Known, Store!CollectionKinds, SingleKinds
    <3>2. column.nullable => <<>> \in Messages(column, p)
      BY <1>2, NullableHasPresence
    <3>3. Store!KnownElement(p, x) \in Contents(column, p)
      <4>1. CASE x \in Values(column, r)
        BY <2>5, <4>1, KnownElementIsValue, ContentsOfSingles
      <4>2. CASE x \notin Values(column, r)
        <5>1. WrappedBytes(column) /\ x = NilBytes
          BY <2>5, <4>2, ContentsOfSingles
        <5>2. Store!KnownElement(p, x) = x
          BY <5>1 DEF WrappedBytes, Store!KnownElement
        <5> QED
          BY <2>5, <5>1, <5>2, ContentsOfSingles
      <4> QED
        BY <4>1, <4>2
    <3> QED
      BY <1>3, <3>1, <3>2, <3>3
  <2> QED
    BY <1>0, <2>2, <2>3, <2>4, <2>5 DEF Shaped, SingleKinds
<1> QED
  BY <1>4, <1>5

\* A zero is a value of every type but messages.
LEMMA ZeroIsValue ==
    ASSUME column \in Tables, NEW r, column.kind \in SingleKinds \ {"JSONBProto"}
    PROVE  0 \in Values(column, r) /\ 0 \in Contents(column, r)
<1>1. /\ column.type \in DOMAIN NativeKind \ {"message"}
      /\ ~NestedType(column)
  BY ColumnsAreShaped DEF Shaped, SingleKinds, WrappedTypes, NestedType
<1>2. 0 \in Values(column, r)
  BY <1>1, ElementsAssumption DEF Values
<1> QED
  BY <1>2, ContentsOfSingles

\* A time that is rounded is a time, a duration that is bounded is one.
LEMMA RoundedIsMessage ==
    ASSUME column \in Tables, NEW r \in 1..Newest, NEW m \in Messages(column, r)
    PROVE  Store!Rounded(m) \in Messages(column, r)
<1> DEFINE V == Values(column, r)
<1>0. /\ r # 0 /\ Shaped(column)
      /\ \A z : << z >> # <<>> /\ << z >>[1] = z
  BY RowsAssumption, ColumnsAreShaped
<1>1. \A z \in Contents(column, r) : << z >> \in Messages(column, r)
  BY <1>0 DEF Messages
<1>2. CASE m = <<>>
  BY <1>2 DEF Store!Rounded
<1>3. CASE m # <<>> /\ column.kind \in {"Timestamp", "RepeatedTimestamp"}
  <2>1. PICK x \in Contents(column, r) : m = << x >>
    BY <1>0, <1>3 DEF Messages
  <2>2. V = Elements.timestamp
    BY <1>0, <1>3 DEF Shaped, Values, NestedType
  <2>3. \A t \in V : t - (t % Micro) \in V /\ Nearest(t) \in V
    BY <2>2, ElementsAssumption
  <2> HIDE DEF V
  <2>4. CASE column.kind = "Timestamp"
    <3>1. Store!Rounded(m) = << x - (x % Micro) >>
      BY <1>0, <2>1, <2>4 DEF Store!Rounded
    <3>2. Contents(column, r) = V
      BY <2>4, ContentsOfSingles DEF SingleKinds, WrappedBytes, V
    <3> QED
      BY <1>1, <2>1, <2>3, <3>1, <3>2
  <2>5. CASE column.kind = "RepeatedTimestamp"
    <3> DEFINE z == [i \in DOMAIN x |-> Nearest(x[i])]
    <3>1. Store!Rounded(m) = << z >>
      BY <1>0, <2>1, <2>5 DEF Store!Rounded
    <3>2. z = [i \in DOMAIN x |-> z[i]]
      OBVIOUS
    <3>3. \A i \in DOMAIN x : x[i] \in V => z[i] \in V
      BY <2>3
    <3>4. column.kind \in CollectionKinds
      BY <2>5 DEF CollectionKinds
    <3> HIDE DEF z
    <3>5. z \in Contents(column, r)
      BY <3>2, <3>3, <3>4, OtherElements DEF V
    <3> QED
      BY <1>1, <3>1, <3>5
  <2> QED
    BY <1>3, <2>4, <2>5
<1>4. CASE /\ m # <<>> /\ column.type = "duration"
           /\ column.kind \in {"Duration", "RepeatedPrimitive"}
  <2>1. PICK x \in Contents(column, r) : m = << x >>
    BY <1>0, <1>4 DEF Messages
  <2>2. V = Elements.duration
    BY <1>4 DEF Values, NestedType
  <2>3. \A t \in V : Store!Bounded(t) \in V
    BY <2>2, ElementsAssumption, SameBounds
  <2> HIDE DEF V
  <2>4. CASE column.kind = "Duration"
    <3>1. Store!Rounded(m) = << Store!Bounded(x) >>
      BY <1>0, <2>1, <2>4 DEF Store!Rounded
    <3>2. Contents(column, r) = V
      BY <2>4, ContentsOfSingles DEF SingleKinds, WrappedBytes, V
    <3> QED
      BY <1>1, <2>1, <2>3, <3>1, <3>2
  <2>5. CASE column.kind = "RepeatedPrimitive"
    <3> DEFINE z == [i \in DOMAIN x |-> Store!Bounded(x[i])]
    <3>1. Store!Rounded(m) = << z >>
      BY <1>0, <1>4, <2>1, <2>5 DEF Store!Rounded
    <3>2. z = [i \in DOMAIN x |-> z[i]]
      OBVIOUS
    <3>3. \A i \in DOMAIN x : x[i] \in V => z[i] \in V
      BY <2>3
    <3>4. column.kind \in CollectionKinds
      BY <2>5 DEF CollectionKinds
    <3> HIDE DEF z
    <3>5. z \in Contents(column, r)
      BY <3>2, <3>3, <3>4, OtherElements DEF V
    <3> QED
      BY <1>1, <3>1, <3>5
  <2> QED
    BY <1>4, <2>4, <2>5
<1>5. CASE /\ column.kind \notin {"Timestamp", "RepeatedTimestamp", "Duration"}
           /\ ~(column.kind = "RepeatedPrimitive" /\ column.type = "duration")
  BY <1>5 DEF Store!Rounded
<1>6. column.kind = "Duration" => column.type = "duration"
  BY <1>0 DEF Shaped
<1> QED
  BY <1>2, <1>3, <1>4, <1>5, <1>6

\* What nothing reads as, where it is not told from the empty value.
LEMMA CollapsedIsMessage ==
    ASSUME column \in Tables, ~Stamped(column), NEW m \in Messages(column, Newest)
    PROVE  Store!Collapsed(m) \in Messages(column, Newest)
<1>0. /\ Newest # 0 /\ Shaped(column)
      /\ \A z : << z >> # <<>> /\ << z >>[1] = z
  BY RowsAssumption, ColumnsAreShaped
<1>1. HasPresence(column) => <<>> \in Messages(column, Newest)
  BY <1>0 DEF Messages
<1>2. CASE column.kind = "JSONBProto" /\ ~column.nullable /\ m = <<{}>>
  <2>1. Store!Collapsed(m) = <<>>
    BY <1>0, <1>2 DEF Store!Collapsed, Store!WrappedBytes
  <2>2. HasPresence(column)
    BY <1>2 DEF HasPresence
  <2> QED
    BY <1>1, <2>1, <2>2
<1>3. CASE m = <<>> /\ ~column.nullable /\ column.kind \notin {"JSONBProto", "Oneof"}
  <2>1. CASE column.kind \in CollectionKinds
    <3>1. Store!Collapsed(m) = << <<>> >>
      BY <1>0, <1>3, <2>1 DEF Store!Collapsed, Store!CollectionKinds, CollectionKinds
    <3>2. <<>> \in Contents(column, Newest)
      <4>1. \A V : <<>> \in [{} -> V] /\ <<>> \in [1..0 -> V]
        OBVIOUS
      <4>2. {} \in SUBSET MapKeys /\ 0 \in 0..MaxLength
        BY RowsAssumption
      <4> QED
        BY <2>1, <4>1, <4>2, ContentsOfCollections
    <3> QED
      BY <1>0, <3>1, <3>2 DEF Messages
  <2>2. CASE column.kind \in SingleKinds
    <3>1. Store!Collapsed(m) = << 0 >>
      BY <1>0, <1>3, <2>2 DEF Store!Collapsed, Store!CollectionKinds, SingleKinds
    <3>2. 0 \in Contents(column, Newest)
      BY <1>3, <2>2, ZeroIsValue
    <3> QED
      BY <1>0, <3>1, <3>2 DEF Messages
  <2> QED
    BY <1>0, <1>3, <2>1, <2>2 DEF Shaped, SingleKinds
<1>4. CASE WrappedBytes(column) /\ m = <<NilBytes>>
  <2>1. Store!Collapsed(m) = <<>>
    BY <1>0, <1>4 DEF Store!Collapsed, Store!WrappedBytes, WrappedBytes
  <2>2. HasPresence(column)
    BY <1>4 DEF HasPresence, WrappedBytes
  <2> QED
    BY <1>1, <2>1, <2>2
<1>5. CASE /\ ~(column.kind = "JSONBProto" /\ ~column.nullable /\ m = <<{}>>)
           /\ ~(m = <<>> /\ ~column.nullable /\ column.kind \notin {"JSONBProto", "Oneof"})
           /\ ~(WrappedBytes(column) /\ m = <<NilBytes>>)
  BY <1>5 DEF Store!Collapsed, Store!WrappedBytes, WrappedBytes
<1> QED
  BY <1>2, <1>3, <1>4, <1>5

\* What is stored of a message is one.
LEMMA StoredIsMessage ==
    ASSUME column \in Tables, ~Stamped(column),
           NEW q \in 1..Newest, NEW v \in Messages(column, q)
    PROVE  Store!Stored(q, v) \in Messages(column, Newest)
<1>0. q # 0 /\ \A z : << z >>[1] = z
  BY RowsAssumption
<1>1. Store!Answerable(q, v)
  <2> SUFFICES ASSUME column.kind = "Oneof", v # <<>>
               PROVE  v[1].variant \in 1..q
    BY DEF Store!Answerable
  <2>1. PICK x \in Contents(column, q) : v = << x >>
    BY <1>0 DEF Messages
  <2>2. x \in [variant : 1..q, value : Values(column, q)]
    BY ContentsOfOneofs
  <2> QED
    BY <1>0, <2>1, <2>2
<1> DEFINE a == Store!Known(q, v)
           b == Store!Rounded(a)
<1>2. a \in Messages(column, q)
  BY <1>1, KnownIsMessage
<1> HIDE DEF a
<1>3. b \in Messages(column, q)
  BY <1>2, RoundedIsMessage
<1> HIDE DEF b
<1>4. b \in Messages(column, Newest)
  BY <1>3, LaterMessages
<1>5. Store!Collapsed(b) \in Messages(column, Newest)
  BY <1>4, CollapsedIsMessage
<1> QED
  BY <1>5 DEF Store!Stored, a, b

\* So is what a default reads as, whoever wrote it.
LEMMA EmptyIsMessage ==
    ASSUME column \in Tables, column.kind # "EnumAsText"
    PROVE  Read(<< Empty(column) >>) \in Messages(column, Newest)
<1>0. /\ Newest # 0 /\ Shaped(column)
      /\ \A z : << z >> # <<>> /\ << z >>[1] = z
  BY RowsAssumption, ColumnsAreShaped
<1>1. HasPresence(column) => <<>> \in Messages(column, Newest)
  BY <1>0 DEF Messages
<1>2. \A x \in Contents(column, Newest) : << x >> \in Messages(column, Newest)
  BY <1>0 DEF Messages
<1>3. CASE column.kind = "JSONBProto"
  <2>1. NestedType(column) /\ column.type = "message"
    BY <1>0, <1>3 DEF Shaped, NestedType, WrappedTypes
  <2>2. Empty(column) = {}
    BY <1>3, <2>1 DEF Empty, CollectionKinds
  <2>3. Decode(column, Newest, {}) = {}
    <3>1. DecodeElement(column, Newest, {}) = {}
      BY <2>1 DEF DecodeElement, EnumType
    <3> QED
      BY <1>3, <3>1 DEF Decode, CollectionKinds
  <2>4. Read(<< {} >>) \in { <<>>, << {} >> }
    BY <1>0, <1>3, <2>3 DEF Read, ProtoFromModel
  <2>5. {} \in Contents(column, Newest)
    BY <1>3, <2>1, ContentsOfSingles DEF SingleKinds, Values
  <2>6. HasPresence(column)
    BY <1>3 DEF HasPresence
  <2> QED
    BY <1>1, <1>2, <2>2, <2>4, <2>5, <2>6
<1>4. CASE column.kind = "Oneof"
  <2>1. Empty(column) = [variant |-> 0, json |-> <<>>]
    BY <1>4 DEF Empty, CollectionKinds
  <2>2. << Empty(column) >>[1].variant = 0 /\ 0 \notin 1..Newest
    BY <2>1, RowsAssumption
  <2>3. Read(<< Empty(column) >>) = <<>>
    BY <1>4, <2>2 DEF Read, ProtoFromModel
  <2>4. HasPresence(column)
    BY <1>4 DEF HasPresence
  <2> QED
    BY <1>1, <2>3, <2>4
<1>5. CASE column.kind \in CollectionKinds
  <2>1. Empty(column) = <<>>
    BY <1>5 DEF Empty, CollectionKinds
  <2>2. KnownTexts(column, Newest, <<>>) = <<>>
    BY KeptEmpty DEF KnownTexts
  <2>3. \A y : KnownTexts(column, Newest, y) = y =>
              Decode(column, Newest, y)
                 = [i \in DOMAIN y |-> DecodeElement(column, Newest, y[i])]
    BY <1>5 DEF Decode, CollectionKinds
  <2>4. Decode(column, Newest, <<>>) = <<>>
    BY <2>2, <2>3
  <2>5. Read(<< <<>> >>) = << <<>> >>
    BY <1>0, <1>5, <2>4 DEF Read, ProtoFromModel, CollectionKinds
  <2>6. <<>> \in Contents(column, Newest)
    <3>1. \A V : <<>> \in [{} -> V] /\ <<>> \in [1..0 -> V]
      OBVIOUS
    <3>2. {} \in SUBSET MapKeys /\ 0 \in 0..MaxLength
      BY RowsAssumption
    <3> QED
      BY <1>5, <3>1, <3>2, ContentsOfCollections
  <2> QED
    BY <1>2, <2>1, <2>5, <2>6
<1>6. CASE column.kind \in {"Scalar", "Timestamp", "Duration"}
  <2>1. Empty(column) = 0
    BY <1>6 DEF Empty, CollectionKinds
  <2>2. Read(<< 0 >>) = << 0 >>
    BY <1>6, ZeroReads
  <2>3. 0 \in Contents(column, Newest)
    BY <1>6, ZeroIsValue DEF SingleKinds
  <2> QED
    BY <1>2, <2>1, <2>2, <2>3
<1> QED
  BY <1>0, <1>3, <1>4, <1>5, <1>6 DEF Shaped

\* A default, whoever wrote it, reads as a message.
LEMMA DefaultIsMessage ==
    ASSUME column \in Tables, HasDefault(column)
    PROVE  /\ Read(DefaultCell(column)) \in Messages(column, Newest)
           /\ IsCell(DefaultCell(column))
<1>0. /\ Newest \in Nat \ {0} /\ Shaped(column)
      /\ \A z : << z >> # <<>> /\ << z >>[1] = z
  BY RowsAssumption, ColumnsAreShaped
<1>1. PICK f : FieldOK(f) /\ HasKind(f) /\ column = Column(f)
  BY TableColumns
<1>2. /\ column.check = "nonempty" => column.kind = "Scalar" /\ column.type = "string"
      /\ column.default \in {"none", "given", "zero"}
  <2>1. column.check = "nonempty" => column.kind = "Scalar"
    BY <1>1, CheckAndDefault
  <2>2. column.check = "nonempty" => column.type = "string"
    <3>1. column.check = Check(f) /\ column.type = f.type
      BY <1>1 DEF Column
    <3>2. Check(f) = "nonempty" => "nonempty" \in f.options
      BY DEF Check
    <3> QED
      BY <1>1, <3>1, <3>2 DEF FieldOK
  <2> QED
    BY <1>1, <2>1, <2>2, CheckAndDefault
<1>3. ASSUME column.kind = "EnumAsText", NEW n \in 0..1
      PROVE  Read(<< [name |-> n] >>) \in Messages(column, Newest)
  <2>1. n \in 0..Newest
    BY <1>0
  <2>2. Read(<< [name |-> n] >>) = << n >>
    BY <1>3, <2>1, NameReads
  <2>3. column.type = "enum" /\ ~NestedType(column)
    BY <1>0, <1>3 DEF Shaped, NestedType
  <2>4. n \in Values(column, Newest)
    BY <2>1, <2>3, ElementsAssumption DEF Values
  <2>5. n \in Contents(column, Newest)
    BY <1>3, <2>4, ContentsOfSingles DEF SingleKinds
  <2> QED
    BY <1>0, <2>2, <2>5 DEF Messages
<1>4. Empty(column) = <<>> \/ column.kind # "RepeatedEnum"
  BY DEF Empty, CollectionKinds, NestedType
<1>5. \A y : IsSeq(y) \/ column.kind # "RepeatedEnum" => IsCell(<< y >>)
  BY <1>0 DEF IsCell
<1>6. IsSeq(<<>>)
  <2>1. <<>> \in Seq({})
    BY EmptySeq
  <2> QED
    BY <2>1, SeqIsSeq
<1>7. CASE column.generated \/ column.default = "given"
  <2>1. DefaultCell(column) = << Literal(column) >>
    BY <1>7 DEF DefaultCell
  <2>2. CASE column.kind = "EnumAsText"
    <3>1. Literal(column) = [name |-> 1]
      BY <2>2 DEF Literal
    <3> QED
      BY <1>3, <1>5, <2>1, <2>2, <3>1
  <2>3. CASE column.kind # "EnumAsText" /\ column.check = "nonempty"
    <3>1. Literal(column) = 1 /\ column.kind = "Scalar" /\ column.type = "string"
      BY <1>2, <2>3 DEF Literal
    <3>2. DecodeElement(column, Newest, 1) = 1
      BY <3>1 DEF DecodeElement, EnumType, NestedType
    <3>3. Decode(column, Newest, 1) = 1
      BY <3>1, <3>2 DEF Decode, CollectionKinds
    <3>4. Read(<< 1 >>) = << 1 >>
      BY <1>0, <3>1, <3>3 DEF Read, ProtoFromModel
    <3>5. 1 \in Values(column, Newest)
      BY <3>1, ElementsAssumption DEF Values, NestedType
    <3>6. 1 \in Contents(column, Newest)
      BY <3>1, <3>5, ContentsOfSingles DEF SingleKinds
    <3> QED
      BY <1>0, <1>5, <2>1, <3>1, <3>4, <3>6 DEF Messages
  <2>4. CASE column.kind # "EnumAsText" /\ column.check # "nonempty"
    <3>1. Literal(column) = Empty(column)
      BY <2>4 DEF Literal
    <3> QED
      BY <1>4, <1>5, <1>6, <2>1, <2>4, <3>1, EmptyIsMessage
  <2> QED
    BY <2>2, <2>3, <2>4
<1>8. CASE ~column.generated /\ column.default = "zero"
  <2>1. CASE column.kind = "EnumAsText"
    <3>1. DefaultCell(column) = << [name |-> 0] >>
      BY <1>8, <2>1 DEF DefaultCell
    <3> QED
      BY <1>3, <1>5, <2>1, <3>1
  <2>2. CASE column.kind # "EnumAsText"
    <3>1. DefaultCell(column) = << Empty(column) >>
      BY <1>8, <2>2 DEF DefaultCell
    <3> QED
      BY <1>4, <1>5, <1>6, <2>2, <3>1, EmptyIsMessage
  <2> QED
    BY <2>1, <2>2
<1>9. CASE ~column.generated /\ column.default = "none"
  <2>1. column.nullable /\ DefaultCell(column) = <<>>
    BY <1>9 DEF HasDefault, DefaultCell
  <2>2. Read(<<>>) = <<>>
    BY DEF Read, ProtoFromModel
  <2>3. <<>> \in Messages(column, Newest)
    BY <1>0, <2>1, NullableHasPresence DEF Messages
  <2> QED
    BY <2>1, <2>2, <2>3 DEF IsCell
<1> QED
  BY <1>2, <1>7, <1>8, <1>9

\* And a stamp.
LEMMA StampIsMessage ==
    ASSUME column \in Tables, Stamped(column), NEW s \in Stamps, NEW p
    PROVE  /\ Read(<< EncodeElement(column, p, s) >>) \in Messages(column, Newest)
           /\ IsCell(<< EncodeElement(column, p, s) >>)
<1> DEFINE t == s - (s % Micro)
<1>0. /\ Newest # 0 /\ column.kind = "Timestamp" /\ column.type = "timestamp"
      /\ ~JSONB(column) /\ \A z : << z >> # <<>> /\ << z >>[1] = z
  BY RowsAssumption, ColumnsAreShaped DEF Stamped, Shaped, JSONB, JSONBKinds
<1>1. EncodeElement(column, p, s) = t
  BY <1>0 DEF EncodeElement, EnumType, NestedType, TableTime
<1>2. t \in Elements.timestamp
  BY ElementsAssumption
<1> HIDE DEF t
<1>3. DecodeElement(column, Newest, t) = t
  BY <1>0 DEF DecodeElement, EnumType, NestedType
<1>4. Decode(column, Newest, t) = t
  BY <1>0, <1>3 DEF Decode, CollectionKinds
<1>5. Read(<< t >>) = << t >>
  BY <1>0, <1>4 DEF Read, ProtoFromModel
<1>6. t \in Contents(column, Newest)
  <2>1. t \in Values(column, Newest)
    BY <1>0, <1>2 DEF Values, NestedType
  <2> QED
    BY <1>0, <2>1, ContentsOfSingles DEF SingleKinds
<1> QED
  BY <1>0, <1>1, <1>5, <1>6 DEF Messages, IsCell

\* The mapper makes a cell of a message.
LEMMA ModelIsCell ==
    ASSUME column \in Tables, NEW q \in 1..Newest, NEW v \in Messages(column, q)
    PROVE  IsCell(ModelFromProto(column, q, v))
<1>0. q # 0 /\ \A z : << z >> # <<>> /\ << z >>[1] = z
  BY RowsAssumption
<1>1. CASE column.kind # "RepeatedEnum"
  <2>1. \/ ModelFromProto(column, q, v) = <<>>
        \/ \E y : ModelFromProto(column, q, v) = << y >>
    BY DEF ModelFromProto
  <2> QED
    BY <1>0, <1>1, <2>1 DEF IsCell
<1>2. CASE column.kind = "RepeatedEnum"
  <2>1. CASE v = <<>>
    <3>1. ModelFromProto(column, q, v) \in { <<>>, << <<>> >> }
      BY <1>2, <2>1 DEF ModelFromProto, Absent, Empty, CollectionKinds, NestedType
    <3>2. <<>> \in Seq({})
      BY EmptySeq
    <3>3. IsSeq(<<>>)
      BY <3>2, SeqIsSeq
    <3> QED
      BY <1>0, <3>1, <3>3 DEF IsCell
  <2>2. CASE v # <<>>
    <3>1. PICK x \in Contents(column, q) : v = << x >>
      BY <1>0, <2>2 DEF Messages
    <3>2. PICK n \in 0..MaxLength : x \in [1..n -> Values(column, q)]
      BY <1>2, ContentsOfCollections DEF CollectionKinds, MapKinds
    <3> DEFINE y == Encode(column, q, x)
    <3>3. y = [i \in 1..n |-> EncodeElement(column, q, x[i])]
      BY <1>2, <3>2 DEF Encode, CollectionKinds
    <3>4. y = [i \in 1..n |-> y[i]] /\ n \in Nat
      BY <3>3, RowsAssumption
    <3> HIDE DEF y
    <3>5. IsSeq(y)
      BY <3>4, FunctionIsASeq
    <3>6. ModelFromProto(column, q, v) = << y >>
      <4>1. ~Absent(column, v)
        BY <1>2, <2>2 DEF Absent, WrappedBytes
      <4> QED
        BY <1>0, <2>2, <3>1, <4>1 DEF ModelFromProto, y
    <3> QED
      BY <1>0, <3>5, <3>6 DEF IsCell
  <2> QED
    BY <2>1, <2>2
<1> QED
  BY <1>1, <1>2

---------------------------------------------------------------------------
(* Every row reads as a message, and so does what a program holds. *)

CellsRead ==
    \A k \in Keys \cup {NoKey} :
        rows[k] # <<>> =>
            IsCell(rows[k][1]) /\ Read(rows[k][1]) \in Messages(column, Newest)

HeldMessages ==
    \A p \in Programs :
        held[p] # <<>> => p # 0 /\ held[p][1].value \in Messages(column, p)

StoreInv == RowsInv /\ CellsRead /\ HeldMessages

\* The check of a oneof keeps out the variants without a name (oneofKindCheck).
LEMMA RowsHaveVariants ==
    ASSUME RowsInv, NEW k \in Keys \cup {NoKey}, rows[k] # <<>>
    PROVE  HasVariant(rows[k][1])
<1> DEFINE cell == rows[k][1]
<1>0. TableAccepts(column, table, cell)
  BY DEF RowsInv, RowsAccepted
<1>1. column \in Tables /\ table \in Nat /\ table <= Newest /\ Newest \in Nat
  BY RowsAssumption DEF RowsInv
<1>2. PICK f : FieldOK(f) /\ HasKind(f) /\ column = Column(f)
  BY <1>1, TableColumns
<1>3. column.kind = "Oneof" => column.check = "variants" /\ ~column.nullable
  BY <1>2, CheckAndDefault
<1>4. 0..table \subseteq 0..Newest /\ 1..table \subseteq 1..Newest
  BY <1>1
<1> HIDE DEF cell
<1>5. HasVariant(cell)
  BY <1>0, <1>1, <1>3, <1>4 DEF HasVariant, TableAccepts, CheckAccepts
<1> QED
  BY <1>5 DEF cell

\* What a program writes reads as a message.
LEMMA CellOfIsMessage ==
    ASSUME column \in Tables, NEW p \in Programs, NEW v \in Messages(column, p),
           NEW s \in Clock, p = 0 => HasDefault(column)
    PROVE  IsCell(CellOf(p, v, s)) /\ Read(CellOf(p, v, s)) \in Messages(column, Newest)
<1>1. CASE p = 0 \/ column.generated
  <2>1. HasDefault(column) /\ CellOf(p, v, s) = DefaultCell(column)
    BY <1>1 DEF HasDefault, CellOf
  <2> QED
    BY <2>1, DefaultIsMessage
<1>2. CASE p # 0 /\ ~column.generated /\ Stamped(column)
  <2>1. s \in Stamps /\ CellOf(p, v, s) = << EncodeElement(column, p, s) >>
    BY <1>2 DEF Clock, CellOf
  <2> QED
    BY <1>2, <2>1, StampIsMessage
<1>3. CASE p # 0 /\ ~column.generated /\ ~Stamped(column)
  <2>1. p \in 1..Newest
    BY <1>3, RowsAssumption DEF Programs
  <2>2. CellOf(p, v, s) = ModelFromProto(column, p, v)
    BY <1>3 DEF CellOf
  <2>3. Read(ModelFromProto(column, p, v)) = Store!Stored(p, v)
    BY <1>3, <2>1, MessageStored
  <2>4. Store!Stored(p, v) \in Messages(column, Newest)
    BY <1>3, <2>1, StoredIsMessage
  <2>5. IsCell(ModelFromProto(column, p, v))
    BY <2>1, ModelIsCell
  <2> QED
    BY <2>2, <2>3, <2>4, <2>5
<1> QED
  BY <1>1, <1>2, <1>3

LEMMA InitStored == Init => StoreInv
<1> SUFFICES ASSUME Init PROVE StoreInv
  OBVIOUS
<1>1. RowsInv
  BY InitInv
<1>2. CellsRead
  <2> SUFFICES ASSUME NEW k \in Keys \cup {NoKey}, rows[k] # <<>>
               PROVE  IsCell(rows[k][1]) /\ Read(rows[k][1]) \in Messages(column, Newest)
    BY DEF CellsRead
  <2>1. rows \in [Keys \cup {NoKey} -> {<<>>, << DefaultCell(column) >>}]
    BY DEF Init
  <2>2. HasDefault(column) /\ column \in Tables
    BY <2>1 DEF Init
  <2>3. rows[k] = << DefaultCell(column) >>
    BY <2>1
  <2>4. rows[k][1] = DefaultCell(column)
    BY <2>3
  <2> QED
    BY <2>2, <2>4, DefaultIsMessage
<1>3. HeldMessages
  BY DEF Init, HeldMessages
<1> QED
  BY <1>1, <1>2, <1>3 DEF StoreInv

\* A write keeps the rows readable.
LEMMA WriteStored ==
    ASSUME StoreInv, UNCHANGED <<column, held>>, RowsInv',
           NEW k \in Keys \cup {NoKey}, NEW cell, IsCell(cell),
           Read(cell) \in Messages(column, Newest),
           rows' = [rows EXCEPT ![k] = << cell >>]
    PROVE  StoreInv'
<1>1. \A l \in Keys \cup {NoKey} : rows'[l] = IF l = k THEN << cell >> ELSE rows[l]
  BY DEF StoreInv, RowsInv
<1>2. \A l \in Keys \cup {NoKey} :
         rows'[l] # <<>> =>
            IsCell(rows'[l][1]) /\ Read(rows'[l][1]) \in Messages(column, Newest)
  <2> SUFFICES ASSUME NEW l \in Keys \cup {NoKey}, rows'[l] # <<>>
               PROVE  IsCell(rows'[l][1]) /\ Read(rows'[l][1]) \in Messages(column, Newest)
    OBVIOUS
  <2>1. CASE l = k
    <3>1. rows'[l][1] = cell
      BY <1>1, <2>1
    <3> QED
      BY <3>1
  <2>2. CASE l # k
    BY <1>1, <2>2 DEF StoreInv, CellsRead
  <2> QED
    BY <2>1, <2>2
<1>3. CellsRead'
  BY <1>2 DEF CellsRead, IsCell, Read
<1>4. HeldMessages'
  BY DEF StoreInv, HeldMessages
<1> QED
  BY <1>3, <1>4 DEF StoreInv

LEMMA SameRowsStored ==
    ASSUME StoreInv, UNCHANGED <<column, rows, held>>, RowsInv'
    PROVE  StoreInv'
<1>1. CellsRead'
  BY DEF StoreInv, CellsRead, IsCell, Read
<1>2. HeldMessages'
  BY DEF StoreInv, HeldMessages
<1> QED
  BY <1>1, <1>2 DEF StoreInv

LEMMA UpdateStored ==
    ASSUME StoreInv, NEW p \in Programs, NEW k \in Keys, NEW v \in Messages(column, p),
           NEW s \in Clock, Update(p, k, v, s)
    PROVE  StoreInv'
<1>1. RowsInv' /\ column \in Tables
  BY UpdateInv DEF StoreInv, RowsInv
<1>2. UNCHANGED <<column, table, held>>
  BY DEF Update
<1>3. CASE p # 0 /\ Mutable(column)
  <2> DEFINE cell == CellOf(p, v, s)
  <2>1. rows' = [rows EXCEPT ![k] = << cell >>]
    BY <1>3 DEF Update
  <2>2. IsCell(cell) /\ Read(cell) \in Messages(column, Newest)
    BY <1>1, <1>3, CellOfIsMessage
  <2> HIDE DEF cell
  <2> QED
    BY <1>1, <1>2, <2>1, <2>2, WriteStored
<1>4. CASE ~(p # 0 /\ Mutable(column))
  <2>1. UNCHANGED rows
    BY <1>4 DEF Update
  <2> QED
    BY <1>1, <1>2, <2>1, SameRowsStored
<1> QED
  BY <1>3, <1>4

LEMMA CreateStored ==
    ASSUME StoreInv, NEW p \in Programs, NEW k \in Keys, NEW v \in Messages(column, p),
           NEW s \in Clock, Create(p, k, v, s)
    PROVE  StoreInv'
<1> DEFINE cell == CellOf(p, v, s)
           key == InsertKey(k)
<1>1. RowsInv' /\ column \in Tables
  BY CreateInv DEF StoreInv, RowsInv
<1>2. /\ UNCHANGED <<column, held>> /\ rows' = [rows EXCEPT ![key] = << cell >>]
      /\ p = 0 => HasDefault(column)
  BY DEF Create
<1>3. key \in Keys \cup {NoKey}
  BY DEF InsertKey
<1>4. IsCell(cell) /\ Read(cell) \in Messages(column, Newest)
  BY <1>1, <1>2, CellOfIsMessage
<1> HIDE DEF cell, key
<1> QED
  BY <1>1, <1>2, <1>3, <1>4, WriteStored

\* What a program reads in a row is a message of its release.
LEMMA RowReads ==
    ASSUME StoreInv, NEW p \in 1..Newest, NEW k \in Keys, rows[k] # <<>>
    PROVE  /\ Readable(column, p, rows[k][1])
                 <=> Store!Answerable(p, Read(rows[k][1]))
           /\ Readable(column, p, rows[k][1]) =>
                 /\ ProtoFromModel(column, p, rows[k][1]) = Store!Known(p, Read(rows[k][1]))
                 /\ ProtoFromModel(column, p, rows[k][1]) \in Messages(column, p)
<1> DEFINE cell == rows[k][1]
<1>1. /\ column \in Tables /\ HasVariant(cell) /\ IsCell(cell)
      /\ Read(cell) \in Messages(column, Newest)
  BY RowsHaveVariants DEF StoreInv, RowsInv, CellsRead
<1> HIDE DEF cell
<1>2. Readable(column, p, cell) <=> Store!Answerable(p, Read(cell))
  BY <1>1, ReadableIsAnswerable
<1>3. ASSUME Readable(column, p, cell)
      PROVE  /\ ProtoFromModel(column, p, cell) = Store!Known(p, Read(cell))
             /\ Store!Known(p, Read(cell)) \in Messages(column, p)
  <2>1. Newest \in 1..Newest
    BY RowsAssumption
  <2> DEFINE m == Read(cell)
  <2>2. Store!Answerable(p, m) /\ m \in Messages(column, Newest)
    BY <1>1, <1>2, <1>3
  <2> HIDE DEF m
  <2>3. Store!Known(p, m) \in Messages(column, p)
    BY <1>1, <2>1, <2>2, KnownIsMessage
  <2> QED
    BY <1>1, <1>3, <2>3, Narrowed DEF m
<1> QED
  BY <1>2, <1>3 DEF cell

LEMMA GetStored ==
    ASSUME StoreInv, NEW p \in Programs, NEW k \in Keys, Get(p, k)
    PROVE  StoreInv'
<1> DEFINE cell == rows[k][1]
           value == ProtoFromModel(column, p, cell)
           read == [key |-> k, value |-> value, cell |-> cell]
<1>1. RowsInv'
  BY GetInv DEF StoreInv
<1>2. UNCHANGED <<column, rows>> /\ p # 0 /\ rows[k] # <<>> /\ p \in 1..Newest
  BY RowsAssumption DEF Get, Programs
<1>3. Readable(column, p, cell) => value \in Messages(column, p)
  BY <1>2, RowReads
<1>4. \A q \in Programs :
         held'[q] = IF q = p THEN (IF Readable(column, p, cell) THEN << read >> ELSE <<>>)
                    ELSE held[q]
  BY DEF Get, StoreInv, RowsInv
<1>5. read.value = value
  OBVIOUS
<1> HIDE DEF read, value, cell
<1>6. HeldMessages'
  <2> SUFFICES ASSUME NEW q \in Programs, held'[q] # <<>>
               PROVE  q # 0 /\ held'[q][1].value \in Messages(column, q)
    BY <1>2 DEF HeldMessages
  <2>1. CASE q = p
    <3>1. Readable(column, p, cell) /\ held'[q] = << read >>
      BY <1>4, <2>1
    <3>2. held'[q][1] = read
      BY <3>1
    <3> QED
      BY <1>2, <1>3, <1>5, <2>1, <3>1, <3>2
  <2>2. CASE q # p
    BY <1>4, <2>2 DEF StoreInv, HeldMessages
  <2> QED
    BY <2>1, <2>2
<1>7. CellsRead'
  BY <1>2 DEF StoreInv, CellsRead, IsCell, Read
<1> QED
  BY <1>1, <1>6, <1>7 DEF StoreInv

LEMMA NextStored == StoreInv /\ [Next]_vars => StoreInv'
<1> SUFFICES ASSUME StoreInv, [Next]_vars PROVE StoreInv'
  OBVIOUS
<1>0. RowsInv'
  BY NextInv DEF StoreInv
<1>1. CASE Migrate
  BY <1>0, <1>1, SameRowsStored DEF Migrate
<1>2. ASSUME NEW p \in Programs, Request(p)
      PROVE  StoreInv'
  <2>1. CASE \E k \in Keys, v \in Messages(column, p), s \in Clock :
                Create(p, k, v, s) \/ Update(p, k, v, s)
    BY <2>1, CreateStored, UpdateStored
  <2>2. CASE \E k \in Keys : Get(p, k)
    BY <2>2, GetStored
  <2>3. CASE WriteBack(p)
    <3>1. held[p][1].key \in Keys /\ held[p][1].value \in Messages(column, p)
      BY <2>3 DEF WriteBack, StoreInv, RowsInv, HeldRead, HeldMessages
    <3>2. PICK s \in Clock : Update(p, held[p][1].key, held[p][1].value, s)
      BY <2>3 DEF WriteBack
    <3> QED
      BY <3>1, <3>2, UpdateStored
  <2> QED
    BY <1>2, <2>1, <2>2, <2>3 DEF Request
<1>3. CASE UNCHANGED vars
  BY <1>0, <1>3, SameRowsStored DEF vars
<1> QED
  BY <1>1, <1>2, <1>3 DEF Next

LEMMA StoreInvHolds == Spec => []StoreInv
BY InitStored, NextStored, PTL DEF Spec

\* Rows and what is held of them are of their types: what a program reads, whoever
\* wrote it, is a message that it could have been sent and can write back
\* (writeProtoFromModel against writeModelFromProto).
THEOREM RowsAreTyped == Spec => []TypeOK
<1>1. StoreInv => TypeOK
  <2> SUFFICES ASSUME StoreInv PROVE TypeOK
    OBVIOUS
  <2>1. table \in 1..Newest /\ DOMAIN rows = Keys \cup {NoKey} /\ RowsAccepted /\ HeldRead
    BY DEF StoreInv, RowsInv
  <2> QED
    BY <2>1 DEF TypeOK, StoreInv, RowsAccepted, HeldRead, HeldMessages
<1> QED
  BY <1>1, StoreInvHolds, PTL

---------------------------------------------------------------------------
(* The refinement *)

\* A row that holds what a program wrote of a message is what a Set of the store
\* makes of it.
LEMMA SetIsStores ==
    ASSUME StoreInv, UNCHANGED <<column, held>>, NEW k \in Keys, NEW p \in Programs,
           NEW v \in Messages(column, p), NEW s \in Clock,
           rows' = [rows EXCEPT ![k] = << CellOf(p, v, s) >>],
           p = 0 => HasDefault(column)
    PROVE  Store!Set(p, k, v)
<1> DEFINE cell == CellOf(p, v, s)
           St == [l \in Keys |-> IF rows[l] = <<>> THEN <<>>
                                 ELSE << ProtoFromModel(column, Newest, rows[l][1]) >>]
           StN == [l \in Keys |-> IF rows'[l] = <<>> THEN <<>>
                                  ELSE << ProtoFromModel(column, Newest, rows'[l][1]) >>]
<1>0. column \in Tables /\ \A z : << z >> # <<>> /\ << z >>[1] = z
  BY DEF StoreInv, RowsInv
<1>1. \A l \in Keys : rows'[l] = IF l = k THEN << cell >> ELSE rows[l]
  BY DEF StoreInv, RowsInv
<1>2. StN = [St EXCEPT ![k] = << Read(cell) >>]
  <2> HIDE DEF cell
  <2>1. \A l \in Keys : StN[l] = IF l = k THEN << Read(cell) >> ELSE St[l]
    BY <1>0, <1>1 DEF Read
  <2> HIDE DEF Read
  <2> QED
    BY <2>1
<1>3. ~Store!Owned(p) => Read(cell) = Store!Stored(p, v)
  <2> SUFFICES ASSUME ~Store!Owned(p) PROVE Read(cell) = Store!Stored(p, v)
    OBVIOUS
  <2>1. ~Stamped(column) /\ ~column.generated
    BY DEF Store!Owned, Stamped
  <2>2. CASE p = 0
    <3>1. v = <<>>
      BY <2>2 DEF Messages
    <3>2. cell = DefaultCell(column)
      BY <2>2 DEF CellOf
    <3>3. Read(DefaultCell(column)) = Store!Stored(0, <<>>)
      BY <1>0, <2>2, DefaultStored
    <3> QED
      BY <2>2, <3>1, <3>2, <3>3
  <2>3. CASE p # 0
    <3>1. p \in 1..Newest
      BY <2>3, RowsAssumption DEF Programs
    <3>2. cell = ModelFromProto(column, p, v)
      BY <2>1, <2>3 DEF CellOf
    <3> QED
      BY <1>0, <2>1, <3>1, <3>2, MessageStored
  <2> QED
    BY <2>2, <2>3
<1>4. CASE Store!Owned(p)
  <2>1. StN[k] = << Read(cell) >>
    BY <1>2
  <2>2. StN[k] # <<>> /\ StN = [St EXCEPT ![k] = StN[k]]
    BY <1>0, <1>2, <2>1
  <2> QED
    BY <1>4, <2>2 DEF Store!Set
<1>5. CASE ~Store!Owned(p)
  <2>1. StN = [St EXCEPT ![k] = << Store!Stored(p, v) >>]
    BY <1>2, <1>3, <1>5
  <2> QED
    BY <1>5, <2>1 DEF Store!Set
<1> QED
  BY <1>4, <1>5

\* An insert is a Put, where it names the key.
LEMMA CreateIsPut ==
    ASSUME StoreInv, InsertList = "AllColumns", NEW p \in Programs, NEW k \in Keys,
           NEW v \in Messages(column, p), NEW s \in Clock, Create(p, k, v, s)
    PROVE  Store!Put(p, k, v)
<1>1. /\ UNCHANGED <<column, held>> /\ rows[k] = <<>>
      /\ p = 0 => HasDefault(column)
      /\ rows' = [rows EXCEPT ![k] = << CellOf(p, v, s) >>]
  BY DEF Create, InsertKey
<1>2. Store!Set(p, k, v)
  BY <1>1, SetIsStores
<1> QED
  BY <1>1, <1>2 DEF Store!Put

\* An insert that leaves the key out changes nothing that can be read.
LEMMA CreateIsStutter ==
    ASSUME StoreInv, InsertList # "AllColumns", NEW p \in Programs, NEW k \in Keys,
           NEW v, NEW s, Create(p, k, v, s)
    PROVE  UNCHANGED Store!vars
<1>1. UNCHANGED <<column, held>> /\ rows' = [rows EXCEPT ![NoKey] = << CellOf(p, v, s) >>]
  BY RowsAssumption DEF Create, InsertKey
<1>2. \A l \in Keys : rows'[l] = rows[l]
  BY <1>1, RowsAssumption DEF StoreInv, RowsInv
<1> QED
  BY <1>1, <1>2 DEF Store!vars

\* An update is a Change, but for a column that is not updated.
LEMMA UpdateIsChange ==
    ASSUME StoreInv, NEW p \in Programs, NEW k \in Keys, NEW v \in Messages(column, p),
           NEW s \in Clock, Update(p, k, v, s)
    PROVE  /\ ~Store!Fixed(p) => Store!Change(p, k, v)
           /\ Store!Fixed(p) => UNCHANGED vars
<1>1. UNCHANGED <<column, table, held>> /\ rows[k] # <<>>
  BY DEF Update
<1>2. CASE ~Store!Fixed(p)
  <2>1. p # 0 /\ Mutable(column)
    BY <1>2 DEF Store!Fixed, Mutable
  <2>2. rows' = [rows EXCEPT ![k] = << CellOf(p, v, s) >>]
    BY <2>1 DEF Update
  <2>3. Store!Set(p, k, v)
    BY <1>1, <2>1, <2>2, SetIsStores
  <2>4. \A z : << z >> # <<>>
    OBVIOUS
  <2> QED
    BY <1>1, <1>2, <2>3, <2>4 DEF Store!Change
<1>3. CASE Store!Fixed(p)
  <2>1. ~(p # 0 /\ Mutable(column))
    BY <1>3 DEF Store!Fixed, Mutable
  <2>2. UNCHANGED rows
    BY <2>1 DEF Update
  <2> QED
    BY <1>1, <1>3, <2>2 DEF vars
<1> QED
  BY <1>2, <1>3

\* A read is an Answer.
LEMMA GetIsAnswer ==
    ASSUME StoreInv, NEW p \in Programs, NEW k \in Keys, Get(p, k)
    PROVE  Store!Answer(p, k)
<1> DEFINE cell == rows[k][1]
           St == [l \in Keys |-> IF rows[l] = <<>> THEN <<>>
                                 ELSE << ProtoFromModel(column, Newest, rows[l][1]) >>]
           Seen(q) == IF held[q] = <<>> THEN <<>>
                      ELSE << [key |-> held[q][1].key, value |-> held[q][1].value] >>
           SeenN(q) == IF held'[q] = <<>> THEN <<>>
                      ELSE << [key |-> held'[q][1].key, value |-> held'[q][1].value] >>
           Answered == IF Store!Answerable(p, Read(cell))
                       THEN << [key |-> k, value |-> Store!Known(p, Read(cell))] >>
                       ELSE <<>>
<1>0. UNCHANGED <<column, rows>> /\ rows[k] # <<>> /\ p \in 1..Newest
  BY RowsAssumption DEF Get, Programs
<1>1. /\ Readable(column, p, cell) <=> Store!Answerable(p, Read(cell))
      /\ Readable(column, p, cell) =>
            ProtoFromModel(column, p, cell) = Store!Known(p, Read(cell))
  BY <1>0, RowReads
<1>2. St[k] = << Read(cell) >>
  BY <1>0 DEF Read
<1>3. St[k] # <<>> /\ St[k][1] = Read(cell)
  <2> HIDE DEF St, cell, Read
  <2> QED
    BY <1>2
<1>4. \A q \in Programs :
         held'[q] = IF q = p
                    THEN IF Readable(column, p, cell)
                         THEN << [key |-> k, value |-> ProtoFromModel(column, p, cell),
                                  cell |-> cell] >>
                         ELSE <<>>
                    ELSE held[q]
  BY DEF Get, StoreInv, RowsInv
<1>5. \A q \in Programs : SeenN(q) = IF q = p THEN Answered ELSE Seen(q)
  <2> HIDE DEF cell, Read
  <2> SUFFICES ASSUME NEW q \in Programs
               PROVE  SeenN(q) = IF q = p THEN Answered ELSE Seen(q)
    OBVIOUS
  <2>1. CASE q = p /\ Readable(column, p, cell)
    <3>1. held'[q] = << [key |-> k, value |-> ProtoFromModel(column, p, cell),
                         cell |-> cell] >>
      BY <1>4, <2>1
    <3>2. /\ held'[q] # <<>> /\ held'[q][1].key = k
          /\ held'[q][1].value = ProtoFromModel(column, p, cell)
      BY <3>1
    <3> QED
      BY <1>1, <2>1, <3>2
  <2>2. CASE q = p /\ ~Readable(column, p, cell)
    BY <1>1, <1>4, <2>2
  <2>3. CASE q # p
    BY <1>4, <2>3
  <2> QED
    BY <2>1, <2>2, <2>3
<1>6. [q \in Programs |-> SeenN(q)] = [[q \in Programs |-> Seen(q)] EXCEPT ![p] = Answered]
  <2> HIDE DEF SeenN, Seen, Answered
  <2> QED
    BY <1>5
<1> HIDE DEF cell, Read
<1>7. UNCHANGED <<column, St>>
  BY <1>0
<1> QED
  BY <1>3, <1>6, <1>7 DEF Store!Answer

\* Rows from before the column read as the store has it.
LEMMA InitIsStores == Init /\ StoreInv => Store!Init
<1> SUFFICES ASSUME Init, StoreInv PROVE Store!Init
  OBVIOUS
<1>0. column \in Tables /\ \A z : << z >> # <<>> /\ << z >>[1] = z
  BY DEF Init
<1>1. ASSUME NEW k \in Keys, rows[k] # <<>>, ~Store!Owned(0)
      PROVE  << Read(rows[k][1]) >> = << Store!Stored(0, <<>>) >>
  <2>1. rows \in [Keys \cup {NoKey} -> {<<>>, << DefaultCell(column) >>}]
        /\ HasDefault(column)
    BY <1>1 DEF Init
  <2>2. rows[k] = << DefaultCell(column) >>
    BY <1>1, <2>1
  <2>3. Read(DefaultCell(column)) = Store!Stored(0, <<>>)
    BY <1>0, <1>1, <2>1, DefaultStored
  <2> QED
    BY <1>0, <2>2, <2>3
<1>2. \A k \in Keys :
         \/ rows[k] = <<>>
         \/ Store!Owned(0)
         \/ << Read(rows[k][1]) >> = << Store!Stored(0, <<>>) >>
  BY <1>1
<1>3. \A p \in Programs : held[p] = <<>>
  BY DEF Init
<1> QED
  BY <1>2, <1>3 DEF Store!Init, Store!Programs, Programs, Read

\* Every step of the rows is one of the store, or changes nothing of it.
LEMMA RequestIsStores ==
    ASSUME StoreInv, NEW p \in Programs, Request(p)
    PROVE  Store!Next \/ UNCHANGED Store!vars
<1>0. p \in Store!Programs
  BY DEF Programs, Store!Programs
<1>1. ASSUME NEW k \in Keys, NEW v \in Messages(column, p), NEW s \in Clock,
             Update(p, k, v, s)
      PROVE  Store!Next \/ UNCHANGED Store!vars
  <2>1. CASE Store!Fixed(p)
    <3>1. UNCHANGED vars
      BY <1>1, <2>1, UpdateIsChange
    <3> QED
      BY <3>1 DEF vars, Store!vars
  <2>2. CASE ~Store!Fixed(p)
    <3>1. Store!Change(p, k, v)
      BY <1>1, <2>2, UpdateIsChange
    <3> QED
      BY <1>0, <3>1 DEF Store!Next
  <2> QED
    BY <2>1, <2>2
<1>2. ASSUME NEW k \in Keys, NEW v \in Messages(column, p), NEW s \in Clock,
             Create(p, k, v, s)
      PROVE  Store!Next \/ UNCHANGED Store!vars
  <2>1. CASE InsertList = "AllColumns"
    <3>1. Store!Put(p, k, v)
      BY <1>2, <2>1, CreateIsPut
    <3> QED
      BY <1>0, <3>1 DEF Store!Next
  <2>2. CASE InsertList # "AllColumns"
    BY <1>2, <2>2, CreateIsStutter
  <2> QED
    BY <2>1, <2>2
<1>3. ASSUME NEW k \in Keys, Get(p, k)
      PROVE  Store!Next
  <2>1. Store!Answer(p, k)
    BY <1>3, GetIsAnswer
  <2> QED
    BY <1>0, <2>1 DEF Store!Next
<1>4. CASE WriteBack(p)
  <2>1. held[p][1].key \in Keys /\ held[p][1].value \in Messages(column, p)
    BY <1>4 DEF WriteBack, StoreInv, RowsInv, HeldRead, HeldMessages
  <2>2. PICK s \in Clock : Update(p, held[p][1].key, held[p][1].value, s)
    BY <1>4 DEF WriteBack
  <2> QED
    BY <1>1, <2>1, <2>2
<1> QED
  BY <1>1, <1>2, <1>3, <1>4 DEF Request

\* So every step is, and a migration changes nothing of the store.
LEMMA StepIsStores == StoreInv /\ [Next]_vars => [Store!Next]_Store!vars
<1> SUFFICES ASSUME StoreInv, [Next]_vars PROVE Store!Next \/ UNCHANGED Store!vars
  OBVIOUS
<1>1. CASE Migrate
  BY <1>1 DEF Migrate, Store!vars
<1>2. ASSUME NEW p \in Programs, Request(p)
      PROVE  Store!Next \/ UNCHANGED Store!vars
  BY <1>2, RequestIsStores
<1>3. CASE UNCHANGED vars
  BY <1>3 DEF vars, Store!vars
<1> QED
  BY <1>1, <1>2, <1>3 DEF Next

\* The rows implement a store of messages: whatever the column is encoded as, and
\* whatever releases write and read it, what a program reads is what its release
\* knows of the last message stored (writeModelFromProto, writeProtoFromModel).
THEOREM RowsImplementStore == Spec => StoresMessages
<1>1. Init => Store!Init
  BY InitStored, InitIsStores
<1> QED
  BY <1>1, StepIsStores, StoreInvHolds, PTL DEF Spec, Store!Spec, StoresMessages

\* And they do call by call, if an INSERT names all columns: with the columns
\* go-jet calls mutable it leaves the key out, and the message goes elsewhere.
THEOREM CallsMatch ==
    ASSUME InsertList = "AllColumns"
    PROVE  Spec => CallsAreTheStores
<1> DEFINE AsStores ==
              \A p \in Programs, k \in Keys :
                 /\ Get(p, k) => Store!Answer(p, k)
                 /\ \A v \in Messages(column, p), s \in Clock :
                       /\ Create(p, k, v, s) => Store!Put(p, k, v)
                       /\ Update(p, k, v, s) /\ ~Store!Fixed(p) => Store!Change(p, k, v)
                       /\ Update(p, k, v, s) /\ Store!Fixed(p) => UNCHANGED rows
<1>1. StoreInv => AsStores
  <2> SUFFICES ASSUME StoreInv, NEW p \in Programs, NEW k \in Keys
               PROVE  /\ Get(p, k) => Store!Answer(p, k)
                      /\ \A v \in Messages(column, p), s \in Clock :
                            /\ Create(p, k, v, s) => Store!Put(p, k, v)
                            /\ Update(p, k, v, s) /\ ~Store!Fixed(p) => Store!Change(p, k, v)
                            /\ Update(p, k, v, s) /\ Store!Fixed(p) => UNCHANGED rows
    OBVIOUS
  <2>1. Get(p, k) => Store!Answer(p, k)
    BY GetIsAnswer
  <2>2. ASSUME NEW v \in Messages(column, p), NEW s \in Clock
        PROVE  /\ Create(p, k, v, s) => Store!Put(p, k, v)
               /\ Update(p, k, v, s) /\ ~Store!Fixed(p) => Store!Change(p, k, v)
               /\ Update(p, k, v, s) /\ Store!Fixed(p) => UNCHANGED rows
    BY CreateIsPut, UpdateIsChange DEF vars
  <2> QED
    BY <2>1, <2>2
<1> QED
  BY <1>1, StoreInvHolds, PTL DEF CallsAreTheStores
===============================================================================
