-------------------------------- MODULE Plans --------------------------------
(***************************************************************************)
(* The plans the generator makes of the annotated messages: what it accepts  *)
(* of one message (resolve.go: validatePlan), how it completes a foreign key  *)
(* over all of them (resolve_fk.go) and the statements it writes for one      *)
(* (emit_sql.go).                                                            *)
(*                                                                         *)
(* A name is the sequence of its words, which the code joins with "_": two    *)
(* names are the same exactly if their words are.  Left out: the encoding of   *)
(* columns (module Columns), policies, comments, custom SQL.                   *)
(***************************************************************************)
EXTENDS Integers, FiniteSets, Sequences, Functions, SequencesExt

CONSTANT MaxIdent   \* the longest name, in words

ASSUME MaxIdentAssumption == MaxIdent \in Nat

NoField == ""
SynthesizedColumn(c) == c.field = NoField

---------------------------------------------------------------------------
(* The types of plan.go *)

Words == Seq(STRING)

\* The word that unique constraints begin with is a string, as every literal is.
ASSUME UniquePrefixAssumption == "uq" \in STRING

\* The synthesized columns come first and have no field.  A JSON path is a sequence
\* of names.
ColumnPlan == [name : Words, field : STRING, unique : BOOLEAN, nullable : BOOLEAN,
               default : BOOLEAN, check : BOOLEAN, orderable : BOOLEAN,
               paths : Seq(Seq(Words)), gin : BOOLEAN]

OneofColumnPlan == [base : Words, paths : Seq(Seq(Words))]

IndexPlan == [name : Words, columns : Seq(Words), unique : BOOLEAN, where : BOOLEAN]

\* A unique that a foreign key has added.
SupplementalUniqueConstraint == [name : Words, columns : Seq(Words)]

\* actions are what on_delete and on_update do to the column, if they do anything;
\* the last three are empty until the key is completed.
ForeignKeyPlan == [column : Words, message : STRING, field : STRING,
                   actions : SUBSET {"SET NULL", "SET DEFAULT"}, backing : BOOLEAN,
                   table : Words, target : Seq(Words), local : Seq(Words)]

\* dir is the output directory, file the rank of the DDL file's name in it; scope is
\* <<>>, <<tenant>> or <<tenant, user>>; there is one foreign key for each column
\* that has one.
ResourcePlan == [fqn : STRING, dir : Nat, file : Nat, table : Words, scope : Seq(Words),
                 columns : Seq(ColumnPlan), oneofs : Seq(OneofColumnPlan),
                 primaryKey : Seq(Words), partition : Seq(Words),
                 defaultOrder : Seq(Words), tieBreaker : Seq(Words),
                 indexes : Seq(IndexPlan),
                 supplementals : Seq(SupplementalUniqueConstraint),
                 foreignKeys : Seq(ForeignKeyPlan)]

---------------------------------------------------------------------------
(* Names *)

\* A oneof is a column for the name of its variant and one for its value.
KindColumn(o) == o.base \o <<"kind">>
OneofColumns(p) == UNION { {KindColumn(o), o.base} : o \in Range(p.oneofs) }

ColumnNames(p) == { c.name : c \in Range(p.columns) } \cup OneofColumns(p)

UniqueName(p, c) == <<"idx">> \o p.table \o c \o <<"unique">>
PathIndexName(p, c, path) == <<"idx">> \o p.table \o c \o FlattenSeq(path)
GinName(p, c) == <<"idx">> \o p.table \o c \o <<"gin">>
CheckName(p, c) == p.table \o c \o <<"check">>
KindValidName(p, o) == p.table \o o.base \o <<"kind", "valid">>
FKIndexName(p, c) == <<"idx">> \o p.table \o c \o <<"fk">>
ConstraintName(p, c) == p.table \o c \o <<"fkey">>
SupplementalName(p, c) == <<"uq">> \o p.table \o p.scope[1] \o c

IdentFits(name) == Len(name) <= MaxIdent

---------------------------------------------------------------------------
(* One message: validatePlan *)

\* No name twice.
ValidColumns(p) ==
    \A i, j \in DOMAIN p.columns : p.columns[i].name = p.columns[j].name => i = j

\* A column that is set to null can be null, one that is set to its default has one.
ValidActions(p) ==
    \A fk \in Range(p.foreignKeys), c \in Range(p.columns) :
        c.name = fk.column =>
            /\ "SET NULL" \in fk.actions => c.nullable
            /\ "SET DEFAULT" \in fk.actions => c.default

\* The primary key holds the columns that scope the table and those that
\* partition it.
ValidKey(p) ==
    /\ p.primaryKey # <<>>
    /\ Range(p.primaryKey) \subseteq ColumnNames(p)
    /\ Range(p.scope) \subseteq Range(p.primaryKey)
    /\ Range(p.partition) \subseteq Range(p.primaryKey)

\* The columns of a oneof have names of their own.
ValidOneofs(p) ==
    \A k \in DOMAIN p.oneofs :
        LET others == { c.name : c \in Range(p.columns) }
                      \cup OneofColumns([p EXCEPT !.oneofs = SubSeq(@, 1, k - 1)])
        IN {KindColumn(p.oneofs[k]), p.oneofs[k].base} \cap others = {}

\* A unique index covers the scope, unless it is partial.
ValidIndexes(p) ==
    \A x \in Range(p.indexes) :
        /\ Range(x.columns) \subseteq ColumnNames(p)
        /\ x.unique /\ ~x.where => Range(p.scope) \subseteq Range(x.columns)

\* What has JSON paths with an index: the columns, then the oneofs.
JSONColumns(p) ==
    [k \in DOMAIN p.columns |-> [name |-> p.columns[k].name, paths |-> p.columns[k].paths]]
    \o [k \in DOMAIN p.oneofs |-> [name |-> p.oneofs[k].base, paths |-> p.oneofs[k].paths]]

\* The indexes the options of columns make, but those of foreign keys: for each
\* [name, column], by kind.
PathIndexes(p) ==
    FlattenSeq([k \in DOMAIN JSONColumns(p) |->
        LET c == JSONColumns(p)[k]
        IN [l \in DOMAIN c.paths |->
               [name |-> PathIndexName(p, c.name, c.paths[l]), column |-> c.name]]])

GinIndexes(p) ==
    FlattenSeq([k \in DOMAIN p.columns |->
        LET c == p.columns[k]
        IN IF c.gin THEN << [name |-> GinName(p, c.name), column |-> c.name] >> ELSE <<>>])

UniqueIndexes(p) ==
    FlattenSeq([k \in DOMAIN p.columns |->
        LET c == p.columns[k]
        IN IF c.unique THEN << [name |-> UniqueName(p, c.name), column |-> c.name] >> ELSE <<>>])

\* No two indexes of a table have one name, and no name is too long that is made
\* of others.
ValidNames(p) ==
    LET implied == PathIndexes(p) \o GinIndexes(p) \o UniqueIndexes(p)
        names == [k \in DOMAIN p.indexes |-> p.indexes[k].name]
                 \o [k \in DOMAIN implied |-> implied[k].name]
    IN /\ IsInjective(names)
       /\ \A x \in Range(implied) : IdentFits(x.name)
       /\ \A c \in Range(p.columns) : c.check => IdentFits(CheckName(p, c.name))
       /\ \A o \in Range(p.oneofs) : IdentFits(KindValidName(p, o))

\* A unique column is not the key.
ValidUniques(p) ==
    \A c \in Range(p.columns) : c.unique => p.primaryKey # <<c.name>>

\* Mutant: lists sort by any column.
ValidOrderKnown(p) == Range(p.defaultOrder \o p.tieBreaker) \subseteq ColumnNames(p)

\* Lists sort by orderable columns; the synthesized ones count as orderable.
ValidOrder(p) ==
    Range(p.defaultOrder \o p.tieBreaker) \subseteq
        { c.name : c \in { d \in Range(p.columns) : d.orderable \/ SynthesizedColumn(d) } }

ValidPlan(p) ==
    /\ ValidColumns(p) /\ ValidActions(p) /\ ValidOneofs(p) /\ ValidKey(p) /\ ValidIndexes(p)
    /\ ValidNames(p) /\ ValidUniques(p) /\ ValidOrder(p)

---------------------------------------------------------------------------
(* Foreign keys over all plans *)

\* The plan that carries the message a foreign key names, and its column.
Targets(plans, fk) == { k \in DOMAIN plans : plans[k].fqn = fk.message }
TargetColumns(target, fk) ==
    { c \in Range(target.columns) : c.field = fk.field /\ ~SynthesizedColumn(c) }

Scoped(p) == p.scope # <<>>

IsFKEligibleTarget(target, c) == target.primaryKey = <<c.name>> \/ c.unique

\* Mutant: a scoped column of the key will do.
TargetPKContainsColumn(target, c) == c \in Range(target.primaryKey)

\* The key is the tenant and the column, in either order.
TargetPKCoversTenantComposite(target, c) ==
    /\ Len(target.primaryKey) = 2
    /\ Range(target.primaryKey) = {target.scope[1], c}

\* Mutant: any index on the column will do.
ColumnInSomeIndex(p, c) ==
    \/ c \in Range(p.primaryKey)
    \/ \E x \in Range(p.indexes) : c \in Range(x.columns)
    \/ \E d \in Range(p.columns) : d.name = c /\ d.unique

\* An index leads with the column.  That of a unique column leads with the
\* tenant if there is one.
ColumnAlreadyCovered(p, c) ==
    \/ p.primaryKey[1] = c
    \/ \E x \in Range(p.indexes) : x.columns[1] = c
    \/ \E d \in Range(p.columns) : d.name = c /\ d.unique /\ ~Scoped(p)

\* The foreign key refers to something, the two tables are both scoped or both
\* not, and an unscoped target is unique already.
Resolvable(plans, p, fk) ==
    \E k \in Targets(plans, fk) :
        \E c \in TargetColumns(plans[k], fk) :
            /\ Scoped(p) = Scoped(plans[k])
            /\ Scoped(p) \/ IsFKEligibleTarget(plans[k], c)

\* Mutant: every foreign key adds its own.
AddSupplementalAlways(uqs, uq) == Append(uqs, uq)

\* A unique is added once.
AddSupplementalUnique(uqs, uq) ==
    IF \E k \in DOMAIN uqs : uqs[k].name = uq.name THEN uqs ELSE Append(uqs, uq)

\* Mutant: the columns of the target come in the other order.
CompletedSwapped(p, fk, target, c) ==
    [fk EXCEPT
        !.table = target.table,
        !.target = IF Scoped(p) THEN <<c.name, target.scope[1]>> ELSE <<c.name>>,
        !.local = IF Scoped(p) THEN <<p.scope[1], fk.column>> ELSE <<fk.column>>,
        !.backing = fk.backing /\ ~ColumnAlreadyCovered(p, fk.column)]

\* What a resolvable foreign key of p is made into by a target.
Completed(p, fk, target, c) ==
    [fk EXCEPT
        !.table = target.table,
        !.target = IF Scoped(p) THEN <<target.scope[1], c.name>> ELSE <<c.name>>,
        !.local = IF Scoped(p) THEN <<p.scope[1], fk.column>> ELSE <<fk.column>>,
        !.backing = fk.backing /\ ~ColumnAlreadyCovered(p, fk.column)]

\* The target's plan, with a unique for the reference if it needs one.
Referenced(target, c) ==
    IF Scoped(target) /\ ~TargetPKCoversTenantComposite(target, c.name) /\ ~c.unique
    THEN [target EXCEPT !.supplementals =
             AddSupplementalUnique(@, [name |-> SupplementalName(target, c.name),
                                       columns |-> <<target.scope[1], c.name>>])]
    ELSE target

\* The plans after foreign key j of plan i.  It changes two of them, or one
\* twice, and changes nothing if it cannot be resolved.
CompleteFK(plans, i, j) ==
    LET p == plans[i]
        fk == p.foreignKeys[j]
    IN IF ~Resolvable(plans, p, fk) THEN plans
       ELSE LET k == CHOOSE k \in Targets(plans, fk) : TRUE
                c == CHOOSE c \in TargetColumns(plans[k], fk) : TRUE
            IN [plans EXCEPT ![i].foreignKeys[j] = Completed(p, fk, plans[k], c),
                             ![k].supplementals = Referenced(plans[k], c).supplementals]

\* Resolved, and with names that are not too long.
FKAccepted(plans, i, j) ==
    LET p == plans[i]
        fk == p.foreignKeys[j]
    IN /\ Resolvable(plans, p, fk)
       /\ fk.backing /\ ~ColumnAlreadyCovered(p, fk.column)
             => IdentFits(FKIndexName(p, fk.column))
       /\ IdentFits(ConstraintName(p, fk.column))

---------------------------------------------------------------------------
(* The statements of a DDL file: renderSchemaSQL *)

CreateTable(p) ==
    [op |-> "table", name |-> p.table, columns |-> ColumnNames(p),
     nullable |-> { c.name : c \in { d \in Range(p.columns) : d.nullable } },
     default |-> { c.name : c \in { d \in Range(p.columns) : d.default } },
     primaryKey |-> p.primaryKey, partition |-> Range(p.partition),
     scope |-> Range(p.scope),
     foreignKeys |-> { [local |-> fk.local, table |-> fk.table, target |-> fk.target,
                        actions |-> fk.actions] : fk \in Range(p.foreignKeys) }]

CreateIndex(p, name, columns, unique, where) ==
    [op |-> "index", name |-> name, table |-> p.table, columns |-> columns,
     unique |-> unique, where |-> where]

Supplementals(p) ==
    [k \in DOMAIN p.supplementals |->
        CreateIndex(p, p.supplementals[k].name, p.supplementals[k].columns, TRUE, FALSE)]

Indexes(p) ==
    [k \in DOMAIN p.indexes |->
        CreateIndex(p, p.indexes[k].name, p.indexes[k].columns, p.indexes[k].unique,
                    p.indexes[k].where)]

\* Mutant: a unique column is unique in the whole table.
UniqueColumnIndexesUnscoped(p) ==
    [k \in DOMAIN UniqueIndexes(p) |->
        LET x == UniqueIndexes(p)[k] IN CreateIndex(p, x.name, <<x.column>>, TRUE, FALSE)]

\* The index of a unique column leads with the scope.
UniqueColumnIndexes(p) ==
    [k \in DOMAIN UniqueIndexes(p) |->
        LET x == UniqueIndexes(p)[k]
        IN CreateIndex(p, x.name, p.scope \o <<x.column>>, TRUE, FALSE)]

JSONBIndexes(p) ==
    LET xs == PathIndexes(p) \o GinIndexes(p)
    IN [k \in DOMAIN xs |-> CreateIndex(p, xs[k].name, <<xs[k].column>>, FALSE, FALSE)]

ForeignKeyIndexes(p) ==
    FlattenSeq([k \in DOMAIN p.foreignKeys |->
        LET fk == p.foreignKeys[k]
        IN IF fk.backing
           THEN << CreateIndex(p, FKIndexName(p, fk.column), <<fk.column>>, FALSE, FALSE) >>
           ELSE <<>>])

RenderSchemaSQL(p) ==
    <<CreateTable(p)>> \o Supplementals(p) \o Indexes(p)
        \o UniqueColumnIndexes(p) \o JSONBIndexes(p) \o ForeignKeyIndexes(p)

---------------------------------------------------------------------------
(* The list schema the generated package declares: emitSchema.  It has the     *)
(* orderable columns of the message; the page sizes keep NewSchema's defaults.   *)
(* Directions do not matter to what is asked of it here.                        *)
OrderOf(columns) == [k \in DOMAIN columns |-> [path |-> columns[k], dir |-> "asc"]]

ListSchemaOf(p) ==
    [resourceType |-> p.fqn,
     fields |-> [c \in { d.name : d \in { e \in Range(p.columns) :
                                            e.orderable /\ ~SynthesizedColumn(e) } } |->
                    [disabled |-> FALSE, wired |-> TRUE]],
     defaultOrder |-> OrderOf(p.defaultOrder), tieBreaker |-> OrderOf(p.tieBreaker),
     defaultPageSize |-> 50, maxPageSize |-> 1000]
===============================================================================
