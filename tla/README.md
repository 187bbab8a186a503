# A verification of protoc-gen-go-jet in TLA+

protoc-gen-go-jet turns annotated protobuf messages into PostgreSQL DDL, go-jet
table code, row mappers and list schemas.  Its binary also compares the DDL
with a directory of migrations, and `pkg/aip` is the run-time library the
generated list schemas use.  The modules here model the parts of it that decide
something; TLC checks them on small instances, TLAPS proves the results that
matter most for every size.  Paths are relative to the repository (`src/`);
`gen/` stands for `cmd/protoc-gen-go-jet/`.

Contents: [1 inventory](#1-inventory), [2 what is hard](#2-what-is-hard),
[3 modules](#3-modules), [4 runs](#4-runs), [5 fairness](#5-fairness),
[6 proofs](#6-proofs), [7 where code and comments
differ](#7-where-the-code-and-its-comments-differ), [8 not
modelled](#8-what-is-not-modelled), [9 plan](#9-plan), [10 running it](#10-running-it).

## 1. Inventory

| Part | Code | State it keeps | Operations | What makes it correct |
|---|---|---|---|---|
| List pagination | `pkg/aip/{order,page,codec}.go`, `pkg/aip/jet/{plan,schema,execute}.go` | none on the server; the page token carries cursor, order, hash of the filter, resource and time | `ParseOrderBy`, `NewSchema`, `BuildPlan`, `ExecuteWithCondition`, `EncodeToken`, `ValidateToken` | no row twice, none skipped, a token only ever resumes its own list, lists end |
| List filters | `pkg/aip/jet/filter.go` | none | `FilterToCondition` | the answer is the rows the filter means; nothing it says is dropped |
| Name filters | `pkg/aip/filter.go` | none | `ParseNameFilter` | (not modelled) |
| Validation of annotations | `gen/resolve.go`, `gen/plan.go` | one plan per message | `resolveResource`, `resolveColumn` and `inferFieldEncoding` (what a field becomes), `validatePlan` | what it accepts, PostgreSQL accepts; the check, the default and NOT NULL of a column agree; uniqueness stays within a tenant |
| Foreign keys | `gen/resolve_fk.go` | the plans of all messages, changed in place | `parseFKAnnotation`, `resolveForeignKeys`, `completeFK` | the result does not depend on the order of messages; every reference has its unique and its index |
| Rendering of DDL | `gen/emit_sql.go` | the DDL files | `emitSchemaSQL` | statements in an order PostgreSQL accepts |
| Order of DDL files | `gen/apply_ddl.go` | counters and a ready list | `topoSortDDL` | targets first, deterministic, refused only for a cycle |
| A generator run | `gen/main.go`, `gen/jet_runner.go` | the output tree, a scratch database per directory | resolve, detect duplicates, complete keys, emit, sort, apply | all or nothing; a run that reaches a database does not fail there |
| Drift check and scaffold | `gen/check.go`, `gen/migration_scaffold.go` | two scratch databases, the migrations directory | `runCheck`, `runMigrationScaffold`, `snapshotTable`, `computeTableDelta` | "ok" means no drift; the two commands agree; containers go away |
| Scratch databases | `internal/testcontainers`, `internal/tests` | one container each | `NewPostgres`, `Terminate` | what is started is handed over or stopped |
| Mappers | `gen/emit_mapper.go` | none; the rows are in the table | the generated `<X>ModelFromProto` and `<X>ProtoFromModel` | a row always reads; a message is refused only for what its author ruled out; what a round trip loses can be named |
| List schema of a message | `gen/emit_schema.go` | none | `emitSchema`, `validateOrderable`, `codecForColumn` | what the generator accepts `NewSchema` accepts; the codec of a cursor fits its column |
| Column lists | `gen/emit_aliases.go` | none | the generated `<X>UpdateAll` | what is immutable or computed is never set (partly modelled) |
| Filter fields, go-jet set-up, timestamp arrays, options, end-to-end harness | `gen/emit_aliases.go`, `pkg/pgstore`, `proto/gojet/v1/options.proto`, `gen/e2e` | none | text emission, configuration | (not modelled or by their effect, section 8) |

How they meet.  `main.go` calls resolution, the foreign-key pass, emission and
per directory the sorter and a scratch database; the sorter, the DDL files and
the scratch databases are shared with the two drift commands, which read what a
generator run has left on disk and what the developer has written as
migrations.  The generated list schema is a value of `pkg/aip/jet`'s `Schema`,
created at program start; the request handlers call `FilterToCondition` and
then `ExecuteWithCondition` with its condition.  The generated mappers are used
by repositories of several releases at a time, against the one table that the
migrations have made so far.

## 2. What is hard

* A list is many requests with nothing kept between them, while others write
  the table, servers of two versions answer, tokens age, are presented again or
  to the wrong server.
* Filters mix SQL's three-valued logic, NULLs in arrays and LIKE's
  metacharacters under arbitrary negation.
* Completing a reference changes *another* message's plan, in a loop over all
  of them, and the DDL made of the result is only tested when PostgreSQL sees it.
* A generator run has several stages, each of which collects errors, over a tree
  that still holds the files of earlier runs.
* During a rollout, programs of several releases read and write one table: an
  older one writes back messages with choices and fields it does not know, a
  newer one reads rows from before its column was there.  What mapper, check,
  default and NOT NULL each make of nil, zero and an unknown name must agree for
  every kind of column and every combination of options.
* A drift command bootstraps two databases in parallel under one deadline, and
  its verdict rests on queries that must read all that can differ.

`PROJECT.json` lists each of these as a hazard at the line where it bites, with
the properties that would catch it.

## 3. Modules

```
 Keyset <- ListSchema <- Pagination <- MCPagination <- MCKeyedLists <- MCOneList
   |                       |   \ refines ListPromise
                  PaginationProofs <- TokenProofs    Foundations (of all *Proofs)

 TopoSort <- MCTopoSort        Plans <- Catalog \
    |   \------------------------------------- Generate <- MCGenerate <- MCIrregular
 TopoSortProofs <----------------------------- /               \ MCRegular, MCAny
                              GenerateProofs

 Columns <- Mapper <- Rows <- MCRows       ListSchema <- Generate (its lists)
                       |  \ refines MessageStore
                  RowsProofs

 FilterSQL <- Filter <- MCFilter        TableShape <- DriftCheck <- MCDriftCheck <- MCReadInFull
                |                                       |
           FilterProofs                          DriftCheckProofs
```

**Keyset, ListSchema, Pagination.**  `Keyset` is `buildKeysetCondition` with its
row comparison and its OR-chain, next to the order of `ORDER BY`.  `ListSchema`
has everything that is a function: parsing of `order_by`, `NewSchema`'s checks,
the effective order (client's order or default, then tie-breaker), codecs,
tokens, `BuildPlan`.  A text in a token does not say which codec wrote it, so what
another version's codec makes of it is a constant (`Reads`): it is refused or read
as the same value.  `Pagination` is the system: servers, each with a schema
(two servers with one resource type are two versions of it), a client
(`StartList`, `NextPage`), other writers (`Insert`, `Delete`, `Update`) and a
clock (`Tick`).  A request is one SQL statement on one snapshot, so one step.
A token is the record it decodes to, its hash of the filter injective; PageSize
+ 1 is the int32 sum of the code (`Limit`).  `ListPromise` is what a list
promises whatever implements it: batches without repetition, and an end only
when nothing is owed.

**FilterSQL, Filter.**  `FilterSQL` (external) is what PostgreSQL makes of a
condition: three-valued logic, `LIKE`, `= ANY`, texts as sequences of characters
in the order of a collation.  `Filter` is `FilterToCondition` from the parser's
tree to a condition, with the request around it: a client writes a filter
(`AddTerm`, `Connect`), the server translates it or refuses it
(`TranslateFilter`), the query runs (`RunQuery`).  The connectives of a tree are
a table of nodes, each after its arguments (`nodes`), and the recursive calls of
`translate` are a function over that table (`Translations`); a condition is the
truth value it has on each row.  The meaning of a filter (`Says`, `Denies`,
`Agreements`) is stated from the header of the file, not from the translation,
and uses none of SQL's truth values: what a row says of `!=`, `<=` and of a
negated filter is its own clause, and containment (`Occurs`) knows neither
patterns nor escapes.

**Plans, Catalog, Generate.**  `Plans` has the rules of `validatePlan`, the
completion of a foreign key, the statements of a DDL file, with the columns of
oneofs and the indexes of JSON paths, and the list schema of a message
(`ListSchemaOf`), which `Generate` holds against the `Validate` of its instance of
`ListSchema`.  A name is the
sequence of its words, since the code builds names by joining words with `_`
and two of them may collide.  `Catalog` (external) is what PostgreSQL accepts:
names of relations, unique keys behind references, partition columns in unique
indexes.  `Generate` is the run with its stages, one action per turn of each
loop, over a tree that survives from run to run.  It extends `TopoSort`, so the
sort of a directory is the sort that `TopoSort` is checked and proved for.

**Columns, Mapper, Rows, MessageStore.**  `Columns` is what the generator makes of
one annotated field: its kind by shape and type, whether it can be NULL, its
check, its default, and which options it refuses.  `Mapper` has the two generated
conversions of a value, by kind and nullability, and what a table accepts.  `Rows`
is the system: a program of each release inserts (`Create`), updates (`Update`),
reads (`Get`) and writes back what it has read (`WriteBack`), each with the mapper
of its own release, and the table is migrated (`Migrate`) at any time; release r
knows the enum numbers 0..r, the variants 1..r of a oneof and the fields 1..r of a
nested message, and release 0 is from before the column.  Each column is converted
by code of its own, so the table has one besides its key and TLC starts from every
field.  `MessageStore` is the abstract specification: a map from keys to messages,
nothing of rows or texts.  What it gives back may differ from what was sent, and
each difference has a name: `Known` (what a release has no name for), `Rounded`
(times, and durations beyond what an int64 of nanoseconds holds), `Collapsed` (nothing and the empty value), `Owned` (stamps, computed
columns, an author's default).

**TopoSort** is Kahn's loop with its counters and ready set; one step is one
turn.

**TableShape, DriftCheck.**  `TableShape` has the shape of a table, what
`snapshotTable` reads of it, and the two comparisons: `cmp.Diff` (equality of
snapshots) and `computeTableDelta`.  `DriftCheck` has the developer
(`EditMessage`, `WriteMigration`, run a command with a choice of
`--resources`), the two goroutines of the bootstrap as independent actions,
`Wait`, comparison table by table, the deferred teardowns in their order, and
`Expire`, the deadline, at any moment.  A DDL file, the migrations and the queries of
a comparison may also fail for a reason outside the model.  `NewPostgres` may fail before there is a
container, or after, when nobody can terminate it ("lost").

`PROJECT.json` maps each definition to the lines it models.  Operators whose
comment begins with "Mutant:" are deliberate mistakes in the code modelled by the
operator below them; with one of them in the place of that operator TLC must
find some property violated.  No specification uses them.

## 4. Runs

Passing:

| Run | Question | Properties |
|---|---|---|
| `ListRollout` | Two versions of a schema and another resource serve side by side. Can a token do anything but resume its own list? | `TypeOK` `TokenResumes` |
| `ListOne` | A list page by page, while rows are inserted, updated, deleted and time passes. | `StrictlyOrdered` `NothingSkipped` `OnlyExpiryStopsAList` `ListsEnd` `KeepsPromise` |
| `Filter` | Every comparison of every kind of column, with NULLs and metacharacters, under connectives. | `AnswersTheFilter` `RefusesOnlyTheUnlisted` `NegationSplitsTheTable` |
| `TopoSort` | Three files, every set of references. | `TopoTypeOK` `CreatedFirst` `InputOrderBreaksTies` `CycleIsReal` `SortEnds` |
| `GenerateRegular` | Three messages with every key, index, scope and reference of the intended use, in three orders. Does PostgreSQL take the result, and are tenants apart? | `AppliesCleanly` `ReferencesStayInTenant` `UniquenessStaysInScope` `ForeignKeysAreBacked` |
| `GenerateAny` | Two runs of any two messages, good or bad, over one tree. | `GenerateTypeOK` `ResolvedAsASet` `EveryFileWritten` `AcceptedSchemasStart` `RunEnds` |
| `DriftCheck` | Developer, scaffold, check, with failing containers and the deadline. | `DriftTypeOK` `OkMeansNoDrift` `DeltaIsWhatCheckCompares` `ScaffoldConverges` `ContainersAreTerminated` `CommandsEnd` |
| `Rows` | Programs of three releases use one table through the generated code while it is migrated, for every kind of field. Does every row read, is nothing refused but what was ruled out, and does an old program leave alone what it does not know? | `TypeOK` `EveryRowReads` `OnlyNamedRefusals` `DefaultsAreAccepted` `CursorsFit` `UnknownChoicesAreKept` `StoresMessages` `CallsAreTheStores` |

Violated, see section 7: `RefSelf`, `TenantOrder`, `DriftUnread`, `UnknownFields`.

### Bounds, and why they are enough

* *Lists.*  Three rows, three values per column, two columns (a key and a rank,
  so that ranks tie), default and maximal page sizes 1 and 2, up to two writes,
  token age 1 and clock 0..2.  Three pages of one row, or one of two and one of
  one, with a write in every gap: an error of the cursor needs two adjacent
  pages and a row that moves across their border.  The tie-breaker ascends where
  the default order descends, so both branches of the keyset condition run.  The two
  versions in `ListRollout` take ranks for integers and for floats, each reads the
  other's texts, and with the tie-breaker named in the request both have one order.
  `MaxInt` is 7: the schemas of the passing runs keep below it, as a
  sane `WithMaxPageSize` does; `UncappedSchema` does not.  All rows, writes and
  sizes are covered by the proofs.
* *Filters.*  A column of each kind; rows with and without NULL, also inside an
  array; needles with each of `%`, `_`, `\`, in both letter cases.  Every
  comparison stands alone and in every tree of up to five nodes (`MaxNodes`) with
  the three `Terms`, two that treat NULL differently and one that is not listed:
  a negation over a conjunction over a negation occurs, and so does a term that
  cannot be translated in any place of either connective.  All trees, tables and
  collations are covered by the proofs.
* *Sorting.*  Three files: the smallest cycle longer than a pair, a chain, two
  files that wait for a third.  The table of the first file may be created by the
  third again.  `TopoSortProofs` covers every number of files.
* *Generation.*  Three messages is a target with two references to it, or a
  chain.  A longest name of five words (four in `GenerateAny`) stands for 63
  bytes: the names of two-word tables in `GenerateAny` are too long.  A column on which
  an action is not possible is refused for SET NULL and for SET DEFAULT, once each.  One run
  suffices for `GenerateRegular` because a run over an empty tree meets all that the
  properties speak of; `GenerateAny` has two.
* *Drift.*  Two tables, one of which may refer to the other and comes first by
  name; three edits and two migrations are a first migration, a change and the
  migration of the change, with an edit between the scaffold and its migration.
  The shapes of one table differ in a column, a default, a check, an index, a
  reference and a comment, those of the other, which need not be listed, in the
  role of a policy.
* *Rows.*  One key, since rows do not meet; releases 0 to 2, the smallest number
  with a program that lacks the column, one that is behind and one that is not.
  Enum numbers 0..3, of which release 1 knows 0..1 and release 2 knows 0..2, so
  that one number has no name at all.  Four values of an unsigned integer, of which
  0 and 3 (below and above half) occur; three ticks of a message's clock (0..3) in one of
  the table's, so that one time is nearer to the tick before it and one to the tick
  after, and none half way; durations from -3 to 2 where -2..1 are stored, so that
  both ends are reached and passed; lists of at most one element and maps of at most one key, as
  elements are converted one by one.  Options alone and in those pairs that bear
  on each other (`OptionSets`).

Deadlock is not an error (`CHECK_DEADLOCK FALSE`) where the system may stop: a
list that has ended, a filter answered, a sort finished, all runs done; and in `Rows`, where nothing can
be inserted into a table with a computed column by a program that lists it.  In
`DriftCheck` it is checked.

## 5. Fairness

* `Pagination!FairSpec`: a client in the middle of a list asks again, and some
  server answers.  Only `ListsEnd` and the liveness part need it.  It is weak
  fairness of `AskNextPage`, written with its enabling condition spelled out
  (`Advances`) because TLC would otherwise compute it in every state.  No writer
  and no clock is fair.
* `TopoSort!FairTopoSpec`, `Generate!FairSpec`: the sorter and the generator are sequential
  code that runs on.  Nobody has to start a run.
* `DriftCheck!FairSpec`: Docker, PostgreSQL and golang-migrate answer, with
  success or an error.  For the start of a container and for migrations this is an
  assumption, since neither is given the command's deadline
  (`internal/testcontainers/postgres.go:60`, which has a context of its own;
  `gen/check.go`, `applyMigrations`); for the rest the deadline makes it so.  The developer is not fair.

## 6. Proofs

| Theorem | Module | Says |
|---|---|---|
| `TupleComparisonIsSortsBefore`, `KeysetKeepsWhatSortsAfter` | `PaginationProofs` | The row comparison, and the OR-chain, keep exactly the rows that `ORDER BY` puts after the cursor, for every order and every cursor. |
| `ListInvariant` | `PaginationProofs` | `ListInv` holds of every instance whose schemas are keyed. |
| `ListsAreStrictlyOrdered`, `ListsSkipNothing` | `PaginationProofs` | `StrictlyOrdered` and `NothingSkipped`, for any tables, writers, page sizes, schemas and rollouts. |
| `PagingKeepsPromise` | `TokenProofs` | The refinement `KeepsPromise`: every step of `Pagination` is a step of `ListPromise` or none. |
| `TokensResume` | `TokenProofs` | `TokenResumes`, for any servers, versions, filters, orders and times. |
| `OnlyExpiryStops` | `TokenProofs` | `OnlyExpiryStopsAList` among servers of one version of each schema. |
| `PagingIsTyped` | `TokenProofs` | `TypeOK` of `Pagination`. |
| `FilterInvariant` | `FilterProofs` | `IInv` of `FilterProofs`: what the client wrote is one tree, and a request that got on has its condition and its rows. |
| `FilterAnswers` | `FilterProofs` | `AnswersTheFilter` for any table, collation and tree. |
| `FilterRefuses` | `FilterProofs` | `RefusesOnlyTheUnlisted`, likewise. |
| `FilterNegates` | `FilterProofs` | `NegationSplitsTheTable`, likewise. |
| `LikeFindsText`, `TreeFaithful` | `FilterProofs` | The two facts they rest on: an escaped needle between two `%` matches where it occurs; every node has the truth value of what it says. |
| `TopoInvariant`, `SorterIsTyped` | `TopoSortProofs` | `TopoInv`, and `TopoTypeOK` that is part of it. |
| `TablesAreCreatedFirst`, `OrderIsDeterministic`, `RefusedOnlyForACycle` | `TopoSortProofs` | `CreatedFirst`, `InputOrderBreaksTies`, `CycleIsReal` for any files. |
| `GenInvariant`, `GeneratorIsTyped` | `GenerateProofs` | `GenInv`, and `GenerateTypeOK` that follows from it, for any messages and any number of runs over one tree. |
| `ResolutionIsOrderFree` | `GenerateProofs` | `ResolvedAsASet`: what the foreign keys make of the plans is a function of the set of messages. |
| `TenantsStayApart` | `GenerateProofs` | `ReferencesStayInTenant`, if a table has one scope (`SettledScopes`). |
| `ScopesStayApart` | `GenerateProofs` | `UniquenessStaysInScope`, if nothing refers to a user-scoped message (`TenantScopedTargets`). |
| `ReferencesAreBacked` | `GenerateProofs` | `ForeignKeysAreBacked`, if no index that leads with a reference is partial (`WholeIndexes`). |
| `DatabaseAccepts` | `GenerateProofs` | `AppliesCleanly`: a run that has emitted its files never fails, if the sources have none of eight deviations, each named and each with its counterexample (see below). |
| `FilesAreWritten` | `GenerateProofs` | `EveryFileWritten`, if no two messages have one file (`DistinctFiles`). |
| `SchemasStart` | `GenerateProofs` | `AcceptedSchemasStart`, if lists sort by columns that are fields (`OrderedByFields`). |
| `CheckAndDiffAgree`, `VerdictsAgree` | `DriftCheckProofs` | On any two tables `check` finds a difference exactly if `diff` prints a line; so `DeltaIsWhatCheckCompares`. |
| `ContainersInvariant`, `NoContainerIsLeft` | `DriftCheckProofs` | `ContainersAreTerminated`, whatever the messages and migrations are and whatever fails. |
| `DriftInvariant`, `DriftIsTyped` | `DriftCheckProofs` | `DriftInv`, and `DriftTypeOK` that follows from it, for any messages, shapes, scopes, edits and migrations. |
| `NoDriftIsMissed` | `DriftCheckProofs` | `OkMeansNoDrift`, if what a snapshot does not read is never all that changes (`ReadInFull`). |
| `ScaffoldsConverge` | `DriftCheckProofs` | `ScaffoldConverges`: a migration that does what `diff` asks for satisfies the next `check`. |
| `RowsRead` | `RowsProofs` | `EveryRowReads` for any fields, values, keys and number of releases. |
| `RefusalsAreNamed` | `RowsProofs` | `OnlyNamedRefusals`: a table at least as new as a program refuses its messages only for what the author ruled out, or for an enum number without a name. |
| `DefaultsFit` | `RowsProofs` | `DefaultsAreAccepted`: a default the generator chose passes the check it chose, in every release. |
| `CursorsAreTyped` | `RowsProofs` | `CursorsFit`: no NULL in a column lists are ordered by, and its Go type is the codec's. |
| `ChoicesAreKept` | `RowsProofs` | `UnknownChoicesAreKept`: no program replaces a choice it does not know by reading and writing back. |
| `RowsAreTyped` | `RowsProofs` | `TypeOK` of `Rows`: what a program reads, whoever wrote it, is a message it could have been sent. |
| `RowsImplementStore` | `RowsProofs` | The refinement `StoresMessages`: every step of `Rows` is a step of `MessageStore` or none, for every kind of column. |
| `CallsMatch` | `RowsProofs` | `CallsAreTheStores`: it is the step of the same call, if an INSERT names all columns. |

*Lists.*  The theorems assume `KeyedSchemas`: sort fields are columns and the
tie-breaker of each schema contains the column with the unique key.  That is
what `WithTieBreaker` is there for (`pkg/aip/jet/schema.go:87`); a message says it
with its `tie_breaker`, and nothing makes it (section 7, `UnorderedSchema`).  `MCKeyedLists` assumes
the same, so TLC evaluates it on the passing runs.  `StrictlyOrdered` is not
inductive: it says nothing about the token.  `ListInv` adds that the token is the
cursor of the last row seen, in the order of the list, that this order contains
the key, and that every row still owed sorts after that row (`TokenAtLast`).
A page then keeps what sorts after its cursor (`KeysetKeepsWhatSortsAfter`), which
includes all that is owed; it takes a prefix of it in order
(`QueryReturnsFirstRows`), so what is left of what is owed sorts after the new last row,
strictly because two rows of one table differ in the key (`RowsComparable`).  A
write only ever takes rows from `owed`.  The proof does not use that the order is
the same on all servers: the token brings it along.

*Tokens.*  What connects the client's picture of its list with the servers is the
answer to a request with the list's own token (`AnswerOfNextPage`, used by all
four theorems): if a server does not refuse, its plan is the order the token was
issued for, and the cursor decodes to the values that were encoded.  For the
refinement each step is mapped by itself: an answer is a batch whose rows are new
because they sort after all earlier ones, and an answer without token is an end
because then nothing owed is left (`NothingSkipped` at the step where it counts);
writes and the clock are stutters or take from what is owed.  `TokenResumes` speaks of
every token ever issued, so it needs an invariant of its own (`IssuedInv`: every
issued token is a `GoodToken`, with the resource and filter of its list, an order
that contains the key, and the values of a row that stands between what was shown
and what was owed).  `OnlyExpiryStops` assumes
`SteadySchemas` besides: one version of each schema, page sizes below the largest
int32 and sort columns the codecs take.  The first is the end of a rollout, the second what
`UncappedSchema` is about, the third what `validateOrderable` refuses at generation
time.  `MCOneList` assumes the same, so TLC evaluates it on `ListOne`.

*Filters.*  The invariant is about the tree, since the two recursions over it have
values only where the arguments of a connective stand before it (`NodesInv`;
`TranslationsMeaning` and `AgreementsMeaning` show that the functions exist, by the
least number principle), and about the place of each node: it is a top of the
filter or an argument of a later connective (`PlaceInv`).  When one top is left, a
node that cannot be translated leads up to the root, so the root is translated
exactly if all comparisons are listed (`WholeTranslated`).  The meaning goes up
the same way.  A comparison's condition is true on the rows that satisfy it and
false on those that contradict it (`ComparisonMeaning`), which for texts needs that
the order of texts is total (`TextOrder`) and for `:` that the pattern matches
where the needle occurs: `EscapeLike` escapes in three passes, of which the first
must not see what the others add (`EscapeLikeAppend`), after which each character of
the needle has one place in the pattern (`EscapeLikeOffsets`) and the matcher is
followed from the last of them to the first (`PatternCharacters`, `LikeFindsText`).
AND, OR and NOT keep that agreement, NULLs included (`JoinedMeaning`,
`NotFaithful`), so every node has it (`TreeFaithful`).  The assumptions on the
constants are those of types: rows have the fields, values and constants have their
types, characters are those of the collation.  Nothing is assumed of `LowerCase`.

*Sorting.*  A file's counter is the number of its owners that are not out,
and the ready set is those files that are not out and wait for none.  Both are
needed to see that a file goes out only after the files it refers to, and that
when nothing is ready, what is left waits for what is left.

*Generation.*  `GenInv` is a conjunction of six parts, each with a lemma that every
step keeps it given all of them.  `TopoInv` is that of the sorter, carried over
since the run takes its steps.  `RunInv` and `PlansInv` bound the loops and say that
the plans made so far are messages that `ValidPlan` accepts, in their order.
`KeysInv` is the invariant of the two nested loops over foreign keys, and the reason
why the order of messages does not matter: at any moment the plans are what the
*set* of keys passed so far (`PassedKeys`) makes of the messages (`Completes`): each
passed key is resolved against its message, each key not passed is as it was written, and a
plan has exactly one supplemental unique for each of its columns that a passed key
needs one for.  When the loops end, the passed keys are all keys, which is
`ResolvedAsASet`.  It is inductive because completing a key reads of the target only
what completion never changes (its key, columns and scope) and, of its
supplementals, only whether the one to be added is there.  `DiskInv` says that each file
was made from a plan of the shape `KeysInv` describes, of this or an earlier run,
and `ApplyInv` that the database is made of whole files of one directory, with no
table twice.  The properties of the database follow from the shape of the plans its statements
were rendered from.  Six theorems have a hypothesis on the sources; each is what
the code's comments take for granted and the code does not enforce, and `MCRegular` and `MCAny` assume
them, so that TLC evaluates them on `GenerateRegular` and `GenerateAny`.  Each but `SettledScopes` has its
counterexample in section 7 (`UserScopedId`, `PartialIndex`, `SameFile`,
the run `TenantOrder`, and those of `DatabaseAccepts`).
`SettledScopes` is needed because two packages may declare one table name with
different scopes, as may two runs.  `Request` states what protoc guarantees (names of
messages and fields are unique) and is assumed of all sources.

`DatabaseAccepts` needs `CleanInv` besides.  A run that gets to its files has resolved
every key (`ResolvedInv`); each of its messages has its file (`FilesInv`), so that with
`SettledFiles` and `DistinctFiles` the files of a directory are those of this run's
messages, one each; and the sorter was given these files and the
database has what is out so far (`SorterInv`).  Then the sorter finds no cycle: the
files it would leave over are messages of which each refers to another (`NeverACycle`).
And PostgreSQL accepts the next file (`NextFileAccepted`): the tables it refers to are
there, because files come out after those they refer to; its statements have distinct
names, and names the database does not have; its indexes are on columns of the table
and cover the partition; and what a reference points at is unique, by the key of the
target, by the index of a unique column, or by the unique that some reference added,
which the plans have by the same fact as in `ResolvedAsASet` (`NeededUniques`).  The
last three are facts about the plans alone and are collected in `FileAccepted`.  Each
hypothesis is what one or two sources of section 7 break:

| Hypothesis | Broken by |
|---|---|
| `SelfReferencesByKey` | the run `RefSelf` |
| `TenantScopedTargets` | `UserScopedTarget` |
| `AcyclicReferences` | `MutualReferences` |
| `PartitionsInUniques` | `PartitionedUnique` |
| `DistinctNames` | `IndexNamedLikeReference`, `NamesAcrossTables` |
| `LocalReferences` | `OtherPackage` |
| `SettledFiles` | `RenamedMessage` |
| `DistinctFiles` | `SameFile` |

So what section 7 lists against `AppliesCleanly` is all there is in the model: a source
without these deviations applies, whatever its keys, scopes, indexes, names and order.

*Drift.*  That the two comparisons agree is a fact about sets of named things and
about the list of parts: each part of a snapshot is gone through by the delta
(`SnapshotParts`), and no line about a part means the same part
(`NoLineMeansSameThings`).  For the containers the invariant relates three
variables that change in different steps: nothing runs once the command is over,
and what was left behind was left by a command whose deadline had passed.  The
property alone is not inductive, as it says nothing of a command that still
runs.

The verdicts need `DriftInv`, of three parts.  `TypeInv` says of every database and
every statement, in the chain or in the scaffold, that its shapes are `Kin` to those
of the message: each column is a column of one of the message's shapes.  A migration
may mend a table half-way, so its shape is in general none of them.  `CommandInv` ties
what a command holds to what it stands for: once a side is done, its database *is*
what the DDL files or the migrations make (`Declared`, `Migrated`), a failed side
was broken from outside or could not be applied, and `failures` are those of the
tables compared so far that differ.  `ScaffoldInv` says that the chain followed by the
last scaffold `Settles` its tables, and that the chain alone does so where the whole
scaffold was written and no message has changed since; neither follows from
`ScaffoldConverges`, which is about the end of a check.

What a script makes is a fold; its recursive function is shown to exist and to be unique
where it is needed by the least number principle (`TraceExists`, `RunTrace`), and three facts about it carry the rest.
A script that names each table once leaves each in the shape it says (`RunLeaves`);
it goes well if each statement refers to what is there or was left before it
(`RunGoesWell`); a script after another starts where that one ended (`RunConcat`).  That
the order of `topoSortDDL` makes DDL files such a script is `DDLFilesMake`.  For `diff`, closing the
lines of a delta makes the snapshot that of the target (`CloseCloses`), foreign keys
included, whose backing depends on the indexes and the key of the *mended* table; and
since the snapshot has the references of a table, the closings may be applied in the
order of the DDL files (`ClosingsSettle`), which exists for some of the tables if it exists
for all (`SomeInOrder`).

`NoDriftIsMissed` assumes `ReadInFull`, without which equal snapshots do not mean equal
tables (`SnapshotDetermines`); the run `DriftUnread` is the counterexample, and
`MCReadInFull` assumes it, so that TLC evaluates it on `DriftCheck`.  `ScaffoldsConverge` does
not need it.  Its property presupposes that the files of the scaffold, and of those tables that are
checked, refer to one another only, and to the role there is: a scaffold of all
tables may fail on a table the next check does not even list.

*Rows.*  `RowsInv` says that the column is one the generator makes, that every row
is one the table takes, and that what a program holds is what it read from the
cell it read.  The second is more than the properties say and carries them: a row
is checked against the table of the time it is written, and stays acceptable since
migrations only add names (`AcceptedLater`); what the table of a release accepts,
programs of that release and later ones read (`AcceptedReadable`).  The rows from
before the column need that a default passes the check (`DefaultAccepted`), which
is a fact about `Columns`: how kind, check, default and nullability hang together
(`CheckAndDefault`).  The last conjunct is needed because the effect of
`WriteBack` depends on what an earlier `Get` made of the cell: an enum name a
program does not know was read as zero (`UnknownNameReadsZero`), which the
check then refuses.  On the way in (`RefusalsAreNamed`) two facts meet: what a check
asks of a value it asks of its text (`EncodedAccepted`), and a field with a check
is nil only where the column can be NULL (`NilIsNullable`), which holds because in
code that compiles the keyword `optional` and the option `nullable` go together.

The refinement needs `StoreInv`, which adds that the newest program reads each cell as a
message (`CellsRead`) and that what programs hold are messages of their releases
(`HeldMessages`).  It rests on two facts about the mappers, each proved by the
kind of the column (`Shaped` has what kinds, types and options go together).  The
round trip, `MessageStored`: what the newest program reads of what a program wrote
is `Stored` of the message.  For one element it is
`ElementStored`, with the two's complement of unsigned integers (`SameBits`), the
rounding of times, the bounds of durations and the names of enums; a list or a map goes element by element.  And
narrowing, `Narrowed`: what an older program reads in a cell is what it knows of
what the newest one reads there, which is why the abstract store may hold one
value for a row that every program decodes for itself.  A list of enum names
loses those without a number, in a loop (`Kept`); that two filters in a row are one
needs that this function exists and is unique (`LoopExists` and what
follows it), again by the least number principle.  `RowReads` combines the two for a
row, and each call is then mapped by itself (`CreateIsPut`, `UpdateIsChange`,
`GetIsAnswer`).  The refinement needs no hypothesis: an INSERT that leaves
the key out writes a row no key of the store leads to, which is a stutter.  `CallsMatch`
does need that an INSERT names all columns; the counterexample is `Computed` in section 7.
`ElementsAssumption` asks of the values that each type has its zero, enums the
numbers that have names, that a rounded time is a time and a bounded duration a
duration, and of `Nearest` that no other tick is nearer (of two equally near ones it
may be either).

Only model-checked: liveness (`ListsEnd`, `SortEnds`, `RunEnds`, `CommandsEnd`), since
fairness and ENABLED are beyond TLAPS.  Every other property of a passing run is
a theorem.

## 7. Where the code and its comments differ

| Run | What TLC shows |
|---|---|
| `RefSelf` | A message may refer to its own `unique: true` column, but the reference is inlined in `CREATE TABLE` and the unique index comes after it: PostgreSQL refuses the file (`gen/emit_sql.go:223`; `gen/apply_ddl.go:66` says "self-reference — fine"). |
| `TenantOrder` | The tenant column may be named in a tie-breaker, being "always orderable" (`gen/resolve.go:291`), but is left out of the fields of the schema (`gen/emit_schema.go:51`): `NewSchema` does not know it, and the generated package panics at program start. |
| `DriftUnread` | The expression of a generated column is never read, so `check` says ok when it has changed (`gen/check.go:766`; `gen/check.go:33` says "the same schema"). |
| `UnknownFields` | Nested messages are read with `DiscardUnknown` and written whole on update, so a program one release behind erases what a newer one has stored in fields it does not know (`gen/emit_mapper.go:1049`; `gen/README.md:775` says "protojson preserves unknown fields by default"). |

The following were met as well.  Each can be seen by giving a configuration
another value: `RefSelf.cfg` the `Sources` of that name from `MCIrregular`
(`MaxRuns = 2` for the renamed message, `MaxIdent = 6` for `NamesAcrossTables`),
`ListOne.cfg` the schema of that name (`UncappedSchema` with the module `MCKeyedLists`
and `PageSizes = {0, 7}`, as it is not steady; `UnorderedSchema` with
`MCPagination`, as it is not keyed),
`Rows.cfg` the `Fields` of that name with `InsertList = "MutableColumns"`.

| Definition | Property | What happens |
|---|---|---|
| `UserScopedTarget` | `AppliesCleanly` | The unique of a user-scoped column is (tenant, user, column); the composite reference wants (tenant, column), and none is added since the column "is unique" (`gen/resolve_fk.go:251`). |
| `MutualReferences` | `AppliesCleanly` | Two messages that refer to each other pass resolution and are refused by the sorter, after all files are written. |
| `PartitionedUnique` | `AppliesCleanly` | A unique column of a partitioned table has an index without the partition column (`gen/resolve.go:444` checks only the key). |
| `IndexNamedLikeReference` | `AppliesCleanly` | An index may have the name the index of a foreign key is given (`gen/resolve_fk.go:266`). |
| `OtherPackage` | `AppliesCleanly` | A reference to a message in another output directory is accepted; each directory is applied alone, so the target is missing (`gen/jet_runner.go:107`). |
| `RenamedMessage` | `AppliesCleanly` | The file of a message that was renamed stays and creates the same table again (`gen/jet_runner.go:128`). |
| `UserScopedId` | `UniquenessStaysInScope` | The unique that a reference adds to a user-scoped target is (tenant, column): two users of one tenant cannot have the same id (`gen/resolve_fk.go:254`). |
| `TenantSetNull` | `ActionsCanHappen` | An action of a reference is checked against the column it is written on. In a composite reference SET NULL also sets the tenant column, which is NOT NULL, so the delete it was meant for fails (`gen/resolve_fk.go:94`; `gen/resolve_fk.go:81`: "SET NULL needs a nullable column"). |
| `PartialIndex` | `ForeignKeysAreBacked` | A partial index counts as cover of a foreign key (`gen/resolve_fk.go:365`). |
| `SameFile` | `EveryFileWritten` | Two messages whose names differ in case, or of two packages with one `go_dir`, have one file name; only tables are checked for duplicates, and the second overwrites the first (`gen/main.go:420`). |
| `NullableOrder` | `FailedRunWritesNothing` | An order by a nullable column is refused after DDL files have been written (`gen/main.go:450`; `gen/main.go:167` promises an atomic run). |
| `NamesAcrossTables` | `AppliesCleanly` | The words of a table and of a column, joined, may be those of another table and its column: `idx_a_x_name_unique` of both. Names of indexes are compared within a message, and PostgreSQL has one name space per schema (`gen/resolve.go`, `validatePlan`). |
| `UnorderedSchema` | `NeverLoopsBack` | A schema with neither default order nor tie-breaker issues tokens without a cursor, and page 2 is page 1 again (`pkg/aip/jet/execute.go:112`; `pkg/aip/codec.go:105` speaks of the loop that must not happen). |
| `Computed` | `CallsAreTheStores` | To insert into a table with a computed column, `gen/README.md:402` says to use `MutableColumns`; in go-jet's code that list leaves out the primary key too, which then gets its default (`gen/e2e/gen/override_layout/jet/public/table/custom_layout.go:63`). |
| `UncappedSchema` | `OnlyExpiryStopsAList` | With a maximal page size of 2^31-1 the limit wraps to a negative number (`pkg/aip/jet/execute.go:49`). |

Differences met while writing `Columns`, each at the definition named:

* `Compiles`: a proto3 `optional` number, text or enum without `nullable: true` is
  accepted, but its mapper assigns a value to a pointer and does not compile
  (`gen/emit_mapper.go:946`).  `Rows` has only columns of programs that compile.
* `AcceptsStorage`: a `storage` that has no effect is refused "as it would otherwise
  silently no-op" (`gen/README.md:708`); `JSONB_PROTO` on a timestamp, a duration
  or a wrapper, and `ARRAY` on a repeated message, pass and have no effect
  (`gen/resolve.go:1147`).
* `AcceptsSkip`: "any other column option" (`gen/README.md:714`) does not include
  `foreign_key` (`gen/resolve.go:820`); and `proto/gojet/v1/options.proto:250`
  says of the same combinations that "the flag dominates".
* `InferredDefault`: "every kind gets a sensible default" (`gen/README.md:479`),
  but an enum has one only with `allow_zero_enum`, and a timestamp has none.
* `MapKind`: the comment before the kinds of values says enums are rejected
  (`gen/resolve.go:1462`); the next case accepts them.
* `AsDuration` (of `Mapper`): protobuf's durations go to 10,000 years, an int64 of
  nanoseconds "up to ~292 years" (`gen/resolve.go:1376`).  A longer one is neither
  refused nor checked: the mapper stores the longest there is (`gen/emit_mapper.go:285`
  and `:349`).  `MessageStore` has this as `Bounded`.
* `TableTime`: a repeated timestamp goes to the database as a text, which PostgreSQL
  rounds to the microsecond; the driver cuts a single one off
  (`gen/e2e/e2e_integration_test.go:394` says of the array that its nanoseconds
  "truncate").

Seen in the code and outside the models: `ParseNameFilter` slices out of bounds
on the text `name:"` (`pkg/aip/filter.go:49`); `check` reads neither
`PARTITION BY` nor what follows `::` in a default (`gen/check.go:855`); the `_` of
`LIKE '%_pkey'` is a wildcard (`gen/check.go:947`); the expressions of the sorter
match in comments and custom SQL too (`gen/apply_ddl.go:59`); `NewPostgres` may give
up on a container that runs and hand nothing over (`internal/testcontainers/postgres.go:92`);
the types of the two ends of a reference are not compared; unsigned columns are
ordered and filtered by their signed value.

## 8. What is not modelled

* Text: comments, formatting, the Go source in which mappers, column lists and schemas
  are written, policies, custom SQL, what the two regular expressions of the sorter
  find in it.
* Spelling: of identifiers, JSON paths and expressions, which `resolve.go` also
  checks.  The author's own check, default and generated expressions are taken to
  be met.
* Of messages: the keys of maps, which stand for themselves; NaN in JSON; texts with
  U+0000, which PostgreSQL refuses; the stamps of
  `created_by` and `updated_by`; the map of filter fields.  `Columns` and `Plans` have
  the columns of a message in two views, one of encodings and one of names.
* Bytes of tokens, base64, SHA-256 (injective here), letter case and character
  set of `order_by`.
* Texts in tokens that two codecs read as different values, as an integer beyond
  2^53 that a version of the schema takes for a float.
* The parser of filters (another project's): its trees, and "too long" and
  "malformed" as outcomes.  Regular-expression, collation and time-zone
  semantics of PostgreSQL.
* Printing, rename directives and HAZARD texts of the scaffold; of a migration
  that goes beyond its scaffold only that it may be partial or unvalidated.
* go-jet's generation, container configuration, option parsing, the
  text format of timestamp arrays: I/O, configuration or one text format.
* `gen/e2e`: a fixture, with a copy of the sort.

## 9. Plan

In order of what is at stake:

1. Lists over the columns of `Rows`: cursors of times, and unsigned columns, which
   sort as signed.
2. Name filters; the text the sorter's expressions see (comments, custom SQL);
   references between columns of different types.

## 10. Running it

`tlc -config <Run>.cfg <module>` with the module `PROJECT.json` names for the
run; `tlapm <Module>Proofs.tla`.  Every run takes about two minutes at most.
