------------------------------- MODULE Generate -------------------------------
(***************************************************************************)
(* Runs of the generator (main.go) over one output tree: every message is     *)
(* resolved, duplicate tables are refused, the foreign keys are completed,    *)
(* every DDL file is written, and then the files of each directory are read   *)
(* back, sorted and applied to a database of their own, from which go-jet      *)
(* generates.  Between two runs the author changes the messages.  Errors are  *)
(* collected within a stage and stop the run at its end.                      *)
(***************************************************************************)
EXTENDS Catalog, TopoSort, SequencesExt

CONSTANTS
    Sources,    \* the lists of messages, as plans, that a run may be given
    MaxRuns     \* bound: how many times the generator is run

ASSUME MaxRunsAssumption == MaxRuns \in Nat

\* What protoc hands over: no two messages have one full name, no two fields of a
\* message have one name, each foreign key is an option of a column of its own, and none
\* is completed yet.
Request(ms) ==
    /\ ms \in Seq(ResourcePlan)
    /\ \A i, j \in DOMAIN ms : ms[i].fqn = ms[j].fqn => i = j
    /\ \A p \in Range(ms) :
          /\ p.table \in Tables
          /\ p.supplementals = <<>>
          /\ \A c, d \in Range(p.columns) :
                c.field = d.field /\ ~SynthesizedColumn(c) => c = d
          /\ \E of \in [DOMAIN p.foreignKeys -> DOMAIN p.columns] :
                /\ IsInjective(of)
                /\ \A k \in DOMAIN of : p.columns[of[k]].name = p.foreignKeys[k].column

ASSUME SourcesAssumption == \A ms \in Sources : Request(ms)

VARIABLES
    runs,       \* the number of runs started
    stage,      \* resolve, references, emit, apply; then done or failed
    messages,   \* the messages of this run, unresolved
    pending,    \* the plans made so far
    at,         \* the place in the loop over them
    atKey,      \* the place in the inner loop over a plan's foreign keys
    errors,     \* the places at which this stage has found an error
    disk,       \* the DDL files: from [dir, file] to statements
    dirs,       \* the directories not yet applied
    db          \* the database of the first one of them

runVars == <<runs, stage, messages, pending, at, atKey, errors, disk, dirs, db>>
vars == <<runVars, topoVars>>

\* The files of a directory in the order of their names (discoverDDL).
Discovered(d) ==
    LET paths == { path \in DOMAIN disk : path.dir = d }
    IN CHOOSE s \in [1..Cardinality(paths) -> paths] :
           \A k, l \in DOMAIN s : k < l => s[k].file < s[l].file

\* What the sorter reads in a file.
FileContent(file) ==
    [creates |-> { s.name : s \in TablesOf(Range(file)) },
     refs |-> UNION { { fk.table : fk \in s.foreignKeys } : s \in TablesOf(Range(file)) }]

PathOf(p) == [dir |-> p.dir, file |-> p.file]

\* The end of a stage: the run stops if it has found errors.
EndStage(failed, then) ==
    /\ stage' = IF failed THEN "failed" ELSE then
    /\ at' = 1
    /\ errors' = {}

---------------------------------------------------------------------------
(* The author runs the generator *)

Run(ms) ==
    /\ stage \in {"idle", "done", "failed"}
    /\ runs < MaxRuns
    /\ runs' = runs + 1
    /\ messages' = ms
    /\ stage' = "resolve" /\ at' = 1 /\ atKey' = 1
    /\ pending' = <<>> /\ errors' = {} /\ dirs' = {} /\ db' = {}
    /\ status' = "idle"
    /\ UNCHANGED <<disk, files, inDeg, ready, out>>

---------------------------------------------------------------------------
(* resolveResource for each message, and detectDuplicateTables *)

ResolveMessage ==
    /\ stage = "resolve"
    /\ at <= Len(messages)
    /\ IF ValidPlan(messages[at])
       THEN pending' = Append(pending, messages[at]) /\ UNCHANGED errors
       ELSE errors' = errors \cup {<<at>>} /\ UNCHANGED pending
    /\ at' = at + 1
    /\ UNCHANGED <<runs, stage, messages, atKey, disk, dirs, db, topoVars>>

DuplicateTables(plans) ==
    \E i, j \in DOMAIN plans :
        i # j /\ plans[i].dir = plans[j].dir /\ plans[i].table = plans[j].table

EndResolve ==
    /\ stage = "resolve"
    /\ at > Len(messages)
    /\ EndStage(errors # {} \/ DuplicateTables(pending), "references")
    /\ UNCHANGED <<runs, messages, pending, atKey, disk, dirs, db, topoVars>>

---------------------------------------------------------------------------
(* resolveForeignKeys *)

CompleteForeignKey ==
    /\ stage = "references"
    /\ at <= Len(pending)
    /\ atKey <= Len(pending[at].foreignKeys)
    /\ pending' = CompleteFK(pending, at, atKey)
    /\ errors' = IF FKAccepted(pending, at, atKey) THEN errors
                                                   ELSE errors \cup {<<at, atKey>>}
    /\ atKey' = atKey + 1
    /\ UNCHANGED <<runs, stage, messages, at, disk, dirs, db, topoVars>>

\* Mutant: the inner loop does not start again.
NextPlanSameKey ==
    /\ stage = "references"
    /\ at <= Len(pending)
    /\ atKey > Len(pending[at].foreignKeys)
    /\ at' = at + 1
    /\ UNCHANGED <<runs, stage, messages, pending, atKey, errors, disk, dirs, db, topoVars>>

NextPlan ==
    /\ stage = "references"
    /\ at <= Len(pending)
    /\ atKey > Len(pending[at].foreignKeys)
    /\ at' = at + 1
    /\ atKey' = 1
    /\ UNCHANGED <<runs, stage, messages, pending, errors, disk, dirs, db, topoVars>>

EndReferences ==
    /\ stage = "references"
    /\ at > Len(pending)
    /\ EndStage(errors # {}, "emit")
    /\ UNCHANGED <<runs, messages, pending, atKey, disk, dirs, db, topoVars>>

---------------------------------------------------------------------------
(* emit for each plan.  The DDL file is written at once; the Go files are       *)
(* handed over only if the whole run succeeds.                                 *)

\* Mutant: the first error ends the loop.
EmitPlanStopping ==
    /\ stage = "emit"
    /\ at <= Len(pending)
    /\ LET p == pending[at]
           path == PathOf(p)
       IN /\ disk' = [q \in DOMAIN disk \cup {path} |->
                         IF q = path THEN RenderSchemaSQL(p) ELSE disk[q]]
          /\ IF \E c \in Range(p.columns) : c.orderable /\ c.nullable
             THEN at' = Len(pending) + 1 /\ errors' = errors \cup {<<at>>}
             ELSE at' = at + 1 /\ UNCHANGED errors
    /\ UNCHANGED <<runs, stage, messages, pending, atKey, dirs, db, topoVars>>

\* After the file is written the schema of lists is refused if a column it would
\* sort by can be null (emitSchema: validateOrderable).
EmitPlan ==
    /\ stage = "emit"
    /\ at <= Len(pending)
    /\ LET p == pending[at]
           path == PathOf(p)
       IN /\ disk' = [q \in DOMAIN disk \cup {path} |->
                         IF q = path THEN RenderSchemaSQL(p) ELSE disk[q]]
          /\ errors' = IF \E c \in Range(p.columns) : c.orderable /\ c.nullable
                       THEN errors \cup {<<at>>} ELSE errors
    /\ at' = at + 1
    /\ UNCHANGED <<runs, stage, messages, pending, atKey, dirs, db, topoVars>>

EndEmit ==
    /\ stage = "emit"
    /\ at > Len(pending)
    /\ EndStage(errors # {}, IF pending = <<>> THEN "done" ELSE "apply")
    /\ dirs' = IF errors = {} THEN { p.dir : p \in Range(pending) } ELSE {}
    /\ UNCHANGED <<runs, messages, pending, atKey, disk, db, topoVars>>

---------------------------------------------------------------------------
(* runFromDDL for each directory, in the order of their names *)

ThisDir == CHOOSE d \in dirs : \A e \in dirs : d <= e

SortDir ==
    /\ stage = "apply"
    /\ dirs # {}
    /\ LET paths == Discovered(ThisDir)
       IN Begin([k \in DOMAIN paths |-> FileContent(disk[paths[k]])])
    /\ db' = {}
    /\ UNCHANGED <<runs, stage, messages, pending, at, atKey, errors, disk, dirs>>

SortStep ==
    /\ (\E i \in ready : Emit(i)) \/ Finish
    /\ UNCHANGED runVars

CycleFound ==
    /\ stage = "apply"
    /\ status = "cycle"
    /\ stage' = "failed"
    /\ UNCHANGED <<runs, messages, pending, at, atKey, errors, disk, dirs, db, topoVars>>

ApplyFile ==
    /\ stage = "apply"
    /\ status = "sorted"
    /\ at <= Len(out)
    /\ LET file == disk[Discovered(ThisDir)[out[at]]]
       IN IF AcceptsFile(db, file)
          THEN db' = db \cup Range(file) /\ at' = at + 1 /\ UNCHANGED stage
          ELSE stage' = "failed" /\ UNCHANGED <<db, at>>
    /\ UNCHANGED <<runs, messages, pending, atKey, errors, disk, dirs, topoVars>>

\* go-jet generates from the database, and the next directory begins.
NextDir ==
    /\ stage = "apply"
    /\ status = "sorted"
    /\ at > Len(out)
    /\ dirs' = dirs \ {ThisDir}
    /\ at' = 1
    /\ stage' = IF dirs' = {} THEN "done" ELSE "apply"
    /\ status' = "idle"
    /\ UNCHANGED <<runs, messages, pending, atKey, errors, disk, db, files, inDeg, ready, out>>

---------------------------------------------------------------------------
Init ==
    /\ runs = 0 /\ stage = "idle"
    /\ messages = <<>> /\ pending = <<>> /\ at = 1 /\ atKey = 1 /\ errors = {}
    /\ disk = <<>> /\ dirs = {} /\ db = {}
    /\ TopoInit

Step ==
    \/ ResolveMessage \/ EndResolve
    \/ CompleteForeignKey \/ NextPlan \/ EndReferences
    \/ EmitPlan \/ EndEmit
    \/ SortDir \/ SortStep \/ CycleFound \/ ApplyFile \/ NextDir

Next == (\E ms \in Sources : Run(ms)) \/ Step

Spec == Init /\ [][Next]_vars

\* A run goes on by itself; nobody has to start one.
FairSpec == Spec /\ WF_vars(Step)

---------------------------------------------------------------------------
(* What sources are like that the code handles as its comments say *)

\* No two messages have one DDL file.
DistinctFiles ==
    \A ms \in Sources : \A i, j \in DOMAIN ms : PathOf(ms[i]) = PathOf(ms[j]) => i = j

\* Lists sort by columns that are fields.
OrderedByFields ==
    \A ms \in Sources : \A p \in Range(ms) : \A c \in Range(p.columns) :
        c.name \in Range(p.defaultOrder \o p.tieBreaker) => ~SynthesizedColumn(c)

\* No message refers to one that is scoped to users.
TenantScopedTargets ==
    \A ms \in Sources : \A p, q \in Range(ms) : \A fk \in Range(p.foreignKeys) :
        fk.message = q.fqn => Len(q.scope) <= 1

\* No index that leads with the column of a foreign key is partial.
WholeIndexes ==
    \A ms \in Sources : \A p \in Range(ms) : \A fk \in Range(p.foreignKeys) :
        \A x \in Range(p.indexes) : x.columns[1] = fk.column => ~x.where

\* A table has one scope: in all packages, and in all runs over one tree.
SettledScopes ==
    \A ms \in Sources : \A ns \in IF MaxRuns > 1 THEN Sources ELSE {ms} :
        \A p \in Range(ms), q \in Range(ns) : p.table = q.table => p.scope = q.scope

\* A message refers to messages of its own directory.
LocalReferences ==
    \A ms \in Sources : \A p, q \in Range(ms) : \A fk \in Range(p.foreignKeys) :
        fk.message = q.fqn => p.dir = q.dir

\* Of any messages one refers to none of the others.
AcyclicReferences ==
    \A ms \in Sources : \A S \in SUBSET DOMAIN ms :
        S # {} => \E i \in S : \A j \in S \ {i} : \A fk \in Range(ms[i].foreignKeys) :
                     fk.message # ms[j].fqn

\* A message refers to itself by its primary key.
SelfReferencesByKey ==
    \A ms \in Sources : \A p \in Range(ms) : \A fk \in Range(p.foreignKeys) :
        fk.message = p.fqn => \A c \in TargetColumns(p, fk) :
            IF Scoped(p) THEN TargetPKCoversTenantComposite(p, c.name)
                         ELSE p.primaryKey = <<c.name>>

\* A column of a message that some message refers to and that, with the tenant,
\* neither the key nor its own index makes unique.
NeedsSupplemental(plans, p, c) ==
    /\ Scoped(p)
    /\ ~SynthesizedColumn(c)
    /\ ~c.unique
    /\ Range(p.primaryKey) # {p.scope[1], c.name} \/ Len(p.primaryKey) # 2
    /\ \E r \in Range(plans) : \E fk \in Range(r.foreignKeys) :
          fk.message = p.fqn /\ fk.field = c.field

\* The unique indexes of a partitioned table cover the columns it is partitioned by.
PartitionsInUniques ==
    \A ms \in Sources : \A p \in Range(ms) :
        LET covered(columns) == Range(p.partition) \subseteq columns
        IN /\ \A x \in Range(p.indexes) : x.unique => covered(Range(x.columns))
           /\ \A c \in Range(p.columns) :
                 /\ c.unique => covered(Range(p.scope) \cup {c.name})
                 /\ NeedsSupplemental(ms, p, c) => covered({p.scope[1], c.name})

\* The names of what a message makes: those validatePlan compares with each other, those
\* of the indexes of references and of the uniques added for them, and its table's.
ComparedNames(p) ==
    { x.name : x \in Range(p.indexes)
                    \cup Range(PathIndexes(p) \o GinIndexes(p) \o UniqueIndexes(p)) }
KeyIndexNames(p) ==
    { FKIndexName(p, fk.column) : fk \in
        { r \in Range(p.foreignKeys) : r.backing /\ ~ColumnAlreadyCovered(p, r.column) } }
SupplementalNames(plans, p) ==
    { SupplementalName(p, c.name) : c \in { d \in Range(p.columns) : NeedsSupplemental(plans, p, d) } }
IndexNames(plans, p) ==
    ComparedNames(p) \cup KeyIndexNames(p) \cup SupplementalNames(plans, p)
TableNames(p) == { p.table, p.table \o <<"pkey">> }

\* The names that are not compared differ: within a message, and between the messages
\* of a directory.
DistinctNames ==
    \A ms \in Sources : \A i, j \in DOMAIN ms :
        LET names(p) == IndexNames(ms, p) \cup TableNames(p) IN
        /\ TableNames(ms[i]) \cap IndexNames(ms, ms[i]) = {}
        /\ ComparedNames(ms[i]) \cap (KeyIndexNames(ms[i]) \cup SupplementalNames(ms, ms[i])) = {}
        /\ i # j /\ ms[i].dir = ms[j].dir => names(ms[i]) \cap names(ms[j]) = {}

\* A file is that of some message in every run over its directory.
SettledFiles ==
    \A ms \in Sources : \A ns \in IF MaxRuns > 1 THEN Sources ELSE {ms} :
        \A p \in Range(ms), q \in Range(ns) :
            p.dir = q.dir => \E r \in Range(ns) : PathOf(r) = PathOf(p)

---------------------------------------------------------------------------
(* Properties *)

\* The loops stay within their bounds, there is something left to apply only while
\* files are applied, and the database is made of the files of one directory.
GenerateTypeOK ==
    /\ runs \in 0..MaxRuns
    /\ stage \in {"idle", "resolve", "references", "emit", "apply", "done", "failed"}
    /\ at \in 1..(1 + Len(IF stage = "resolve" THEN messages
                          ELSE IF stage \in {"apply", "failed"} THEN out ELSE pending))
    /\ stage = "references" /\ at <= Len(pending) =>
          atKey \in 1..(1 + Len(pending[at].foreignKeys))
    /\ Len(pending) <= Len(messages)
    /\ stage = "apply" => dirs # {}
    /\ stage \in {"idle", "resolve", "references", "emit", "done"} => dirs = {}
    /\ \A t, u \in TablesOf(db) : t.name = u.name => t = u
    /\ db # {} => \E d \in { p.dir : p \in Range(pending) } :
          db \subseteq UNION { Range(disk[path]) : path \in { q \in DOMAIN disk : q.dir = d } }

\* A run that gets as far as a database never fails there: neither is there a
\* cycle nor does PostgreSQL refuse a file (resolve.go, validatePlan: "caught at
\* generation, not at migration apply").
AppliesCleanly == stage = "failed" => dirs = {}

\* A run that is started ends, whatever the messages are (main.go).
RunEnds == stage = "resolve" ~> stage \in {"done", "failed"}

\* What the foreign keys make of the plans is a function of the set of messages,
\* whatever their order: each key has the table and the columns its annotation
\* names, and each table one unique for each column that needs one
\* (resolveForeignKeys: "order-independent", "a flat registry").
ResolvedAsASet ==
    stage \in {"emit", "apply", "done"} =>
        \A p \in Range(pending) :
            /\ { uq.columns : uq \in Range(p.supplementals) } =
                  { <<p.scope[1], c.name>> :
                      c \in { d \in Range(p.columns) : NeedsSupplemental(messages, p, d) } }
            /\ \A k, l \in DOMAIN p.supplementals :
                  p.supplementals[k].columns = p.supplementals[l].columns => k = l
            /\ \A fk \in Range(p.foreignKeys) :
                  \E q \in Range(messages) : \E c \in Range(q.columns) :
                      /\ q.fqn = fk.message /\ c.field = fk.field
                      /\ fk.table = q.table
                      /\ fk.target[Len(fk.target)] = c.name
                      /\ fk.local[Len(fk.local)] = fk.column

\* When the emission ends the file of every plan holds its statements, also if
\* the emission of some plan has failed (the loop over `pending`).
EveryFileWritten ==
    [][stage = "emit" /\ stage' # "emit" =>
         \A p \in Range(pending) :
            /\ PathOf(p) \in DOMAIN disk'
            /\ disk'[PathOf(p)] = RenderSchemaSQL(p)]_vars

\* A reference between scoped tables relates the tenant to the tenant, and a
\* scoped table has no reference to or from one that is not ("cross-tenant
\* references are structurally impossible", README.md:401).
ReferencesStayInTenant ==
    \A t, u \in TablesOf(db) : \A fk \in t.foreignKeys :
        fk.table = u.name =>
            /\ t.scope = {} <=> u.scope = {}
            /\ t.scope # {} => \E k \in DOMAIN fk.local :
                                  fk.local[k] \in t.scope /\ fk.target[k] \in u.scope

\* Every unique index of a table that is not partial covers the columns that
\* scope it, so that no row of one tenant, or user, is in the way of a row of
\* another (resolve.go, validatePlan; emit_sql.go, renderUniqueColumnIndexes).
UniquenessStaysInScope ==
    \A t \in TablesOf(db) : \A x \in IndexesOf(db) :
        x.table = t.name /\ x.unique /\ ~x.where => t.scope \subseteq Range(x.columns)

\* A foreign key whose annotation does not say otherwise has an index that leads
\* with its column and holds every row (options.proto:334, ForeignKey.index).
ForeignKeysAreBacked ==
    \A i \in DOMAIN pending : \A fk \in Range(messages[i].foreignKeys) :
        stage \in {"apply", "done"} /\ fk.backing
        /\ Range(RenderSchemaSQL(pending[i])) \subseteq db
            => \E x \in IndexesOf(db) :
                  x.table = pending[i].table /\ ~x.where /\ x.columns[1] = fk.column

\* What a reference does to its columns when the row it refers to goes or changes
\* can be done to all of them: they can be null, or have a default
\* (resolve_fk.go:79, validateFKActionsAgainstColumn).
ActionsCanHappen ==
    \A t \in TablesOf(db) : \A fk \in t.foreignKeys :
        /\ "SET NULL" \in fk.actions => Range(fk.local) \subseteq t.nullable
        /\ "SET DEFAULT" \in fk.actions => Range(fk.local) \subseteq t.nullable \cup t.default

\* A first run that fails before it has a database has written nothing
\* (main.go:165, "This keeps the plugin atomic").
FailedRunWritesNothing ==
    stage = "failed" /\ runs = 1 /\ dirs = {} => disk = <<>>

\* The package a run has generated starts: NewSchema (pkg/aip/jet/schema.go) does
\* not panic on the list schema of any message, since what orders a list was
\* checked when the message was resolved (resolve.go:268, "Caught here rather than
\* ... at runtime").
Lists == INSTANCE ListSchema WITH NaN <- 0, Garbled <- "", TokenMaxAge <- 0, MaxInt <- 0,
                                  Reads <- LAMBDA kind, s : FALSE

AcceptedSchemasStart ==
    stage = "done" => \A p \in Range(pending) : Lists!Validate(ListSchemaOf(p))
===============================================================================
