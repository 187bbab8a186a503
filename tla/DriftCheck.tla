------------------------------ MODULE DriftCheck ------------------------------
(****************************************************************************)
(* The commands `check` (check.go) and `diff` (migration_scaffold.go), and  *)
(* the developer who runs them: edit a message, generate its DDL, let diff   *)
(* scaffold a migration, write it, let check compare.                       *)
(*                                                                          *)
(* Both commands start two scratch databases in parallel, apply the DDL     *)
(* files to one and the migrations to the other, wait for both, compare the *)
(* tables one by one and tear the containers down.  A container may fail to *)
(* start, a connection may fail, and the deadline of the command may pass   *)
(* at any moment.                                                           *)
(****************************************************************************)
EXTENDS TableShape

CONSTANTS TableNames,    \* in alphabetical order
          Shapes,        \* the shapes a message can give its table: function of the name
          TenantRole,    \* --tenant-role
          Scopes,        \* values of --resources; {} is all tables
          MaxEdits, MaxMigrations

Tables == Range(TableNames)

(* A message has a key, so its table has a column (validatePlan).           *)
ASSUME DriftAssumption ==
  /\ MaxEdits \in Nat /\ MaxMigrations \in Nat /\ TableNames \in Seq(STRING)
  /\ \A t \in Tables : \A s \in Shapes[t] : s \in Table /\ s.columns # {}

VARIABLES ddl,       \* the DDL files: table -> shape
          chain,     \* the migrations directory: a sequence of migrations
          edits,     \* edits so far
          scaffold,  \* the statements the last scaffold asks for
          settled,   \* the tables of that scaffold if all of it was written last and no message changed since
          cmd, pc,   \* the command that runs and where it is
          listed,    \* pluginTables
          stage,     \* of each of the two goroutines
          pg,        \* of each container
          db,        \* of each database
          expired,   \* the deadline has passed
          todo,      \* the tables still to compare
          failures,  \* those that drifted; of diff: those with a delta
          verdict, broken  \* how the command ended, whether something outside broke it

dev == <<ddl, chain, edits, scaffold, settled>>
run == <<cmd, listed, stage, pg, db, expired, todo, failures, verdict, broken>>
vars == <<dev, run, pc>>

Sides == {"ddl", "migrations"}

Nothing == [t \in Tables |-> Absent]

Role == {TenantRole}

(****************************************************************************)
(* The developer.                                                           *)
(****************************************************************************)
(* A message is added, changed or removed, and its DDL file with it. *)
EditMessage(t) ==
  /\ pc = "idle" /\ edits < MaxEdits
  /\ \E s \in Shapes[t] \cup {Absent} : ddl[t] # s /\ ddl' = [ddl EXCEPT ![t] = s]
  /\ edits' = edits + 1 /\ settled' = {} /\ scaffold' = scaffold
  /\ UNCHANGED <<chain, run, pc>>

(* The constraint is added NOT VALID first, as the HAZARD line advises. *)
NotValid(stmt) == [stmt EXCEPT !.shape.fks = {[f EXCEPT !.validated = FALSE] : f \in @}]

(* The developer writes the migration the scaffold asks for, only its first *)
(* statements, or its constraints unvalidated.                              *)
WriteMigration ==
  /\ pc = "idle" /\ Len(chain) < MaxMigrations /\ scaffold.stmts # <<>>
  /\ \/ chain' = Append(chain, scaffold.stmts) /\ settled' = (IF scaffold.ddl = ddl THEN scaffold.listed ELSE {})
     \/ /\ \/ chain' = Append(chain, Front(scaffold.stmts))
           \/ chain' = Append(chain, [i \in DOMAIN scaffold.stmts |-> NotValid(scaffold.stmts[i])])
        /\ settled' = {}
  /\ scaffold' = [scaffold EXCEPT !.stmts = <<>>]
  /\ UNCHANGED <<ddl, edits, run, pc>>

(****************************************************************************)
(* Discovery and order.                                                     *)
(****************************************************************************)
(* discoverPluginTables; a listed message without a file is an error, and   *)
(* so is a run without tables.                                              *)
Discover(scope) ==
  LET present == {t \in Tables : ddl[t] # Absent}
  IN IF scope = {} THEN present ELSE IF scope \subseteq present THEN scope ELSE {}

(* topoSortDDL: targets among the tables come first; there is no such order *)
(* of a cycle.                                                              *)
Orders(ts) ==
  {s \in SetToSeqs(ts) : \A i, j \in DOMAIN s : s[j] \in Targets(ddl[s[i]]) => j <= i}

\* Mutant: the files are taken in alphabetical order.
StatementsByName(ts) ==
  LET s == SelectSeq(TableNames, LAMBDA t : t \in ts)
  IN [i \in DOMAIN s |-> [table |-> s[i], shape |-> ddl[s[i]]]]

Statements(ts) ==
  LET s == CHOOSE s \in Orders(ts) : TRUE
  IN [i \in DOMAIN s |-> [table |-> s[i], shape |-> ddl[s[i]]]]

HasNonEmptyMigrations == chain # <<>>

(****************************************************************************)
(* A command.                                                               *)
(****************************************************************************)
\* Mutant: the tables that drifted are those of all commands so far.
BeginKeepingFailures(c, scope) ==
  /\ pc = "idle"
  /\ cmd' = c /\ listed' = Discover(scope)
  /\ stage' = [s \in Sides |-> "start"] /\ pg' = [s \in Sides |-> "none"]
  /\ db' = [s \in Sides |-> Nothing]
  /\ expired' = FALSE /\ broken' = FALSE /\ failures' = failures
  /\ todo' = listed'

Begin(c, scope) ==
  /\ pc = "idle"
  /\ cmd' = c /\ listed' = Discover(scope)
  /\ stage' = [s \in Sides |-> "start"] /\ pg' = [s \in Sides |-> "none"]
  /\ db' = [s \in Sides |-> Nothing]
  /\ expired' = FALSE /\ broken' = FALSE /\ failures' = {}
  /\ todo' = listed'

(* No tables, or the first migration: no database is needed.  The first     *)
(* migration is the DDL files one after another (emitInitialFromDDL).       *)
RunWithoutDatabases(c, scope) ==
  /\ Begin(c, scope)
  /\ \/ /\ listed' = {} /\ verdict' = "error" /\ UNCHANGED dev
     \/ /\ listed' # {} /\ c = "diff" /\ ~HasNonEmptyMigrations
        /\ IF Orders(listed') = {} THEN verdict' = "error" /\ UNCHANGED dev
           ELSE /\ verdict' = "scaffold"
                /\ scaffold' = [stmts |-> Statements(listed'), ddl |-> ddl, listed |-> listed']
                /\ UNCHANGED <<ddl, chain, edits, settled>>
  /\ pc' = "idle"

RunWithDatabases(c, scope) ==
  /\ Begin(c, scope)
  /\ listed' # {} /\ (c = "check" \/ HasNonEmptyMigrations)
  /\ verdict' = "none" /\ pc' = "bootstrap" /\ UNCHANGED dev

(* NewPostgres: the container runs, or did not start, or runs although      *)
(* NewPostgres gave up on it and hands nothing over ("lost").               *)
StartPostgres(s) ==
  /\ pc = "bootstrap" /\ stage[s] = "start"
  /\ \/ stage' = [stage EXCEPT ![s] = "prepare"] /\ pg' = [pg EXCEPT ![s] = "running"] /\ UNCHANGED broken
     \/ /\ stage' = [stage EXCEPT ![s] = "failed"] /\ broken' = TRUE
        /\ pg' \in {pg, [pg EXCEPT ![s] = "lost"]}
  /\ UNCHANGED <<dev, pc, cmd, listed, db, expired, todo, failures, verdict>>

(* The rest of bootstrapCheckPG: connect, create the role, open, ping.  The *)
(* container is handed over whatever fails.                                 *)
PrepareDatabase(s) ==
  /\ pc = "bootstrap" /\ stage[s] = "prepare"
  /\ \/ ~expired /\ stage' = [stage EXCEPT ![s] = "apply"] /\ UNCHANGED broken
     \/ stage' = [stage EXCEPT ![s] = "failed"] /\ broken' = TRUE
  /\ UNCHANGED <<dev, pc, cmd, listed, pg, db, expired, todo, failures, verdict>>

(* applyDDLFiles, under the deadline.  A file may be unreadable, a          *)
(* connection may fail.                                                     *)
ApplyDDLFiles ==
  /\ pc = "bootstrap" /\ stage["ddl"] = "apply"
  /\ LET result == IF Orders(listed) = {} THEN [ok |-> FALSE, db |-> Nothing]
                   ELSE Run(Nothing, Role, Statements(listed))
     IN \/ /\ ~expired
           /\ stage' = [stage EXCEPT !["ddl"] = IF result.ok THEN "done" ELSE "failed"]
           /\ db' = [db EXCEPT !["ddl"] = result.db] /\ UNCHANGED broken
        \/ stage' = [stage EXCEPT !["ddl"] = "failed"] /\ broken' = TRUE /\ UNCHANGED db
  /\ UNCHANGED <<dev, pc, cmd, listed, pg, expired, todo, failures, verdict>>

(* applyMigrations: golang-migrate is given no deadline, but the directory   *)
(* or its connection may fail.                                              *)
ApplyMigrations ==
  /\ pc = "bootstrap" /\ stage["migrations"] = "apply"
  /\ LET result == Run(Nothing, Role, FlattenSeq(chain))
     IN \/ /\ stage' = [stage EXCEPT !["migrations"] = IF result.ok THEN "done" ELSE "failed"]
           /\ db' = [db EXCEPT !["migrations"] = result.db] /\ UNCHANGED broken
        \/ stage' = [stage EXCEPT !["migrations"] = "failed"] /\ broken' = TRUE /\ UNCHANGED db
  /\ UNCHANGED <<dev, pc, cmd, listed, pg, expired, todo, failures, verdict>>

Ended(s) == stage[s] \in {"done", "failed"}

\* Mutant: an error ends the command before its containers are deferred to teardown.
AwaitBothDeferringLate ==
  /\ pc = "bootstrap" /\ \A s \in Sides : Ended(s)
  /\ IF \E s \in Sides : stage[s] = "failed"
     THEN verdict' = "error" /\ pc' = "idle" ELSE verdict' = verdict /\ pc' = "compare"
  /\ UNCHANGED <<dev, cmd, listed, stage, pg, db, expired, todo, failures, broken>>

(* bootstrap.Wait(): an error of either side is the command's. *)
AwaitBoth ==
  /\ pc = "bootstrap" /\ \A s \in Sides : Ended(s)
  /\ IF \E s \in Sides : stage[s] = "failed"
     THEN verdict' = "error" /\ pc' = "teardown" ELSE verdict' = verdict /\ pc' = "compare"
  /\ UNCHANGED <<dev, cmd, listed, stage, pg, db, expired, todo, failures, broken>>

Snapshot(s, t) == SnapshotTable(db[s][t])

(* The table is missing, or cmp.Diff of the snapshots or the brief has a    *)
(* line about it.                                                           *)
Differs(t) ==
  \/ db["migrations"][t] = Absent
  \/ IF cmd = "check" THEN Snapshot("ddl", t) # Snapshot("migrations", t)
     ELSE ComputeTableDelta(Snapshot("migrations", t), Snapshot("ddl", t)) # {}

(* pluginTables are sorted by name. *)
First(ts) == TableNames[Min({i \in DOMAIN TableNames : TableNames[i] \in ts})]

(* One table, or the end of the command if a query of a snapshot fails. *)
CompareTable ==
  /\ pc = "compare" /\ todo # {}
  /\ \/ /\ ~expired
        /\ failures' = failures \cup (IF Differs(First(todo)) THEN {First(todo)} ELSE {})
        /\ todo' = todo \ {First(todo)} /\ UNCHANGED <<verdict, broken, pc>>
     \/ verdict' = "error" /\ broken' = TRUE /\ pc' = "teardown" /\ UNCHANGED <<todo, failures>>
  /\ UNCHANGED <<dev, cmd, listed, stage, pg, db, expired>>

(* What a migration has to do to close the brief's delta: create the new    *)
(* tables, change the others, targets first.                                *)
Closing(t) ==
  LET current == db["migrations"][t]
  IN [table |-> t,
      shape |-> IF current = Absent THEN ddl[t]
                ELSE Close(current, ddl[t], ComputeTableDelta(Snapshot("migrations", t), Snapshot("ddl", t)))]

Report ==
  /\ pc = "compare" /\ todo = {}
  /\ IF cmd = "check"
     THEN verdict' = (IF failures = {} THEN "ok" ELSE "drift") /\ UNCHANGED scaffold
     ELSE /\ verdict' = "scaffold"
          /\ LET order == CHOOSE s \in Orders(failures) : TRUE
             IN scaffold' = [stmts |-> [i \in DOMAIN order |-> Closing(order[i])], ddl |-> ddl, listed |-> listed]
  /\ pc' = "teardown"
  /\ UNCHANGED <<ddl, chain, edits, settled, cmd, listed, stage, pg, db, expired, todo, failures, broken>>

\* Mutant: a container that cannot be terminated is tried again.
TeardownRetrying ==
  LET Handed == {s \in Sides : pg[s] = "running"}
  IN /\ pc = "teardown"
     /\ IF Handed = {} THEN pc' = "idle" /\ pg' = pg
        ELSE pg' = [s \in Sides |-> IF s \in Handed /\ ~expired THEN "terminated" ELSE pg[s]] /\ pc' = pc
     /\ UNCHANGED <<dev, cmd, listed, stage, db, expired, todo, failures, verdict, broken>>

(* The deferred teardowns, in reverse order.  Terminate has the command's   *)
(* deadline: once that has passed the container is not terminated.          *)
Teardown ==
  LET order == IF cmd = "check" THEN <<"migrations", "ddl">> ELSE <<"ddl", "migrations">>
      Handed == {s \in Sides : pg[s] = "running"}
      next == IF order[1] \in Handed THEN order[1] ELSE order[2]
  IN /\ pc = "teardown"
     /\ IF Handed = {} THEN pc' = "idle" /\ pg' = pg
        ELSE pg' = [pg EXCEPT ![next] = IF expired THEN "left" ELSE "terminated"] /\ pc' = pc
     /\ UNCHANGED <<dev, cmd, listed, stage, db, expired, todo, failures, verdict, broken>>

(* The five minutes of the command are over. *)
Expire ==
  /\ pc # "idle" /\ ~expired /\ expired' = TRUE
  /\ UNCHANGED <<dev, pc, cmd, listed, stage, pg, db, todo, failures, verdict, broken>>

Init ==
  /\ ddl = Nothing /\ chain = <<>> /\ edits = 0 /\ scaffold = [stmts |-> <<>>, ddl |-> Nothing, listed |-> {}] /\ settled = {}
  /\ cmd = "check" /\ pc = "idle" /\ listed = {} /\ todo = {} /\ failures = {}
  /\ stage = [s \in Sides |-> "start"] /\ pg = [s \in Sides |-> "none"] /\ db = [s \in Sides |-> Nothing]
  /\ expired = FALSE /\ verdict = "none" /\ broken = FALSE

Developer ==
  \/ \E t \in Tables : EditMessage(t)
  \/ WriteMigration
  \/ \E c \in {"check", "diff"}, scope \in Scopes : RunWithoutDatabases(c, scope) \/ RunWithDatabases(c, scope)

Command ==
  \/ \E s \in Sides : StartPostgres(s) \/ PrepareDatabase(s)
  \/ ApplyDDLFiles \/ ApplyMigrations \/ AwaitBoth \/ CompareTable \/ Report \/ Teardown

Next == Developer \/ Command \/ Expire

Spec == Init /\ [][Next]_vars

(* Docker, PostgreSQL and golang-migrate answer in the end; the developer   *)
(* need not do anything and the deadline need not pass.                     *)
FairSpec == Spec /\ WF_vars(Command)

(* What snapshotTable does not read, of a column or of a table, is never    *)
(* all that changes: PARTITION BY, the expression of a generated column and *)
(* what follows `::` in a default.                                          *)
ReadInFull ==
  \A t \in Tables : \A x, y \in Shapes[t] :
    /\ x.partition = y.partition
    /\ \A c \in x.columns, d \in y.columns :
         c.name = d.name /\ c.type = d.type /\ NormaliseDefault(c.default) = NormaliseDefault(d.default)
           => c = d

(****************************************************************************)
(* Properties.                                                              *)
(****************************************************************************)
DriftTypeOK ==
  /\ ddl \in [Tables -> (UNION {Shapes[t] : t \in Tables}) \cup {Absent}]
  /\ edits \in 0 .. MaxEdits /\ Len(chain) <= MaxMigrations /\ settled \subseteq Tables
  /\ pc \in {"idle", "bootstrap", "compare", "teardown"} /\ listed \subseteq Tables /\ failures \subseteq listed
  /\ stage \in [Sides -> {"start", "prepare", "apply", "done", "failed"}]
  /\ pg \in [Sides -> {"none", "running", "lost", "left", "terminated"}]
  /\ verdict \in {"none", "ok", "drift", "scaffold", "error"}

(* check prints ok only if, of every plugin-managed table, the migrations   *)
(* make what its DDL file says (runCheck: "asserts that applying every      *)
(* ddl.sql produces the same schema as applying every migration").          *)
OkMeansNoDrift ==
  pc = "teardown" /\ verdict = "ok" =>
    \A t \in listed : Run(Nothing, Role, FlattenSeq(chain)).db[t] = ddl[t]

(* check finds drift in a table exactly if diff would print a line about it *)
(* (cmp.Diff in runCheck, computeTableDelta): a developer who has closed    *)
(* the delta is never told of drift that diff does not show.                *)
DeltaIsWhatCheckCompares ==
  pc = "compare" /\ stage = [s \in Sides |-> "done"] =>
    \A t \in listed : db["migrations"][t] # Absent =>
      (Snapshot("ddl", t) # Snapshot("migrations", t)
         <=> ComputeTableDelta(Snapshot("migrations", t), Snapshot("ddl", t)) # {})

(* What the DDL files of some tables refer to is among them.                *)
Applicable(files, ts) ==
  \A t \in ts : Accepts([x \in Tables |-> IF x \in ts THEN files[x] ELSE Absent], Role,
                        [table |-> t, shape |-> files[t]])

(* A migration that does what the scaffold of diff asks for passes the next *)
(* check of its tables, or some of them, unless something outside breaks    *)
(* the check: the first migration reproduces the schema, the later ones     *)
(* close the delta (emitInitialFromDDL, emitLLMBrief).  A DDL file cannot   *)
(* be applied without the table or role it refers to, nor can a migration.  *)
ScaffoldConverges ==
  pc = "teardown" /\ cmd = "check" /\ listed \subseteq settled /\ ~broken
    /\ Applicable(ddl, listed) /\ Applicable(ddl, settled)
    => verdict = "ok"

(* Every container that NewPostgres handed over is terminated when the      *)
(* command ends, whichever side failed and wherever, if it ends within its  *)
(* deadline (teardown deferred before the error is looked at).              *)
ContainersAreTerminated == pc = "idle" /\ ~expired => \A s \in Sides : pg[s] \in {"none", "lost", "terminated"}

(* Every command ends. *)
CommandsEnd == pc # "idle" ~> pc = "idle"
=============================================================================
